----------------------- MODULE SessionLifecycleProofs -----------------------
(***************************************************************************)
(* Proofs about SessionLifecycle, for any sessions, tracks and bounds.     *)
(***************************************************************************)
EXTENDS SessionLifecycle, FiniteSetTheorems, TLAPS

-----------------------------------------------------------------------------
(* Finite sets of segments. *)

\* A recording holds finitely many segments.
LEMMA SegmentsFinite == IsFiniteSet(Segments)
<1>1. IsFiniteSet({"self", "remote"})
  <2>1. IsFiniteSet({"self"}) /\ IsFiniteSet({"remote"})
    BY FS_Singleton
  <2>2. {"self", "remote"} = {"self"} \cup {"remote"}
    OBVIOUS
  <2> QED BY <2>1, <2>2, FS_Union
<1>2. IsFiniteSet(Tracks)
  BY <1>1, FS_Subset, BoundsAssumption
<1>3. IsFiniteSet(0 .. MaxSegments - 1)
  BY FS_Interval, BoundsAssumption
<1> QED BY <1>2, <1>3, FS_Product DEF Segments

\* The count a finalize request carries is a number.
LEMMA SegmentCountType == \A s : SegmentCount(s) \in Nat
<1> TAKE s
<1>1. Registered(s) \in SUBSET Segments
  BY DEF Registered
<1> QED BY <1>1, SegmentsFinite, FS_Subset, FS_CardinalityType DEF SegmentCount

\* A pass count that is not the limit is below it.
LEMMA BelowLimit == \A n \in 0 .. MaxPasses : n # MaxPasses => n < MaxPasses
BY BoundsAssumption

-----------------------------------------------------------------------------
(* Type correctness.  TypeOK alone is not inductive: the pass count stays in   *)
(* its range because of where a worker is, and so does what it works on.       *)

\* The pass count of a worker outside the shared tail is 0, and a pass begins
\* only below the limit.
PassesBounded ==
  \A w \in Workers :
    /\ pc[w] = "pass" => passes[w] < MaxPasses
    /\ pc[w] \notin {"pass", "drain", "drain_call", "finalize", "finalize_call"} =>
         passes[w] = 0

\* A worker that handles a segment has one.
SegmentInHand ==
  \A w \in Workers :
    pc[w] \in {"rename", "insert", "upload", "upload_call", "drain_call"} =>
      current[w] \in Segments

\* So does recovery, between taking a session and letting go of it.
SessionInHand ==
  pc[Recovery] \notin {"reconcile", "select", "next", "over"} => task \in Sessions

TypeInv == TypeOK /\ PassesBounded /\ SegmentInHand /\ SessionInHand

USE DEF Workers, ledger, api, local, recover, SetPc, SetState, SetStatus

LEMMA TypeInit == Init => TypeInv
BY SessionsAssumption, BoundsAssumption
   DEF Init, TypeInv, TypeOK, PassesBounded, SegmentInHand, SessionInHand, CaptureStates,
       UploadStates

LEMMA TypeCapture ==
  ASSUME TypeInv, NEW s \in Sessions, Capture(s)
  PROVE  TypeInv'
<1> USE SessionsAssumption, BoundsAssumption DEF TypeInv, TypeOK, PassesBounded, SegmentInHand, SessionInHand
<1>1. CASE StartRecording(s)
  BY <1>1 DEF StartRecording
<1>2. ASSUME NEW t \in Tracks, CaptureAudio(s, t)
      PROVE  TypeInv'
  <2>1. PICK q \in 0 .. MaxSegments - 1 :
          captured' = [captured EXCEPT ![s] = @ \union {<<t, q>>}]
    BY <1>2 DEF CaptureAudio
  <2>2. <<t, q>> \in Segments
    BY DEF Segments
  <2>3. captured' \in [Sessions -> SUBSET Segments]
    BY <2>1, <2>2
  <2>4. UNCHANGED <<captureState, remoteId, uploadStatus, files, srvSessions, sent, received, finalizeSent,
                    srvFinalized, pc, linked, todo, current, passes, expected, queue, task, crashes>>
    BY <1>2 DEF CaptureAudio
  <2> QED BY <2>3, <2>4
<1>3. CASE StopRecording(s)
  BY <1>3 DEF StopRecording
<1>4. CASE CaptureFails(s)
  BY <1>4 DEF CaptureFails
<1> QED BY <1>1, <1>2, <1>3, <1>4 DEF Capture

LEMMA TypePipeline ==
  ASSUME TypeInv, NEW s \in Sessions, Pipeline(s)
  PROVE  TypeInv'
<1> USE SessionsAssumption, BoundsAssumption
    DEF TypeInv, TypeOK, PassesBounded, SegmentInHand, SessionInHand
<1>1. CASE CreateRow(s)
  BY <1>1 DEF CreateRow, CaptureStates
<1>2. CASE BeginRegistered(s)
  BY <1>2 DEF BeginRegistered
<1>3. CASE BeginUnregistered(s)
  BY <1>3 DEF BeginUnregistered
<1>4. CASE SetRecording(s)
  BY <1>4 DEF SetRecording, CaptureStates
<1>5. CASE WritePartial(s)
  <2>1. PICK g \in captured[s] :
          /\ files' = [files EXCEPT ![s][g] = "partial"]
          /\ current' = [current EXCEPT ![s] = g]
    BY <1>5 DEF WritePartial
  <2>2. g \in Segments
    OBVIOUS
  <2>3. files' \in [Sessions -> [Segments -> {"none", "partial", "opus"}]]
    BY <2>1
  <2>4. current' \in [Workers -> Segments \union {NoSegment}] /\ current'[s] \in Segments
    BY <2>1, <2>2
  <2> QED BY <1>5, <2>1, <2>2, <2>3, <2>4 DEF WritePartial
<1>6. CASE RenameSegment(s)
  BY <1>6 DEF RenameSegment
<1>7. CASE RegisterSegment(s)
  <2>1. uploadStatus' \in [Sessions -> [Segments -> UploadStates]]
    BY <1>7 DEF RegisterSegment, UploadStates
  <2>2. PICK after \in {"upload", "commit"} :
          /\ pc' = [pc EXCEPT ![s] = after]
          /\ current' = current \/ (after = "commit" /\ current' = [current EXCEPT ![s] = NoSegment])
    BY <1>7 DEF RegisterSegment
  <2>3. /\ pc[s] = "insert"
        /\ UNCHANGED <<captureState, remoteId, files, srvSessions, sent, received, finalizeSent, srvFinalized,
                       captured, linked, todo, passes, expected, queue, task, crashes>>
    BY <1>7 DEF RegisterSegment
  <2>4. TypeOK'
    BY <2>1, <2>2, <2>3
  <2>5. PassesBounded'
    BY <2>2, <2>3
  <2>6. SegmentInHand' /\ SessionInHand'
    BY <2>2, <2>3
  <2> QED BY <2>4, <2>5, <2>6
<1>8. CASE CommitFails(s)
  BY <1>8 DEF CommitFails
<1>9. CASE StartUpload(s)
  <2>1. TypeOK'
    BY <1>9 DEF StartUpload, UploadStates
  <2>2. PassesBounded'
    BY <1>9 DEF StartUpload, UploadStates
  <2>3. SegmentInHand' /\ SessionInHand'
    BY <1>9 DEF StartUpload, UploadStates
  <2> QED BY <2>1, <2>2, <2>3
<1>10. CASE FinishTracks(s)
  BY <1>10 DEF FinishTracks
<1>11. CASE LateRegistered(s)
  BY <1>11 DEF LateRegistered
<1>12. CASE LateUnregistered(s)
  BY <1>12 DEF LateUnregistered, CaptureStates
<1>13. CASE SetStopping(s)
  BY <1>13 DEF SetStopping, CaptureStates
<1>14. CASE SetFinalizing(s)
  <2>1. TypeOK'
    BY <1>14 DEF SetFinalizing, CaptureStates
  <2>2. PassesBounded'
    BY <1>14 DEF SetFinalizing, CaptureStates
  <2>3. SegmentInHand' /\ SessionInHand'
    BY <1>14 DEF SetFinalizing, CaptureStates
  <2> QED BY <2>1, <2>2, <2>3
<1> QED BY <1>1, <1>2, <1>3, <1>4, <1>5, <1>6, <1>7, <1>8, <1>9, <1>10, <1>11,
           <1>12, <1>13, <1>14 DEF Pipeline

LEMMA TypeTail ==
  ASSUME TypeInv, NEW w \in Workers, NEW s \in Sessions, FinalizeAndUpload(w, s)
  PROVE  TypeInv'
<1> USE SessionsAssumption, BoundsAssumption
    DEF TypeInv, TypeOK, PassesBounded, SegmentInHand, SessionInHand
<1>1. CASE BeginPass(w, s)
  BY <1>1 DEF BeginPass, CountPass, PendingUploads
<1>2. CASE DrainUpload(w, s)
  BY <1>2 DEF DrainUpload, UploadStates
<1>3. CASE UploadAccepted(w, s)
  BY <1>3 DEF UploadAccepted, EndCall, UploadStates
<1>4. CASE UploadFails(w, s)
  <2>1. TypeOK'
    <3>1. PICK status \in {"retryable", "permanent"} : SetStatus(s, current[w], status)
      BY <1>4 DEF UploadFails
    <3>2. uploadStatus' \in [Sessions -> [Segments -> UploadStates]]
      BY <3>1 DEF UploadStates
    <3> QED BY <1>4, <3>2 DEF UploadFails, EndCall
  <2>2. PassesBounded'
    BY <1>4 DEF UploadFails, EndCall, UploadStates
  <2>3. SegmentInHand' /\ SessionInHand'
    BY <1>4 DEF UploadFails, EndCall, UploadStates
  <2> QED BY <2>1, <2>2, <2>3
<1>5. CASE EndPass(w, s)
  <2>1. TypeOK'
    BY <1>5 DEF EndPass, PassesDone
  <2>2. PassesBounded'
    <3>1. pc'[w] = "pass" => passes[w] < MaxPasses
      <4>1. pc'[w] = "pass" => passes[w] # MaxPasses
        BY <1>5 DEF EndPass, PassesDone
      <4>2. passes[w] \in 0 .. MaxPasses
        OBVIOUS
      <4> QED BY ONLY <4>1, <4>2, BelowLimit
    <3>2. pc'[w] \in {"pass", "finalize"} /\ \A v \in Workers \ {w} : pc'[v] = pc[v]
      BY <1>5 DEF EndPass
    <3>3. passes' = passes
      BY <1>5 DEF EndPass
    <3> QED BY <3>1, <3>2, <3>3
  <2>3. SegmentInHand' /\ SessionInHand'
    BY <1>5 DEF EndPass, PassesDone
  <2> QED BY <2>1, <2>2, <2>3
<1>6. CASE SendFinalize(w, s)
  BY <1>6, SegmentCountType DEF SendFinalize
<1>7. CASE FinalizeAccepted(w, s)
  BY <1>7 DEF FinalizeAccepted, LeaveTail, CaptureStates
<1>8. CASE FinalizeFails(w, s)
  BY <1>8 DEF FinalizeFails, LeaveTail
<1> QED BY <1>1, <1>2, <1>3, <1>4, <1>5, <1>6, <1>7, <1>8 DEF FinalizeAndUpload

LEMMA TypeRecover ==
  ASSUME TypeInv, Recover
  PROVE  TypeInv'
<1> USE SessionsAssumption, BoundsAssumption
    DEF TypeInv, TypeOK, PassesBounded, SegmentInHand, SessionInHand
<1>1. CASE Reconcile
  BY <1>1 DEF Reconcile, CaptureStates
<1>2. CASE SelectUnregistered
  BY <1>2 DEF SelectUnregistered
<1>3. ASSUME NEW s \in Sessions, TakeSession(s)
      PROVE  TypeInv'
  BY <1>3 DEF TakeSession
<1>4. CASE FinishRecovery
  BY <1>4 DEF FinishRecovery
<1>5. CASE ScanSelf
  <2>1. TypeOK'
    BY <1>5 DEF ScanSelf, Scan, UploadStates
  <2>2. PassesBounded'
    BY <1>5 DEF ScanSelf, Scan, UploadStates
  <2>3. SegmentInHand' /\ SessionInHand'
    BY <1>5 DEF ScanSelf, Scan, UploadStates
  <2> QED BY <2>1, <2>2, <2>3
<1>6. CASE ScanRemote
  <2>1. TypeOK'
    BY <1>6 DEF ScanRemote, Scan, UploadStates
  <2>2. PassesBounded'
    BY <1>6 DEF ScanRemote, Scan, UploadStates
  <2>3. SegmentInHand' /\ SessionInHand'
    BY <1>6 DEF ScanRemote, Scan, UploadStates
  <2> QED BY <2>1, <2>2, <2>3
<1>7. CASE LookupRemote
  BY <1>7 DEF LookupRemote
<1>8. CASE RecoveryRegistered
  <2>1. TypeOK'
    BY <1>8 DEF RecoveryRegistered
  <2>2. PassesBounded'
    <3>1. passes[Recovery] = 0
      BY <1>8 DEF RecoveryRegistered
    <3>2. 0 < MaxPasses
      BY BoundsAssumption
    <3>3. pc' = [pc EXCEPT ![Recovery] = "pass"] /\ passes' = passes
      BY <1>8 DEF RecoveryRegistered
    <3> QED BY <3>1, <3>2, <3>3
  <2>3. SegmentInHand' /\ SessionInHand'
    BY <1>8 DEF RecoveryRegistered
  <2> QED BY <2>1, <2>2, <2>3
<1>9. CASE RecoveryUnregistered
  BY <1>9 DEF RecoveryUnregistered
<1> QED BY <1>1, <1>2, <1>3, <1>4, <1>5, <1>6, <1>7, <1>8, <1>9 DEF Recover

LEMMA TypeEnvironment ==
  ASSUME TypeInv,
         (\E s \in Sessions : Api(s)) \/ Crash \/ Restart \/ UNCHANGED vars
  PROVE  TypeInv'
<1> USE SessionsAssumption, BoundsAssumption
    DEF TypeInv, TypeOK, PassesBounded, SegmentInHand, SessionInHand
<1>1. ASSUME NEW s \in Sessions, ServerStores(s)
      PROVE  TypeInv'
  BY <1>1 DEF ServerStores
<1>2. ASSUME NEW s \in Sessions, ServerFinalizes(s)
      PROVE  TypeInv'
  BY <1>2 DEF ServerFinalizes
<1>3. CASE Crash
  BY <1>3 DEF Crash, NewProcess
<1>4. CASE Restart
  BY <1>4 DEF Restart, NewProcess
<1>5. CASE UNCHANGED vars
  BY <1>5 DEF vars
<1> QED BY <1>1, <1>2, <1>3, <1>4, <1>5 DEF Api

LEMMA TypeStep == TypeInv /\ [Next]_vars => TypeInv'
BY TypeCapture, TypePipeline, TypeTail, TypeRecover, TypeEnvironment DEF Next

\* Every variable keeps its type for ever: no segment number, pass count or task
\* leaves its range at any crash, failure or answer of the network.
THEOREM TypeCorrect == Spec => []TypeOK
<1>1. TypeInv => TypeOK
  BY DEF TypeInv
<1> QED BY TypeInit, TypeStep, <1>1, PTL DEF Spec

-----------------------------------------------------------------------------
(* Receipts.  The chain behind them: what the API stored was sent, what was    *)
(* sent has its row, and what is about to be sent has one too.                 *)

ReceiptChain ==
  \A s \in Sessions : \A g \in Segments :
    /\ uploadStatus[s][g] = "completed" => g \in received[s]
    /\ g \in received[s] => g \in sent[s]
    /\ g \in sent[s] => uploadStatus[s][g] # "none"

UploadsHaveRows ==
  \A w \in Workers, s \in Sessions : WorksOn(w, s) =>
    /\ pc[w] \in {"upload", "upload_call", "drain_call"} =>
         uploadStatus[s][current[w]] # "none"
    /\ pc[w] \in {"drain", "drain_call"} =>
         \A g \in todo[w] : uploadStatus[s][g] # "none"

ReceiptInv == ReceiptChain /\ UploadsHaveRows

LEMMA ReceiptInit == Init => ReceiptInv
BY SessionsAssumption
   DEF Init, ReceiptInv, ReceiptChain, UploadsHaveRows, WorksOn

LEMMA ReceiptCapture ==
  ASSUME TypeInv, ReceiptInv,
         NEW s \in Sessions, Capture(s)
  PROVE  ReceiptInv'
<1> USE SessionsAssumption
    DEF TypeInv, TypeOK, SegmentInHand, ReceiptInv, ReceiptChain, UploadsHaveRows, WorksOn
<1>1. CASE StartRecording(s)
  BY <1>1 DEF StartRecording
<1>2. ASSUME NEW t \in Tracks, CaptureAudio(s, t)
      PROVE  ReceiptInv'
  BY <1>2 DEF CaptureAudio
<1>3. CASE StopRecording(s)
  BY <1>3 DEF StopRecording
<1>4. CASE CaptureFails(s)
  BY <1>4 DEF CaptureFails
<1> QED BY <1>1, <1>2, <1>3, <1>4 DEF Capture

LEMMA ReceiptPipeline ==
  ASSUME TypeInv, ReceiptInv,
         NEW s \in Sessions, Pipeline(s)
  PROVE  ReceiptInv'
<1> USE SessionsAssumption
    DEF TypeInv, TypeOK, SegmentInHand, ReceiptInv, ReceiptChain, UploadsHaveRows, WorksOn
<1>1. CASE CreateRow(s)
  BY <1>1 DEF CreateRow
<1>2. CASE BeginRegistered(s)
  BY <1>2 DEF BeginRegistered
<1>3. CASE BeginUnregistered(s)
  BY <1>3 DEF BeginUnregistered
<1>4. CASE SetRecording(s)
  BY <1>4 DEF SetRecording
<1>5. CASE WritePartial(s)
  BY <1>5 DEF WritePartial
<1>6. CASE RenameSegment(s)
  BY <1>6 DEF RenameSegment
<1>7. CASE RegisterSegment(s)
  BY <1>7 DEF RegisterSegment
<1>8. CASE CommitFails(s)
  BY <1>8 DEF CommitFails
<1>9. CASE StartUpload(s)
  BY <1>9 DEF StartUpload
<1>10. CASE FinishTracks(s)
  BY <1>10 DEF FinishTracks
<1>11. CASE LateRegistered(s)
  BY <1>11 DEF LateRegistered
<1>12. CASE LateUnregistered(s)
  BY <1>12 DEF LateUnregistered
<1>13. CASE SetStopping(s)
  BY <1>13 DEF SetStopping
<1>14. CASE SetFinalizing(s)
  BY <1>14 DEF SetFinalizing
<1> QED BY <1>1, <1>2, <1>3, <1>4, <1>5, <1>6, <1>7, <1>8, <1>9, <1>10, <1>11, <1>12, <1>13, <1>14 DEF Pipeline

LEMMA ReceiptTail ==
  ASSUME TypeInv, ReceiptInv,
         NEW w \in Workers, NEW s \in Sessions, FinalizeAndUpload(w, s)
  PROVE  ReceiptInv'
<1> USE SessionsAssumption
    DEF TypeInv, TypeOK, SegmentInHand, ReceiptInv, ReceiptChain, UploadsHaveRows, WorksOn
<1>1. CASE BeginPass(w, s)
  BY <1>1 DEF BeginPass, CountPass, PendingUploads
<1>2. CASE DrainUpload(w, s)
  BY <1>2 DEF DrainUpload
<1>3. CASE UploadAccepted(w, s)
  BY <1>3 DEF UploadAccepted, EndCall, HasReceipt
<1>4. CASE UploadFails(w, s)
  BY <1>4 DEF UploadFails, EndCall
<1>5. CASE EndPass(w, s)
  BY <1>5 DEF EndPass
<1>6. CASE SendFinalize(w, s)
  BY <1>6 DEF SendFinalize
<1>7. CASE FinalizeAccepted(w, s)
  BY <1>7 DEF FinalizeAccepted, LeaveTail
<1>8. CASE FinalizeFails(w, s)
  BY <1>8 DEF FinalizeFails, LeaveTail
<1> QED BY <1>1, <1>2, <1>3, <1>4, <1>5, <1>6, <1>7, <1>8 DEF FinalizeAndUpload

LEMMA ReceiptRecover ==
  ASSUME TypeInv, ReceiptInv,
         Recover
  PROVE  ReceiptInv'
<1> USE SessionsAssumption
    DEF TypeInv, TypeOK, SegmentInHand, ReceiptInv, ReceiptChain, UploadsHaveRows, WorksOn
<1>1. CASE Reconcile
  BY <1>1 DEF Reconcile
<1>2. CASE SelectUnregistered
  BY <1>2 DEF SelectUnregistered
<1>3. ASSUME NEW s \in Sessions, TakeSession(s)
      PROVE  ReceiptInv'
  BY <1>3 DEF TakeSession
<1>4. CASE FinishRecovery
  BY <1>4 DEF FinishRecovery
<1>5. CASE ScanSelf
  BY <1>5 DEF ScanSelf, Scan, Orphan
<1>6. CASE ScanRemote
  BY <1>6 DEF ScanRemote, Scan, Orphan
<1>7. CASE LookupRemote
  BY <1>7 DEF LookupRemote
<1>8. CASE RecoveryRegistered
  BY <1>8 DEF RecoveryRegistered
<1>9. CASE RecoveryUnregistered
  BY <1>9 DEF RecoveryUnregistered
<1> QED BY <1>1, <1>2, <1>3, <1>4, <1>5, <1>6, <1>7, <1>8, <1>9 DEF Recover

LEMMA ReceiptEnvironment ==
  ASSUME TypeInv, ReceiptInv,
         (\E s \in Sessions : Api(s)) \/ Crash \/ Restart \/ UNCHANGED vars
  PROVE  ReceiptInv'
<1> USE SessionsAssumption
    DEF TypeInv, TypeOK, SegmentInHand, ReceiptInv, ReceiptChain, UploadsHaveRows, WorksOn
<1>1. ASSUME NEW s \in Sessions, ServerStores(s)
      PROVE  ReceiptInv'
  BY <1>1 DEF ServerStores
<1>2. ASSUME NEW s \in Sessions, ServerFinalizes(s)
      PROVE  ReceiptInv'
  BY <1>2 DEF ServerFinalizes
<1>3. CASE Crash
  BY <1>3 DEF Crash, NewProcess
<1>4. CASE Restart
  BY <1>4 DEF Restart, NewProcess
<1>5. CASE UNCHANGED vars
  BY <1>5 DEF vars
<1> QED BY <1>1, <1>2, <1>3, <1>4, <1>5 DEF Api

LEMMA ReceiptStep == TypeInv /\ ReceiptInv /\ [Next]_vars => ReceiptInv'
BY ReceiptCapture, ReceiptPipeline, ReceiptTail, ReceiptRecover, ReceiptEnvironment
   DEF Next

-----------------------------------------------------------------------------
(* Files.  A row is written for a file that has its final name already, and    *)
(* nothing that is still to be written has it.                                 *)

FreshSegments ==
  \A s \in Sessions :
    /\ pc[s] \in {"unused", "capturing"} => \A g \in Segments : files[s][g] = "none"
    /\ \A g \in captured[s] : files[s][g] # "opus"

RenamedFirst ==
  \A s \in Sessions : pc[s] = "insert" => files[s][current[s]] = "opus"

FileInv == LedgerHasFiles /\ FreshSegments /\ RenamedFirst

LEMMA FileInit == Init => FileInv
BY SessionsAssumption
   DEF Init, FileInv, LedgerHasFiles, Registered, FreshSegments, RenamedFirst

LEMMA FileCapture ==
  ASSUME TypeInv, ReceiptInv, FileInv,
         NEW s \in Sessions, Capture(s)
  PROVE  FileInv'
<1> USE SessionsAssumption
    DEF TypeInv, TypeOK, SegmentInHand, SessionInHand, ReceiptInv, UploadsHaveRows,
        FileInv, LedgerHasFiles, Registered, FreshSegments, RenamedFirst, WorksOn
<1>1. CASE StartRecording(s)
  BY <1>1 DEF StartRecording
<1>2. ASSUME NEW t \in Tracks, CaptureAudio(s, t)
      PROVE  FileInv'
  <2>1. PICK q \in 0 .. MaxSegments - 1 :
          captured' = [captured EXCEPT ![s] = @ \union {<<t, q>>}]
    BY <1>2 DEF CaptureAudio
  <2>2. PICK g \in Segments : captured' = [captured EXCEPT ![s] = @ \union {g}]
    BY <2>1 DEF Segments
  <2>3. UNCHANGED <<files, uploadStatus, pc, current>> /\ pc[s] = "capturing"
    BY <1>2 DEF CaptureAudio
  <2> QED BY <2>2, <2>3
<1>3. CASE StopRecording(s)
  BY <1>3 DEF StopRecording
<1>4. CASE CaptureFails(s)
  BY <1>4 DEF CaptureFails
<1> QED BY <1>1, <1>2, <1>3, <1>4 DEF Capture

LEMMA FilePipeline ==
  ASSUME TypeInv, ReceiptInv, FileInv,
         NEW s \in Sessions, Pipeline(s)
  PROVE  FileInv'
<1> USE SessionsAssumption
    DEF TypeInv, TypeOK, SegmentInHand, SessionInHand, ReceiptInv, UploadsHaveRows,
        FileInv, LedgerHasFiles, Registered, FreshSegments, RenamedFirst, WorksOn
<1>1. CASE CreateRow(s)
  BY <1>1 DEF CreateRow
<1>2. CASE BeginRegistered(s)
  BY <1>2 DEF BeginRegistered
<1>3. CASE BeginUnregistered(s)
  BY <1>3 DEF BeginUnregistered
<1>4. CASE SetRecording(s)
  BY <1>4 DEF SetRecording
<1>5. CASE WritePartial(s)
  BY <1>5 DEF WritePartial
<1>6. CASE RenameSegment(s)
  BY <1>6 DEF RenameSegment
<1>7. CASE RegisterSegment(s)
  <2>1. LedgerHasFiles'
    BY <1>7 DEF RegisterSegment
  <2>2. FreshSegments'
    BY <1>7 DEF RegisterSegment
  <2>3. RenamedFirst'
    BY <1>7 DEF RegisterSegment
  <2> QED BY <2>1, <2>2, <2>3
<1>8. CASE CommitFails(s)
  BY <1>8 DEF CommitFails
<1>9. CASE StartUpload(s)
  BY <1>9 DEF StartUpload
<1>10. CASE FinishTracks(s)
  BY <1>10 DEF FinishTracks
<1>11. CASE LateRegistered(s)
  BY <1>11 DEF LateRegistered
<1>12. CASE LateUnregistered(s)
  BY <1>12 DEF LateUnregistered
<1>13. CASE SetStopping(s)
  BY <1>13 DEF SetStopping
<1>14. CASE SetFinalizing(s)
  BY <1>14 DEF SetFinalizing
<1> QED BY <1>1, <1>2, <1>3, <1>4, <1>5, <1>6, <1>7, <1>8, <1>9, <1>10, <1>11,
           <1>12, <1>13, <1>14 DEF Pipeline

LEMMA FileTail ==
  ASSUME TypeInv, ReceiptInv, FileInv,
         NEW w \in Workers, NEW s \in Sessions, FinalizeAndUpload(w, s)
  PROVE  FileInv'
<1> USE SessionsAssumption
    DEF TypeInv, TypeOK, SegmentInHand, SessionInHand, ReceiptInv, UploadsHaveRows,
        FileInv, LedgerHasFiles, Registered, FreshSegments, RenamedFirst, WorksOn
<1>1. CASE BeginPass(w, s)
  BY <1>1 DEF BeginPass, CountPass, PendingUploads
<1>2. CASE DrainUpload(w, s)
  BY <1>2 DEF DrainUpload
<1>3. CASE UploadAccepted(w, s)
  BY <1>3 DEF UploadAccepted, EndCall, HasReceipt
<1>4. CASE UploadFails(w, s)
  <2>1. PICK status \in {"retryable", "permanent"} : SetStatus(s, current[w], status)
    BY <1>4 DEF UploadFails
  <2>2. uploadStatus[s][current[w]] # "none"
    BY <1>4 DEF UploadFails
  <2> QED BY <1>4, <2>1, <2>2 DEF UploadFails, EndCall
<1>5. CASE EndPass(w, s)
  BY <1>5 DEF EndPass
<1>6. CASE SendFinalize(w, s)
  BY <1>6 DEF SendFinalize
<1>7. CASE FinalizeAccepted(w, s)
  BY <1>7 DEF FinalizeAccepted, LeaveTail
<1>8. CASE FinalizeFails(w, s)
  BY <1>8 DEF FinalizeFails, LeaveTail
<1> QED BY <1>1, <1>2, <1>3, <1>4, <1>5, <1>6, <1>7, <1>8 DEF FinalizeAndUpload

LEMMA FileRecover ==
  ASSUME TypeInv, ReceiptInv, FileInv,
         Recover
  PROVE  FileInv'
<1> USE SessionsAssumption
    DEF TypeInv, TypeOK, SegmentInHand, SessionInHand, ReceiptInv, UploadsHaveRows,
        FileInv, LedgerHasFiles, Registered, FreshSegments, RenamedFirst, WorksOn
<1>1. CASE Reconcile
  BY <1>1 DEF Reconcile
<1>2. CASE SelectUnregistered
  BY <1>2 DEF SelectUnregistered
<1>3. ASSUME NEW s \in Sessions, TakeSession(s)
      PROVE  FileInv'
  BY <1>3 DEF TakeSession
<1>4. CASE FinishRecovery
  BY <1>4 DEF FinishRecovery
<1>5. CASE ScanSelf
  BY <1>5 DEF ScanSelf, Scan, Unfinished, Orphan
<1>6. CASE ScanRemote
  BY <1>6 DEF ScanRemote, Scan, Unfinished, Orphan
<1>7. CASE LookupRemote
  BY <1>7 DEF LookupRemote
<1>8. CASE RecoveryRegistered
  BY <1>8 DEF RecoveryRegistered
<1>9. CASE RecoveryUnregistered
  BY <1>9 DEF RecoveryUnregistered
<1> QED BY <1>1, <1>2, <1>3, <1>4, <1>5, <1>6, <1>7, <1>8, <1>9 DEF Recover

LEMMA FileEnvironment ==
  ASSUME TypeInv, ReceiptInv, FileInv,
         (\E s \in Sessions : Api(s)) \/ Crash \/ Restart \/ UNCHANGED vars
  PROVE  FileInv'
<1> USE SessionsAssumption
    DEF TypeInv, TypeOK, SegmentInHand, SessionInHand, ReceiptInv, UploadsHaveRows,
        FileInv, LedgerHasFiles, Registered, FreshSegments, RenamedFirst, WorksOn
<1>1. ASSUME NEW s \in Sessions, ServerStores(s)
      PROVE  FileInv'
  BY <1>1 DEF ServerStores
<1>2. ASSUME NEW s \in Sessions, ServerFinalizes(s)
      PROVE  FileInv'
  BY <1>2 DEF ServerFinalizes
<1>3. CASE Crash
  BY <1>3 DEF Crash, NewProcess
<1>4. CASE Restart
  BY <1>4 DEF Restart, NewProcess
<1>5. CASE UNCHANGED vars
  BY <1>5 DEF vars
<1> QED BY <1>1, <1>2, <1>3, <1>4, <1>5 DEF Api

LEMMA StepKeepsFiles ==
  TypeInv /\ ReceiptInv /\ FileInv /\ [Next]_vars => TypeInv' /\ ReceiptInv' /\ FileInv'
<1>1. TypeInv /\ ReceiptInv /\ [Next]_vars => ReceiptInv'
  BY ReceiptStep
<1>2. TypeInv /\ ReceiptInv /\ FileInv /\ [Next]_vars => FileInv'
  BY FileCapture, FilePipeline, FileTail, FileRecover, FileEnvironment DEF Next
<1> QED BY TypeStep, <1>1, <1>2

\* Every row of the ledger has its final file, through any crash between rename
\* and row, any scan after it, and any failure of a commit.
THEOREM RowsHaveFiles == Spec => []LedgerHasFiles
<1>1. FileInv => LedgerHasFiles
  BY DEF FileInv
<1> QED BY TypeInit, ReceiptInit, FileInit, StepKeepsFiles, <1>1, PTL DEF Spec

-----------------------------------------------------------------------------
(* Ownership, when recovery reconciles before the user can record.  Recovery   *)
(* takes only Failed sessions, and a session with a live pipeline is not one.  *)

LiveIsNotFailed ==
  \A s \in Sessions :
    /\ Live(s) => captureState[s] \notin {"failed", "finalized"}
    /\ pc[s] \in {"unused", "capturing", "create_row"} => captureState[s] = "none"

RecoveryHasFailed ==
  /\ \A s \in Sessions : s \in queue \/ task = s => captureState[s] = "failed"
  /\ task \notin queue

RecoveryIsFirst ==
  /\ pc[Recovery] = "reconcile" => \A s \in Sessions : ~Live(s)
  /\ pc[Recovery] \in {"reconcile", "over"} => queue = {}
  /\ pc[Recovery] \in {"reconcile", "select", "next", "over"} => task = NoSession

OwnerInv == LiveIsNotFailed /\ RecoveryHasFailed /\ RecoveryIsFirst

LEMMA OwnerInit == Init => OwnerInv
BY SessionsAssumption
   DEF Init, OwnerInv, LiveIsNotFailed, RecoveryHasFailed, RecoveryIsFirst, Live

LEMMA OwnerCapture ==
  ASSUME PromptRecovery, TypeInv, OwnerInv,
         NEW s \in Sessions, Capture(s)
  PROVE  OwnerInv'
<1> USE SessionsAssumption
    DEF TypeInv, TypeOK, SessionInHand, OwnerInv, LiveIsNotFailed, RecoveryHasFailed,
        RecoveryIsFirst, Live, WorksOn
<1>1. CASE StartRecording(s)
  BY <1>1 DEF StartRecording
<1>2. ASSUME NEW t \in Tracks, CaptureAudio(s, t)
      PROVE  OwnerInv'
  BY <1>2 DEF CaptureAudio
<1>3. CASE StopRecording(s)
  BY <1>3 DEF StopRecording
<1>4. CASE CaptureFails(s)
  BY <1>4 DEF CaptureFails
<1> QED BY <1>1, <1>2, <1>3, <1>4 DEF Capture

LEMMA OwnerPipeline ==
  ASSUME PromptRecovery, TypeInv, OwnerInv,
         NEW s \in Sessions, Pipeline(s)
  PROVE  OwnerInv'
<1> USE SessionsAssumption
    DEF TypeInv, TypeOK, SessionInHand, OwnerInv, LiveIsNotFailed, RecoveryHasFailed,
        RecoveryIsFirst, Live, WorksOn
<1>1. CASE CreateRow(s)
  BY <1>1 DEF CreateRow
<1>2. CASE BeginRegistered(s)
  BY <1>2 DEF BeginRegistered
<1>3. CASE BeginUnregistered(s)
  BY <1>3 DEF BeginUnregistered
<1>4. CASE SetRecording(s)
  BY <1>4 DEF SetRecording
<1>5. CASE WritePartial(s)
  BY <1>5 DEF WritePartial
<1>6. CASE RenameSegment(s)
  BY <1>6 DEF RenameSegment
<1>7. CASE RegisterSegment(s)
  BY <1>7 DEF RegisterSegment
<1>8. CASE CommitFails(s)
  BY <1>8 DEF CommitFails
<1>9. CASE StartUpload(s)
  BY <1>9 DEF StartUpload
<1>10. CASE FinishTracks(s)
  BY <1>10 DEF FinishTracks
<1>11. CASE LateRegistered(s)
  BY <1>11 DEF LateRegistered
<1>12. CASE LateUnregistered(s)
  BY <1>12 DEF LateUnregistered
<1>13. CASE SetStopping(s)
  BY <1>13 DEF SetStopping
<1>14. CASE SetFinalizing(s)
  BY <1>14 DEF SetFinalizing
<1> QED BY <1>1, <1>2, <1>3, <1>4, <1>5, <1>6, <1>7, <1>8, <1>9, <1>10, <1>11,
           <1>12, <1>13, <1>14 DEF Pipeline

LEMMA OwnerTail ==
  ASSUME PromptRecovery, TypeInv, OwnerInv,
         NEW w \in Workers, NEW s \in Sessions, FinalizeAndUpload(w, s)
  PROVE  OwnerInv'
<1> USE SessionsAssumption
    DEF TypeInv, TypeOK, SessionInHand, OwnerInv, LiveIsNotFailed, RecoveryHasFailed,
        RecoveryIsFirst, Live, WorksOn
<1>1. CASE BeginPass(w, s)
  BY <1>1 DEF BeginPass, CountPass, PendingUploads
<1>2. CASE DrainUpload(w, s)
  BY <1>2 DEF DrainUpload
<1>3. CASE UploadAccepted(w, s)
  BY <1>3 DEF UploadAccepted, EndCall, HasReceipt
<1>4. CASE UploadFails(w, s)
  BY <1>4 DEF UploadFails, EndCall
<1>5. CASE EndPass(w, s)
  BY <1>5 DEF EndPass
<1>6. CASE SendFinalize(w, s)
  BY <1>6 DEF SendFinalize
<1>7. CASE FinalizeAccepted(w, s)
  BY <1>7 DEF FinalizeAccepted, LeaveTail
<1>8. CASE FinalizeFails(w, s)
  BY <1>8 DEF FinalizeFails, LeaveTail
<1> QED BY <1>1, <1>2, <1>3, <1>4, <1>5, <1>6, <1>7, <1>8 DEF FinalizeAndUpload

LEMMA OwnerRecover ==
  ASSUME PromptRecovery, TypeInv, OwnerInv,
         Recover
  PROVE  OwnerInv'
<1> USE SessionsAssumption
    DEF TypeInv, TypeOK, SessionInHand, OwnerInv, LiveIsNotFailed, RecoveryHasFailed,
        RecoveryIsFirst, Live, WorksOn
<1>1. CASE Reconcile
  BY <1>1 DEF Reconcile, NonTerminal, CaptureStates
<1>2. CASE SelectUnregistered
  BY <1>2 DEF SelectUnregistered, MissingRegistration
<1>3. ASSUME NEW s \in Sessions, TakeSession(s)
      PROVE  OwnerInv'
  BY <1>3 DEF TakeSession
<1>4. CASE FinishRecovery
  BY <1>4 DEF FinishRecovery
<1>5. CASE ScanSelf
  BY <1>5 DEF ScanSelf, Scan, Orphan
<1>6. CASE ScanRemote
  BY <1>6 DEF ScanRemote, Scan, Orphan
<1>7. CASE LookupRemote
  BY <1>7 DEF LookupRemote
<1>8. CASE RecoveryRegistered
  BY <1>8 DEF RecoveryRegistered
<1>9. CASE RecoveryUnregistered
  BY <1>9 DEF RecoveryUnregistered
<1> QED BY <1>1, <1>2, <1>3, <1>4, <1>5, <1>6, <1>7, <1>8, <1>9 DEF Recover

LEMMA OwnerEnvironment ==
  ASSUME PromptRecovery, TypeInv, OwnerInv,
         (\E s \in Sessions : Api(s)) \/ Crash \/ Restart \/ UNCHANGED vars
  PROVE  OwnerInv'
<1> USE SessionsAssumption
    DEF TypeInv, TypeOK, SessionInHand, OwnerInv, LiveIsNotFailed, RecoveryHasFailed,
        RecoveryIsFirst, Live, WorksOn
<1>1. ASSUME NEW s \in Sessions, ServerStores(s)
      PROVE  OwnerInv'
  BY <1>1 DEF ServerStores
<1>2. ASSUME NEW s \in Sessions, ServerFinalizes(s)
      PROVE  OwnerInv'
  BY <1>2 DEF ServerFinalizes
<1>3. CASE Crash
  BY <1>3 DEF Crash, NewProcess
<1>4. CASE Restart
  BY <1>4 DEF Restart, NewProcess
<1>5. CASE UNCHANGED vars
  BY <1>5 DEF vars
<1> QED BY <1>1, <1>2, <1>3, <1>4, <1>5 DEF Api

LEMMA OwnerStep ==
  PromptRecovery /\ TypeInv /\ OwnerInv /\ [Next]_vars => OwnerInv'
BY OwnerCapture, OwnerPipeline, OwnerTail, OwnerRecover, OwnerEnvironment DEF Next

\* If every start reconciles before the user can record, recovery and a pipeline
\* never act on the same session, whichever sessions recovery still has to take.
THEOREM OneWorker == PromptRecovery => (Spec => []OneWorkerPerSession)
<1> SUFFICES ASSUME PromptRecovery
             PROVE  Spec => []OneWorkerPerSession
  OBVIOUS
<1>1. OwnerInv => OneWorkerPerSession
  BY DEF OwnerInv, LiveIsNotFailed, RecoveryHasFailed, OneWorkerPerSession
<1>2. TypeInv /\ OwnerInv /\ [Next]_vars => TypeInv' /\ OwnerInv'
  BY TypeStep, OwnerStep
<1> QED BY TypeInit, OwnerInit, <1>1, <1>2, PTL DEF Spec

-----------------------------------------------------------------------------
(* What a step can change of the ledger's rows, the API's segments, the        *)
(* finalized sessions and the finalize calls under way.                        *)

\* Only a commit and a scan add rows.
LEMMA RowsChange ==
  ASSUME TypeInv, ReceiptInv, [Next]_vars, NEW r \in Sessions
  PROVE  \/ Registered(r)' = Registered(r)
         \/ RegisterSegment(r)
         \/ task = r /\ (ScanSelf \/ ScanRemote)
<1> USE SessionsAssumption
    DEF TypeInv, TypeOK, SegmentInHand, ReceiptInv, UploadsHaveRows, WorksOn, Registered
<1>1. ASSUME NEW s \in Sessions, Capture(s)
      PROVE  uploadStatus' = uploadStatus
  BY <1>1 DEF Capture, StartRecording, CaptureAudio, StopRecording, CaptureFails
<1>2. ASSUME NEW s \in Sessions, RegisterSegment(s), s # r
      PROVE  uploadStatus'[r] = uploadStatus[r]
  BY <1>2 DEF RegisterSegment
<1>3. ASSUME NEW s \in Sessions, StartUpload(s)
      PROVE  Registered(r)' = Registered(r)
  BY <1>3 DEF StartUpload
<1>4. ASSUME NEW s \in Sessions, Pipeline(s), ~RegisterSegment(s), ~StartUpload(s)
      PROVE  uploadStatus' = uploadStatus
  BY <1>4 DEF Pipeline, CreateRow, BeginRegistered, BeginUnregistered, SetRecording,
       WritePartial, RenameSegment, CommitFails, FinishTracks, LateRegistered,
       LateUnregistered, SetStopping, SetFinalizing
<1>5. ASSUME NEW w \in Workers, NEW s \in Sessions, FinalizeAndUpload(w, s)
      PROVE  Registered(r)' = Registered(r)
  <2>1. CASE DrainUpload(w, s)
    BY <2>1 DEF DrainUpload
  <2>2. CASE UploadAccepted(w, s)
    BY <2>2 DEF UploadAccepted
  <2>3. CASE UploadFails(w, s)
    <3>1. PICK status \in {"retryable", "permanent"} :
            uploadStatus' = [uploadStatus EXCEPT ![s][current[w]] = status]
      BY <2>3 DEF UploadFails
    <3>2. uploadStatus[s][current[w]] # "none"
      BY <2>3 DEF UploadFails
    <3> QED BY <3>1, <3>2
  <2> QED BY <1>5, <2>1, <2>2, <2>3
          DEF FinalizeAndUpload, BeginPass, EndPass, SendFinalize, FinalizeAccepted,
              FinalizeFails
<1>6. CASE Recover
  <2>1. ASSUME ScanSelf \/ ScanRemote, task # r
        PROVE  uploadStatus'[r] = uploadStatus[r]
    BY <2>1 DEF ScanSelf, ScanRemote, Scan
  <2> QED BY <1>6, <2>1
          DEF Recover, Reconcile, SelectUnregistered, TakeSession, FinishRecovery,
              LookupRemote, RecoveryRegistered, RecoveryUnregistered
<1>7. CASE (\E s \in Sessions : Api(s)) \/ Crash \/ Restart \/ UNCHANGED vars
  BY <1>7 DEF Api, ServerStores, ServerFinalizes, Crash, Restart, NewProcess, vars
<1> QED BY <1>1, <1>2, <1>3, <1>4, <1>5, <1>6, <1>7 DEF Next

\* Only who works on a session changes the uploads of its segments.
LEMMA UploadsOfWorker ==
  ASSUME TypeInv, [Next]_vars, NEW r \in Sessions, ~Live(r), task # r
  PROVE  uploadStatus'[r] = uploadStatus[r]
<1> USE SessionsAssumption DEF TypeInv, TypeOK, Live, WorksOn
<1>1. ASSUME NEW s \in Sessions, Capture(s)
      PROVE  uploadStatus' = uploadStatus
  BY <1>1 DEF Capture, StartRecording, CaptureAudio, StopRecording, CaptureFails
<1>2. ASSUME NEW s \in Sessions, Pipeline(s)
      PROVE  uploadStatus'[r] = uploadStatus[r]
  BY <1>2 DEF Pipeline, CreateRow, BeginRegistered, BeginUnregistered, SetRecording,
       WritePartial, RenameSegment, RegisterSegment, CommitFails, StartUpload,
       FinishTracks, LateRegistered, LateUnregistered, SetStopping, SetFinalizing
<1>3. ASSUME NEW w \in Workers, NEW s \in Sessions, FinalizeAndUpload(w, s)
      PROVE  uploadStatus'[r] = uploadStatus[r]
  BY <1>3 DEF FinalizeAndUpload, BeginPass, DrainUpload, UploadAccepted, UploadFails,
       EndPass, SendFinalize, FinalizeAccepted, FinalizeFails
<1>4. CASE Recover
  BY <1>4 DEF Recover, Reconcile, SelectUnregistered, TakeSession, FinishRecovery,
       ScanSelf, ScanRemote, Scan, LookupRemote, RecoveryRegistered,
       RecoveryUnregistered
<1>5. CASE (\E s \in Sessions : Api(s)) \/ Crash \/ Restart \/ UNCHANGED vars
  BY <1>5 DEF Api, ServerStores, ServerFinalizes, Crash, Restart, NewProcess, vars
<1> QED BY <1>1, <1>2, <1>3, <1>4, <1>5 DEF Next

\* A segment enters the API in one way.
LEMMA ReceivedChanges ==
  ASSUME [Next]_vars
  PROVE  received' = received \/ \E s \in Sessions : ServerStores(s)
<1>1. ASSUME NEW s \in Sessions, Capture(s) \/ Pipeline(s)
      PROVE  received' = received
  BY <1>1 DEF Capture, StartRecording, CaptureAudio, StopRecording, CaptureFails,
       Pipeline, CreateRow, BeginRegistered, BeginUnregistered, SetRecording,
       WritePartial, RenameSegment, RegisterSegment, CommitFails, StartUpload,
       FinishTracks, LateRegistered, LateUnregistered, SetStopping, SetFinalizing
<1>2. ASSUME NEW w \in Workers, NEW s \in Sessions, FinalizeAndUpload(w, s)
      PROVE  received' = received
  BY <1>2 DEF FinalizeAndUpload, BeginPass, DrainUpload, UploadAccepted, UploadFails,
       EndPass, SendFinalize, FinalizeAccepted, FinalizeFails
<1>3. ASSUME Recover
      PROVE  received' = received
  BY <1>3 DEF Recover, Reconcile, SelectUnregistered, TakeSession, FinishRecovery,
       ScanSelf, ScanRemote, Scan, LookupRemote, RecoveryRegistered,
       RecoveryUnregistered
<1>4. CASE Crash \/ Restart \/ UNCHANGED vars
  BY <1>4 DEF Crash, Restart, NewProcess, vars
<1> QED BY <1>1, <1>2, <1>3, <1>4 DEF Next, Api, ServerFinalizes

\* The ledger calls a session Finalized when the API accepted it, and never
\* takes that back.
LEMMA FinalizedChanges ==
  ASSUME PromptRecovery, TypeInv, OwnerInv, [Next]_vars, NEW r \in Sessions
  PROVE  \/ captureState'[r] = "finalized" <=> captureState[r] = "finalized"
         \/ \E w \in Workers : FinalizeAccepted(w, r)
<1> USE SessionsAssumption
    DEF TypeInv, TypeOK, OwnerInv, LiveIsNotFailed, RecoveryHasFailed, Live, WorksOn
<1>1. ASSUME NEW s \in Sessions, Capture(s)
      PROVE  captureState' = captureState
  BY <1>1 DEF Capture, StartRecording, CaptureAudio, StopRecording, CaptureFails
<1>2. ASSUME NEW s \in Sessions, Pipeline(s)
      PROVE  captureState'[r] = "finalized" <=> captureState[r] = "finalized"
  <2>1. CASE CreateRow(s)
    BY <2>1 DEF CreateRow
  <2>2. CASE SetRecording(s)
    BY <2>2 DEF SetRecording
  <2>3. CASE LateUnregistered(s)
    BY <2>3 DEF LateUnregistered
  <2>4. CASE SetStopping(s)
    BY <2>4 DEF SetStopping
  <2>5. CASE SetFinalizing(s)
    BY <2>5 DEF SetFinalizing
  <2> QED BY <1>2, <2>1, <2>2, <2>3, <2>4, <2>5
          DEF Pipeline, BeginRegistered, BeginUnregistered, WritePartial, RenameSegment,
              RegisterSegment, CommitFails, StartUpload, FinishTracks, LateRegistered
<1>3. ASSUME NEW w \in Workers, NEW s \in Sessions, FinalizeAndUpload(w, s),
             ~FinalizeAccepted(w, s)
      PROVE  captureState' = captureState
  BY <1>3 DEF FinalizeAndUpload, BeginPass, DrainUpload, UploadAccepted, UploadFails,
       EndPass, SendFinalize, FinalizeFails
<1>4. ASSUME NEW w \in Workers, NEW s \in Sessions, FinalizeAccepted(w, s), s # r
      PROVE  captureState'[r] = captureState[r]
  BY <1>4 DEF FinalizeAccepted
<1>5. CASE Recover
  BY <1>5 DEF Recover, Reconcile, NonTerminal, SelectUnregistered, TakeSession,
       FinishRecovery, ScanSelf, ScanRemote, Scan, LookupRemote, RecoveryRegistered,
       RecoveryUnregistered
<1>6. CASE (\E s \in Sessions : Api(s)) \/ Crash \/ Restart \/ UNCHANGED vars
  BY <1>6 DEF Api, ServerStores, ServerFinalizes, Crash, Restart, NewProcess, vars
<1> QED BY <1>1, <1>2, <1>3, <1>4, <1>5, <1>6 DEF Next

\* The API never reopens a session.
LEMMA ServerFinalizedGrows ==
  ASSUME [Next]_vars
  PROVE  srvFinalized \subseteq srvFinalized'
<1>1. ASSUME NEW s \in Sessions, Capture(s) \/ Pipeline(s)
      PROVE  srvFinalized' = srvFinalized
  BY <1>1 DEF Capture, StartRecording, CaptureAudio, StopRecording, CaptureFails,
       Pipeline, CreateRow, BeginRegistered, BeginUnregistered, SetRecording,
       WritePartial, RenameSegment, RegisterSegment, CommitFails, StartUpload,
       FinishTracks, LateRegistered, LateUnregistered, SetStopping, SetFinalizing
<1>2. ASSUME NEW w \in Workers, NEW s \in Sessions, FinalizeAndUpload(w, s)
      PROVE  srvFinalized \subseteq srvFinalized'
  BY <1>2 DEF FinalizeAndUpload, BeginPass, DrainUpload, UploadAccepted, UploadFails,
       EndPass, SendFinalize, FinalizeAccepted, FinalizeFails
<1>3. ASSUME Recover
      PROVE  srvFinalized' = srvFinalized
  BY <1>3 DEF Recover, Reconcile, SelectUnregistered, TakeSession, FinishRecovery,
       ScanSelf, ScanRemote, Scan, LookupRemote, RecoveryRegistered,
       RecoveryUnregistered
<1>4. CASE (\E s \in Sessions : Api(s)) \/ Crash \/ Restart \/ UNCHANGED vars
  BY <1>4 DEF Api, ServerStores, ServerFinalizes, Crash, Restart, NewProcess, vars
<1> QED BY <1>1, <1>2, <1>3, <1>4 DEF Next

\* A finalize call under way was sent by its worker, with the count it had then.
LEMMA CallChanges ==
  ASSUME TypeInv, OwnerInv, [Next]_vars, NEW w \in Workers, NEW r \in Sessions,
         WorksOn(w, r)', pc'[w] = "finalize_call"
  PROVE  \/ SendFinalize(w, r)
         \/ /\ pc[w] = "finalize_call" /\ WorksOn(w, r)
            /\ expected'[w] = expected[w]
<1> USE SessionsAssumption DEF TypeInv, TypeOK, WorksOn
<1>1. ASSUME NEW s \in Sessions, Capture(s)
      PROVE  pc[w] = "finalize_call" /\ WorksOn(w, r) /\ expected'[w] = expected[w]
  BY <1>1 DEF Capture, StartRecording, CaptureAudio, StopRecording, CaptureFails
<1>2. ASSUME NEW s \in Sessions, Pipeline(s)
      PROVE  pc[w] = "finalize_call" /\ WorksOn(w, r) /\ expected'[w] = expected[w]
  BY <1>2 DEF Pipeline, CreateRow, BeginRegistered, BeginUnregistered, SetRecording,
       WritePartial, RenameSegment, RegisterSegment, CommitFails, StartUpload,
       FinishTracks, LateRegistered, LateUnregistered, SetStopping, SetFinalizing
<1>3. ASSUME NEW v \in Workers, NEW s \in Sessions, FinalizeAndUpload(v, s)
      PROVE  \/ SendFinalize(w, r)
             \/ /\ pc[w] = "finalize_call" /\ WorksOn(w, r)
                /\ expected'[w] = expected[w]
  <2>1. CASE SendFinalize(v, s)
    BY <2>1 DEF SendFinalize
  <2>2. CASE FinalizeAccepted(v, s) \/ FinalizeFails(v, s)
    BY <2>2 DEF FinalizeAccepted, FinalizeFails, LeaveTail
  <2> QED BY <1>3, <2>1, <2>2
          DEF FinalizeAndUpload, BeginPass, DrainUpload, UploadAccepted, UploadFails,
              EndCall, EndPass
<1>4. CASE Recover
  BY <1>4 DEF Recover, Reconcile, SelectUnregistered, TakeSession, FinishRecovery,
       ScanSelf, ScanRemote, Scan, LookupRemote, RecoveryRegistered,
       RecoveryUnregistered
<1>5. CASE (\E s \in Sessions : Api(s)) \/ Crash \/ Restart \/ UNCHANGED vars
  BY <1>5 DEF Api, ServerStores, ServerFinalizes, Crash, Restart, NewProcess, vars
<1> QED BY <1>1, <1>2, <1>3, <1>4, <1>5 DEF Next

-----------------------------------------------------------------------------
(* Completeness of a finalized session.  The API compares counts only; they    *)
(* agree on the segments because everything it holds has a row, and because no *)
(* row is added between the count and the answer.                              *)

CountIsCurrent ==
  \A w \in Workers, s \in Sessions :
    WorksOn(w, s) /\ pc[w] = "finalize_call" => expected[w] = SegmentCount(s)

CloseInv == FinalizedIsComplete /\ CountIsCurrent

\* The API holds nothing the ledger does not list.
LEMMA ReceivedHasRows ==
  TypeInv /\ ReceiptInv => \A s \in Sessions : received[s] \subseteq Registered(s)
BY DEF TypeInv, TypeOK, ReceiptInv, ReceiptChain, Registered

\* As many segments on the API as rows in the ledger means the same segments.
LEMMA EnoughIsAll ==
  ASSUME TypeInv, ReceiptInv, NEW s \in Sessions,
         Cardinality(received[s]) >= SegmentCount(s)
  PROVE  received[s] = Registered(s)
<1>1. received[s] \subseteq Registered(s)
  BY ReceivedHasRows
<1>2. IsFiniteSet(Registered(s))
  BY SegmentsFinite, FS_Subset DEF Registered
<1>3. /\ IsFiniteSet(received[s])
      /\ Cardinality(received[s]) <= Cardinality(Registered(s))
      /\ Cardinality(received[s]) = Cardinality(Registered(s)) =>
           received[s] = Registered(s)
  BY <1>1, <1>2, FS_Subset
<1>4. Cardinality(received[s]) \in Nat /\ Cardinality(Registered(s)) \in Nat
  BY <1>2, <1>3, FS_CardinalityType
<1> QED BY <1>3, <1>4 DEF SegmentCount

\* Nobody adds a row to a session that is finalized, or whose count was sent.
LEMMA RowsAreFixed ==
  ASSUME PromptRecovery, TypeInv, ReceiptInv, OwnerInv, [Next]_vars, NEW s \in Sessions,
         \/ captureState[s] = "finalized"
         \/ \E w \in Workers : WorksOn(w, s) /\ pc[w] = "finalize_call"
  PROVE  Registered(s)' = Registered(s)
<1> USE SessionsAssumption
    DEF TypeInv, TypeOK, OwnerInv, LiveIsNotFailed, RecoveryHasFailed, Live, WorksOn
<1>1. ~RegisterSegment(s)
  BY DEF RegisterSegment
<1>2. ~(task = s /\ (ScanSelf \/ ScanRemote))
  BY DEF ScanSelf, ScanRemote, Scan
<1> QED BY <1>1, <1>2, RowsChange

LEMMA CloseInit == Init => CloseInv
BY SessionsAssumption
   DEF Init, CloseInv, FinalizedIsComplete, CountIsCurrent, WorksOn

LEMMA CloseStep ==
  ASSUME PromptRecovery, TypeInv, ReceiptInv, OwnerInv, CloseInv, [Next]_vars
  PROVE  CloseInv'
<1>1. ASSUME NEW s \in Sessions, captureState[s] = "finalized"
      PROVE  /\ s \in srvFinalized'
             /\ received'[s] = Registered(s)'
  <2>1. s \in srvFinalized /\ received[s] = Registered(s)
    BY <1>1 DEF CloseInv, FinalizedIsComplete
  <2>2. received'[s] = received[s]
    <3>1. ASSUME NEW r \in Sessions, ServerStores(r)
          PROVE  received'[s] = received[s]
      BY <2>1, <3>1
         DEF ServerStores, TypeInv, TypeOK, ReceiptInv, ReceiptChain, Registered
    <3> QED BY <3>1, ReceivedChanges
  <2>3. Registered(s)' = Registered(s)
    BY <1>1, RowsAreFixed
  <2> QED BY <2>1, <2>2, <2>3, ServerFinalizedGrows
<1>2. ASSUME NEW s \in Sessions, NEW w \in Workers, FinalizeAccepted(w, s)
      PROVE  /\ s \in srvFinalized'
             /\ received'[s] = Registered(s)'
  <2>1. WorksOn(w, s) /\ pc[w] = "finalize_call"
    BY <1>2 DEF FinalizeAccepted
  <2>2. expected[w] = SegmentCount(s)
    BY <2>1 DEF CloseInv, CountIsCurrent
  <2>3. received[s] = Registered(s)
    BY <1>2, <2>2, EnoughIsAll DEF FinalizeAccepted
  <2>4. Registered(s)' = Registered(s)
    BY <2>1, RowsAreFixed
  <2> QED BY <1>2, <2>3, <2>4 DEF FinalizeAccepted
<1>3. FinalizedIsComplete'
  BY <1>1, <1>2, FinalizedChanges DEF FinalizedIsComplete
<1>4. ASSUME NEW w \in Workers, NEW s \in Sessions,
             WorksOn(w, s)', pc'[w] = "finalize_call"
      PROVE  expected'[w] = SegmentCount(s)'
  <2>1. CASE SendFinalize(w, s)
    <3>1. expected'[w] = SegmentCount(s)
      BY <2>1 DEF SendFinalize, TypeInv, TypeOK
    <3>2. Registered(s)' = Registered(s)
      BY <2>1 DEF SendFinalize, Registered
    <3> QED BY <3>1, <3>2 DEF SegmentCount
  <2>2. CASE /\ pc[w] = "finalize_call" /\ WorksOn(w, s)
             /\ expected'[w] = expected[w]
    <3>1. expected[w] = SegmentCount(s)
      BY <2>2 DEF CloseInv, CountIsCurrent
    <3>2. Registered(s)' = Registered(s)
      BY <2>2, RowsAreFixed
    <3> QED BY <2>2, <3>1, <3>2 DEF SegmentCount
  <2> QED BY <1>4, <2>1, <2>2, CallChanges
<1>5. CountIsCurrent'
  BY <1>4 DEF CountIsCurrent
<1> QED BY <1>3, <1>5 DEF CloseInv

\* All that the steps below rely on.
SafetyInv == TypeInv /\ ReceiptInv /\ OwnerInv /\ CloseInv

LEMMA SafetyInit == Init => SafetyInv
BY TypeInit, ReceiptInit, OwnerInit, CloseInit DEF SafetyInv

LEMMA SafetyStep == PromptRecovery /\ SafetyInv /\ [Next]_vars => SafetyInv'
BY TypeStep, ReceiptStep, OwnerStep, CloseStep DEF SafetyInv

\* If every start reconciles before the user can record, a session the ledger
\* calls Finalized was finalized by the API with exactly the segments of the
\* ledger, although the API is only ever told how many there are.
THEOREM Complete == PromptRecovery => (Spec => []FinalizedIsComplete)
<1> SUFFICES ASSUME PromptRecovery
             PROVE  Spec => []FinalizedIsComplete
  OBVIOUS
<1>1. SafetyInv => FinalizedIsComplete
  BY DEF SafetyInv, CloseInv
<1>2. SafetyInv /\ [Next]_vars => SafetyInv'
  BY SafetyStep
<1> QED BY SafetyInit, <1>1, <1>2, PTL DEF Spec

-----------------------------------------------------------------------------
(* Steps of a session that may not be undone, and the promise they add up to.  *)

\* Under the assumption of OneWorker, a finalized session keeps its state and
\* its uploads: no restart, recovery or late answer touches it again.
THEOREM FinalIsFinal == PromptRecovery => (Spec => FinalizedStays)
<1> SUFFICES ASSUME PromptRecovery
             PROVE  Spec => FinalizedStays
  OBVIOUS
<1>1. ASSUME SafetyInv, [Next]_vars, NEW s \in Sessions, captureState[s] = "finalized"
      PROVE  captureState'[s] = "finalized" /\ uploadStatus'[s] = uploadStatus[s]
  <2>1. captureState'[s] = "finalized"
    BY <1>1, FinalizedChanges DEF SafetyInv, FinalizeAccepted, TypeInv, TypeOK
  <2>2. ~Live(s) /\ task # s
    BY <1>1 DEF SafetyInv, OwnerInv, LiveIsNotFailed, RecoveryHasFailed
  <2>3. uploadStatus'[s] = uploadStatus[s]
    BY <1>1, <2>2, UploadsOfWorker DEF SafetyInv
  <2> QED BY <2>1, <2>3
<1>2. SafetyInv /\ [Next]_vars =>
        [\A s \in Sessions : captureState[s] = "finalized" =>
           /\ captureState'[s] = "finalized"
           /\ uploadStatus'[s] = uploadStatus[s]]_vars
  BY <1>1
<1>3. SafetyInv /\ [Next]_vars => SafetyInv'
  BY SafetyStep
<1> QED BY SafetyInit, <1>2, <1>3, PTL DEF Spec, FinalizedStays

-----------------------------------------------------------------------------
(* SessionLifecycle implements SessionDelivery.                               *)

LedgerView == [s \in Sessions |-> Registered(s)]
ClosedView == {s \in Sessions : captureState[s] = "finalized"}

LEMMA DeliveryInit == Init => Delivery!Init
BY DEF Init, Delivery!Init, Registered

\* A commit or a scan is a Commit: it adds rows to one session, and changes
\* nothing else that SessionDelivery sees.
LEMMA CommitMaps ==
  ASSUME SafetyInv, [Next]_vars, NEW r \in Sessions, captureState[r] # "finalized",
         UNCHANGED <<received, captureState>>,
         \A s \in Sessions \ {r} : Registered(s)' = Registered(s),
         Registered(r) \subseteq Registered(r)'
  PROVE  Delivery!Commit(r)
<1>1. r \notin ClosedView
  BY DEF ClosedView
<1>2. ClosedView' = ClosedView
  BY DEF ClosedView
<1>3. LedgerView' = [LedgerView EXCEPT ![r] = @ \union Registered(r)']
  BY DEF LedgerView
<1>4. Registered(r)' \in SUBSET Segments
  BY DEF Registered
<1> QED BY <1>1, <1>2, <1>3, <1>4 DEF Delivery!Commit, LedgerView, ClosedView

\* Both add rows to their session and take none away.
LEMMA RowsGrow ==
  ASSUME TypeInv, NEW r \in Sessions,
         RegisterSegment(r) \/ (task = r /\ (ScanSelf \/ ScanRemote))
  PROVE  /\ UNCHANGED <<received, captureState>>
         /\ \A s \in Sessions \ {r} : Registered(s)' = Registered(s)
         /\ Registered(r) \subseteq Registered(r)'
<1> USE SessionsAssumption DEF TypeInv, TypeOK, Registered
<1>1. CASE RegisterSegment(r)
  BY <1>1 DEF RegisterSegment
<1>2. CASE task = r /\ ScanSelf
  BY <1>2 DEF ScanSelf, Scan, Orphan
<1>3. CASE task = r /\ ScanRemote
  BY <1>3 DEF ScanRemote, Scan, Orphan
<1> QED BY <1>1, <1>2, <1>3

\* The step that first stores a segment on the API is a Deliver.
LEMMA StoreMaps ==
  ASSUME SafetyInv, NEW r \in Sessions, ServerStores(r)
  PROVE  Delivery!Deliver(r)
<1> USE DEF SafetyInv, TypeInv, TypeOK
<1>1. PICK g \in sent[r] \ received[r] :
        received' = [received EXCEPT ![r] = @ \union {g}]
  BY DEF ServerStores
<1>2. g \in Registered(r)
  BY <1>1 DEF ReceiptInv, ReceiptChain, Registered
<1>3. captureState[r] # "finalized"
  BY <1>1, <1>2 DEF CloseInv, FinalizedIsComplete
<1>4. LedgerView' = LedgerView /\ ClosedView' = ClosedView
  BY DEF ServerStores, LedgerView, ClosedView, Registered
<1> QED BY <1>1, <1>2, <1>3, <1>4 DEF Delivery!Deliver, LedgerView, ClosedView

\* An accepted finalize call is a Close.
LEMMA FinalizeMaps ==
  ASSUME SafetyInv, NEW w \in Workers, NEW r \in Sessions, FinalizeAccepted(w, r)
  PROVE  Delivery!Close(r)
<1> USE DEF SafetyInv, TypeInv, TypeOK
<1>1. expected[w] = SegmentCount(r)
  BY DEF FinalizeAccepted, CloseInv, CountIsCurrent
<1>2. received[r] = Registered(r)
  BY <1>1, EnoughIsAll DEF FinalizeAccepted
<1>3. LedgerView' = LedgerView /\ received' = received
  BY DEF FinalizeAccepted, LedgerView, Registered
<1>4. ClosedView' = ClosedView \union {r}
  BY DEF FinalizeAccepted, ClosedView
<1> QED BY <1>2, <1>3, <1>4 DEF Delivery!Close, LedgerView, ClosedView

LEMMA DeliveryStep ==
  ASSUME PromptRecovery, SafetyInv, [Next]_vars
  PROVE  [Delivery!Next]_(Delivery!vars)
<1>1. ASSUME NEW r \in Sessions,
             RegisterSegment(r) \/ (task = r /\ (ScanSelf \/ ScanRemote))
      PROVE  Delivery!Commit(r)
  <2>1. captureState[r] # "finalized"
    BY <1>1 DEF SafetyInv, OwnerInv, LiveIsNotFailed, RecoveryHasFailed, Live,
                RegisterSegment
  <2> QED BY <1>1, <2>1, RowsGrow, CommitMaps DEF SafetyInv
<1>2. CASE \E r \in Sessions : ServerStores(r)
  BY <1>2, StoreMaps DEF Delivery!Next
<1>3. CASE \E w \in Workers, r \in Sessions : FinalizeAccepted(w, r)
  BY <1>3, FinalizeMaps DEF Delivery!Next
<1>4. CASE /\ ~\E r \in Sessions :
                RegisterSegment(r) \/ (task = r /\ (ScanSelf \/ ScanRemote))
           /\ ~\E r \in Sessions : ServerStores(r)
           /\ ~\E w \in Workers, r \in Sessions : FinalizeAccepted(w, r)
  <2>1. LedgerView' = LedgerView
    BY <1>4, RowsChange DEF SafetyInv, LedgerView
  <2>2. received' = received
    BY <1>4, ReceivedChanges
  <2>3. ClosedView' = ClosedView
    BY <1>4, FinalizedChanges DEF SafetyInv, ClosedView
  <2> QED BY <2>1, <2>2, <2>3 DEF Delivery!vars, LedgerView, ClosedView
<1> QED BY <1>1, <1>2, <1>3, <1>4 DEF Delivery!Next

\* If every start reconciles before the user can record, the recorder keeps the
\* promise of SessionDelivery: what is committed stays in the ledger, the API
\* holds nothing else, and a session is closed only when the API holds it all.
THEOREM Implements == PromptRecovery => (Spec => DeliverySpec)
<1> SUFFICES ASSUME PromptRecovery
             PROVE  Spec => DeliverySpec
  OBVIOUS
<1>1. SafetyInv /\ [Next]_vars => SafetyInv'
  BY SafetyStep
<1>2. SafetyInv /\ [Next]_vars => [Delivery!Next]_(Delivery!vars)
  BY DeliveryStep
<1> QED BY SafetyInit, DeliveryInit, <1>1, <1>2, PTL
        DEF Spec, DeliverySpec, Delivery!Spec

-----------------------------------------------------------------------------
(* Committed files without a row.  They can be told apart only before their    *)
(* session is finalized: a pipeline has at most the one it is registering, and *)
(* recovery none once it has scanned a track to its end.                       *)

PastScans == {"lookup", "register", "pass", "drain", "drain_call", "finalize", "finalize_call"}

OrphansFound ==
  \A s \in Sessions : \A g \in Segments : Orphan(s, g) =>
    /\ captureState[s] # "finalized"
    /\ pc[s] # "over" => pc[s] = "insert" /\ current[s] = g
    /\ task = s => /\ pc[Recovery] \notin PastScans
                   /\ pc[Recovery] = "scan_remote" => g[1] # "self"

LEMMA FilesOfScan ==
  ASSUME NEW label, NEW t, NEW after, Scan(label, t, after)
  PROVE  \E seen \in SUBSET Segments :
           files' = [files EXCEPT ![task] = [g \in Segments |->
             IF g \in seen /\ Unfinished(task, g) THEN "none" ELSE files[task][g]]]
<1>1. PICK seen \in SUBSET {g \in Segments : g[1] = t /\ files[task][g] # "none"} :
        files' = [files EXCEPT ![task] = [g \in Segments |->
          IF g \in seen /\ Unfinished(task, g) THEN "none" ELSE files[task][g]]]
  BY DEF Scan
<1> QED BY <1>1

\* Only a rename makes a file that has no row.
LEMMA OrphansOfRename ==
  ASSUME TypeInv, ReceiptInv, [Next]_vars, NEW r \in Sessions, NEW g \in Segments, Orphan(r, g)'
  PROVE  Orphan(r, g) \/ (RenameSegment(r) /\ current[r] = g)
<1> USE SessionsAssumption DEF TypeInv, TypeOK, SessionInHand
<1>1. files'[r][g] = "opus" /\ uploadStatus'[r][g] = "none"
  BY DEF Orphan
<1>2. uploadStatus[r][g] = "none"
  <2>1. g \notin Registered(r)'
    BY <1>1 DEF Registered
  <2>2. Registered(r) \subseteq Registered(r)'
    <3>1. Registered(r)' = Registered(r) \/ Registered(r) \subseteq Registered(r)'
      BY RowsChange, RowsGrow
    <3> QED BY <3>1
  <2> QED BY <2>1, <2>2 DEF Registered
<1>3. files[r][g] = "opus" \/ (RenameSegment(r) /\ current[r] = g)
  <2>1. ASSUME NEW s \in Sessions, Capture(s)
        PROVE  files' = files
    BY <2>1 DEF Capture, StartRecording, CaptureAudio, StopRecording, CaptureFails
  <2>2. ASSUME NEW s \in Sessions, WritePartial(s)
        PROVE  files[r][g] = "opus"
    BY <1>1, <2>2 DEF WritePartial
  <2>3. ASSUME NEW s \in Sessions, RenameSegment(s)
        PROVE  files[r][g] = "opus" \/ (s = r /\ current[s] = g)
    BY <1>1, <2>3 DEF RenameSegment
  <2>4. ASSUME NEW s \in Sessions, Pipeline(s), ~WritePartial(s), ~RenameSegment(s)
        PROVE  files' = files
    BY <2>4 DEF Pipeline, CreateRow, BeginRegistered, BeginUnregistered, SetRecording,
         RegisterSegment, CommitFails, StartUpload, FinishTracks, LateRegistered,
         LateUnregistered, SetStopping, SetFinalizing
  <2>5. ASSUME NEW w \in Workers, NEW s \in Sessions, FinalizeAndUpload(w, s)
        PROVE  files' = files
    BY <2>5 DEF FinalizeAndUpload, BeginPass, DrainUpload, UploadAccepted, UploadFails,
         EndPass, SendFinalize, FinalizeAccepted, FinalizeFails
  <2>6. CASE ScanSelf \/ ScanRemote
    <3>1. task \in Sessions
      BY <2>6 DEF ScanSelf, ScanRemote, Scan, SessionInHand
    <3>2. PICK seen \in SUBSET Segments :
            files' = [files EXCEPT ![task] = [h \in Segments |->
              IF h \in seen /\ Unfinished(task, h) THEN "none" ELSE files[task][h]]]
      BY <2>6, FilesOfScan DEF ScanSelf, ScanRemote
    <3>3. files'[r][g] \in {"none", files[r][g]}
      BY <3>1, <3>2
    <3> QED BY <1>1, <3>3
  <2>7. ASSUME Recover, ~ScanSelf, ~ScanRemote
        PROVE  files' = files
    BY <2>7 DEF Recover, Reconcile, SelectUnregistered, TakeSession, FinishRecovery,
         LookupRemote, RecoveryRegistered, RecoveryUnregistered
  <2>8. CASE (\E s \in Sessions : Api(s)) \/ Crash \/ Restart \/ UNCHANGED vars
    BY <1>1, <2>8 DEF Api, ServerStores, ServerFinalizes, Crash, Restart, NewProcess, vars
  <2> QED BY <1>1, <2>1, <2>2, <2>3, <2>4, <2>5, <2>6, <2>7, <2>8 DEF Next
<1> QED BY <1>2, <1>3 DEF Orphan

\* A pipeline that has ended stays so, and one that is to register a segment
\* does that or ends.
LEMMA InsertGoesOn ==
  ASSUME TypeInv, [Next]_vars, NEW r \in Sessions, pc[r] \in {"over", "insert"}
  PROVE  \/ pc'[r] = "over"
         \/ RegisterSegment(r)
         \/ pc'[r] = pc[r] /\ current'[r] = current[r]
<1> USE SessionsAssumption DEF TypeInv, TypeOK
<1>1. ASSUME NEW s \in Sessions, Capture(s)
      PROVE  pc'[r] = pc[r] /\ current'[r] = current[r]
  BY <1>1 DEF Capture, StartRecording, CaptureAudio, StopRecording, CaptureFails
<1>2. ASSUME NEW s \in Sessions, Pipeline(s), ~RegisterSegment(s), ~CommitFails(s)
      PROVE  pc'[r] = pc[r] /\ current'[r] = current[r]
  BY <1>2 DEF Pipeline, CreateRow, BeginRegistered, BeginUnregistered, SetRecording,
       WritePartial, RenameSegment, StartUpload,
       FinishTracks, LateRegistered, LateUnregistered, SetStopping, SetFinalizing
<1>3. ASSUME NEW s \in Sessions, CommitFails(s) \/ (RegisterSegment(s) /\ s # r)
      PROVE  pc'[r] = "over" \/ (pc'[r] = pc[r] /\ current'[r] = current[r])
  BY <1>3 DEF CommitFails, RegisterSegment
<1>4. ASSUME NEW w \in Workers, NEW s \in Sessions, FinalizeAndUpload(w, s)
      PROVE  pc'[r] = pc[r] /\ current'[r] = current[r]
  BY <1>4 DEF FinalizeAndUpload, BeginPass, DrainUpload, UploadAccepted, UploadFails, EndCall,
       EndPass, SendFinalize, FinalizeAccepted, FinalizeFails
<1>5. CASE Recover
  BY <1>5 DEF Recover, Reconcile, SelectUnregistered, TakeSession, FinishRecovery,
       ScanSelf, ScanRemote, Scan, LookupRemote, RecoveryRegistered,
       RecoveryUnregistered
<1>6. CASE (\E s \in Sessions : Api(s)) \/ Crash \/ Restart \/ UNCHANGED vars
  BY <1>6 DEF Api, ServerStores, ServerFinalizes, Crash, Restart, NewProcess, vars
<1> QED BY <1>1, <1>2, <1>3, <1>4, <1>5, <1>6 DEF Next

\* The one way past the scans leads through both.
LEMMA ScansInOrder ==
  ASSUME TypeInv, [Next]_vars, NEW r \in Sessions, task' = r,
         pc'[Recovery] \in PastScans \cup {"scan_remote"}
  PROVE  /\ task = r
         /\ \/ pc[Recovery] \in PastScans /\ pc'[Recovery] \in PastScans
            \/ pc[Recovery] = "scan_remote" /\ (pc'[Recovery] = "scan_remote" \/ ScanRemote)
            \/ ScanSelf /\ pc'[Recovery] = "scan_remote"
<1> USE SessionsAssumption DEF TypeInv, TypeOK, PastScans
<1>1. ASSUME NEW s \in Sessions, Capture(s) \/ Pipeline(s)
      PROVE  pc'[Recovery] = pc[Recovery] /\ task' = task
  BY <1>1 DEF Capture, StartRecording, CaptureAudio, StopRecording, CaptureFails,
       Pipeline, CreateRow, BeginRegistered, BeginUnregistered, SetRecording,
       WritePartial, RenameSegment, RegisterSegment, CommitFails, StartUpload,
       FinishTracks, LateRegistered, LateUnregistered, SetStopping, SetFinalizing
<1>2. ASSUME NEW w \in Workers, NEW s \in Sessions, FinalizeAndUpload(w, s)
      PROVE  /\ task = r
             /\ \/ pc'[Recovery] = pc[Recovery]
                \/ pc[Recovery] \in PastScans /\ pc'[Recovery] \in PastScans
  <2>1. CASE FinalizeAccepted(w, s) \/ FinalizeFails(w, s)
    BY <2>1 DEF FinalizeAccepted, FinalizeFails
  <2>2. CASE UploadAccepted(w, s) \/ UploadFails(w, s)
    BY <2>2 DEF UploadAccepted, UploadFails, EndCall
  <2> QED BY <1>2, <2>1, <2>2
          DEF FinalizeAndUpload, BeginPass, DrainUpload, EndPass, SendFinalize
<1>3. CASE Recover
  BY <1>3 DEF Recover, Reconcile, SelectUnregistered, TakeSession, FinishRecovery,
       ScanSelf, ScanRemote, Scan, LookupRemote, RecoveryRegistered,
       RecoveryUnregistered
<1>4. CASE (\E s \in Sessions : Api(s)) \/ Crash \/ Restart \/ UNCHANGED vars
  BY <1>4 DEF Api, ServerStores, ServerFinalizes, Crash, Restart, NewProcess, vars
<1> QED BY <1>1, <1>2, <1>3, <1>4 DEF Next

\* A scan that does not fail registers every file of its track.
LEMMA ScanFindsAll ==
  ASSUME TypeInv, "scan" \notin Faults, task \in Sessions, NEW g \in Segments,
         (ScanSelf /\ g[1] = "self") \/ (ScanRemote /\ g[1] = "remote")
  PROVE  ~Orphan(task, g)'
<1> USE DEF TypeInv, TypeOK
<1>1. PICK t \in {"self", "remote"} :
        /\ g[1] = t
        /\ LET entries == {h \in Segments : h[1] = t /\ files[task][h] # "none"} IN
             /\ files' = [files EXCEPT ![task] = [h \in Segments |->
                  IF h \in entries /\ Unfinished(task, h) THEN "none" ELSE files[task][h]]]
             /\ uploadStatus' = [uploadStatus EXCEPT ![task] = [h \in Segments |->
                  IF h \in entries /\ Orphan(task, h) THEN "not_started"
                                                      ELSE uploadStatus[task][h]]]
        /\ task' = task
  BY DEF ScanSelf, ScanRemote, Scan
<1>2. CASE Orphan(task, g)
  <2>1. files[task][g] # "none"
    BY <1>2 DEF Orphan
  <2>2. uploadStatus'[task][g] = "not_started"
    BY <1>1, <1>2, <2>1
  <2> QED BY <1>1, <2>2 DEF Orphan
<1>3. CASE ~Orphan(task, g)
  BY <1>1, <1>3 DEF Orphan
<1> QED BY <1>2, <1>3

LEMMA OrphanStep ==
  ASSUME PromptRecovery, "scan" \notin Faults, SafetyInv, OrphansFound, [Next]_vars
  PROVE  OrphansFound'
<1> SUFFICES ASSUME NEW s \in Sessions, NEW g \in Segments, Orphan(s, g)'
             PROVE  /\ captureState'[s] # "finalized"
                    /\ pc'[s] # "over" => pc'[s] = "insert" /\ current'[s] = g
                    /\ task' = s => /\ pc'[Recovery] \notin PastScans
                                    /\ pc'[Recovery] = "scan_remote" => g[1] # "self"
  BY DEF OrphansFound
<1>1. CASE RenameSegment(s) /\ current[s] = g
  <2>1. Live(s) /\ captureState' = captureState /\ task' = task
    BY <1>1 DEF RenameSegment, Live
  <2>2. captureState[s] # "finalized" /\ task # s
    BY <2>1 DEF SafetyInv, OwnerInv, LiveIsNotFailed, RecoveryHasFailed
  <2>3. pc'[s] = "insert" /\ current'[s] = g
    BY <1>1, SessionsAssumption DEF RenameSegment, SafetyInv, TypeInv, TypeOK
  <2> QED BY <2>1, <2>2, <2>3
<1>2. CASE Orphan(s, g)
  <2>1. /\ captureState[s] # "finalized"
        /\ pc[s] # "over" => pc[s] = "insert" /\ current[s] = g
        /\ task = s => /\ pc[Recovery] \notin PastScans
                       /\ pc[Recovery] = "scan_remote" => g[1] # "self"
    BY <1>2 DEF OrphansFound
  <2>2. captureState'[s] # "finalized"
    <3>1. ASSUME NEW w \in Workers
          PROVE  ~FinalizeAccepted(w, s)
      BY <2>1, SessionsAssumption DEF FinalizeAccepted, WorksOn, PastScans
    <3> QED BY <2>1, <3>1, FinalizedChanges DEF SafetyInv
  <2>3. pc'[s] # "over" => pc'[s] = "insert" /\ current'[s] = g
    <3>1. RegisterSegment(s) => pc[s] = "insert" /\ uploadStatus'[s][current[s]] = "not_started"
      BY DEF RegisterSegment, SafetyInv, TypeInv, TypeOK, SegmentInHand
    <3>2. ~RegisterSegment(s)
      BY <2>1, <3>1 DEF Orphan
    <3> QED BY <2>1, <3>2, InsertGoesOn DEF SafetyInv
  <2>4. ASSUME task' = s, pc'[Recovery] \in PastScans \cup {"scan_remote"}
        PROVE  pc'[Recovery] = "scan_remote" /\ g[1] # "self"
    <3>1. g[1] \in {"self", "remote"}
      BY BoundsAssumption DEF Segments
    <3>2. task = s /\ TypeInv
      BY <2>4, ScansInOrder DEF SafetyInv
    <3>3. ~(ScanRemote /\ g[1] = "remote") /\ ~(ScanSelf /\ g[1] = "self")
      <4>1. task \in Sessions
        BY <3>2
      <4>2. Orphan(task, g)'
        <5>1. task' = task
          BY <2>4, <3>2
        <5> QED BY <2>4, <5>1 DEF Orphan
      <4> QED BY <3>2, <4>1, <4>2, ScanFindsAll
    <3>4. \/ pc[Recovery] = "scan_remote" /\ (pc'[Recovery] = "scan_remote" \/ ScanRemote)
          \/ ScanSelf /\ pc'[Recovery] = "scan_remote"
      BY <2>1, <2>4, <3>2, ScansInOrder
    <3> QED BY <2>1, <3>1, <3>2, <3>3, <3>4
  <2> QED BY <2>2, <2>3, <2>4 DEF PastScans
<1> QED BY <1>1, <1>2, OrphansOfRename DEF SafetyInv

\* If every start reconciles before the user can record and no scan fails, a
\* finalized session has a row for every committed file, so that none is left
\* behind for good.  (A scan that fails is ignored, session_lifecycle.rs:114.)
THEOREM NothingLeftBehind ==
  PromptRecovery /\ "scan" \notin Faults => (Spec => []NoFileLeftBehind)
<1> SUFFICES ASSUME PromptRecovery, "scan" \notin Faults
             PROVE  Spec => []NoFileLeftBehind
  OBVIOUS
<1>1. Init => OrphansFound
  BY DEF Init, OrphansFound, Orphan
<1>2. SafetyInv /\ OrphansFound /\ [Next]_vars => SafetyInv' /\ OrphansFound'
  BY SafetyStep, OrphanStep
<1>3. OrphansFound => NoFileLeftBehind
  BY DEF OrphansFound, NoFileLeftBehind, Orphan, Registered
<1> QED BY SafetyInit, <1>1, <1>2, <1>3, PTL DEF Spec

=============================================================================
