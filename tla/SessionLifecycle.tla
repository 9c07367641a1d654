-------------------------- MODULE SessionLifecycle --------------------------
(***************************************************************************)
(* The life of recording sessions across crashes and restarts: the capture *)
(* task, the batch pipeline that commits and uploads a finished recording, *)
(* the startup recovery, the SQLite ledger, the segment directories and    *)
(* the upload API.                                                         *)
(*                                                                         *)
(* One worker per session is its capture task and the run_pipeline it ends *)
(* in; one more worker, Recovery, is recover_incomplete_sessions, which    *)
(* every process start spawns.  Both end in finalize_and_upload, which is  *)
(* written once here for any worker w on the session s it works on.        *)
(*                                                                         *)
(* A step is what happens between two points where a crash or another      *)
(* worker can be seen: one SQLite transaction, one file-system operation,  *)
(* one answer of the API.  A response and the ledger write that follows it *)
(* are one step, because a crash between them leaves what a lost response  *)
(* leaves.  SQLite errors are not modelled.                                *)
(***************************************************************************)
EXTENDS Integers, FiniteSets

CONSTANTS
  Sessions,        \* the sessions the user may record, one fresh id each
  Recovery,        \* the startup recovery task, a worker like the pipelines
  NoSession,       \* recovery is working on no session
  NoSegment,       \* a worker is handling no segment
  Tracks,          \* the tracks of a recording
  Audible,         \* bound: the tracks of each session that hold audio
  MaxSegments,     \* bound: segments of audio one track of a session can hold
  MaxPasses,       \* max_upload_passes of run_until_drained
  MaxCrashes,      \* bound: crashes of the process
  Faults,          \* the failures that may happen besides crashes and the network
  PromptRecovery   \* recovery reconciles before the user can record

ASSUME SessionsAssumption ==
  /\ Recovery \notin Sessions
  /\ NoSession \notin Sessions
  /\ IsFiniteSet(Sessions)

ASSUME BoundsAssumption ==
  /\ Tracks \subseteq {"self", "remote"}
  /\ Audible \in [Sessions -> SUBSET Tracks]
  /\ MaxSegments \in Nat \ {0}
  /\ MaxPasses \in Nat \ {0}
  /\ MaxCrashes \in Nat

ASSUME FaultsAssumption ==
  /\ Faults \subseteq {"capture", "commit", "scan", "reject"}
  /\ PromptRecovery \in BOOLEAN

Segments == Tracks \X (0 .. MaxSegments - 1)

ASSUME NoSegmentAssumption == NoSegment \notin Segments

Workers == Sessions \union {Recovery}

CaptureStates ==
  {"none", "preparing", "recording", "stopping", "finalizing", "finalized", "failed"}
NotFailed == {"preparing", "recording", "stopping", "finalizing", "finalized"} \* mistake
NonTerminal == {"preparing", "recording", "stopping", "finalizing"}
UploadStates ==
  {"none", "not_started", "uploading", "completed", "retryable", "permanent"}

VARIABLES
  captureState,    \* ledger: sessions.capture_state_tag, "none" without a row
  remoteId,        \* ledger: sessions.remote_session_id is set
  uploadStatus,    \* ledger: upload_status.state_tag, "none" without the two rows
  files,           \* disk: what a segment's file is: none, .partial or .opus
  srvSessions,     \* API: the sessions it knows
  sent,            \* network: segments of which a request was ever sent
  received,        \* API: the segments it stored
  finalizeSent,    \* network: the segment counts of the finalize requests sent
  srvFinalized,    \* API: the sessions it finalized
  pc,              \* where each worker is
  captured,        \* memory: segments of audio that are not on disk yet
  linked,          \* memory: the pipeline's `remote` is Some
  todo,            \* memory: what is left of one pass's pending_uploads
  current,         \* memory: the segment a worker commits or uploads
  passes,          \* memory: drain passes begun
  expected,        \* memory: the segment count of the finalize call
  queue,           \* memory: the sessions recovery has still to take
  task,            \* memory: the session recovery works on
  crashes          \* how many times the process crashed

ledger  == <<captureState, remoteId, uploadStatus>>
api     == <<srvSessions, sent, received, finalizeSent, srvFinalized>>
local   == <<captured, linked, todo, current, passes, expected>>
recover == <<queue, task>>
vars == <<ledger, files, api, pc, local, recover, crashes>>

-----------------------------------------------------------------------------
(* What the ledger and the directories say. *)

Registered(s) == {g \in Segments : uploadStatus[s][g] # "none"}

\* Plausible mistakes in the definitions below; each breaks a property.
ReceiptCount(s) == Cardinality({g \in Segments : uploadStatus[s][g] = "completed"})
OnePassMore(w) == passes[w] > MaxPasses
Uncounted(w) == UNCHANGED passes
NotFinalized(s) == captureState[s] # "none" /\ ~remoteId[s]
StuckInFinalizing(s) == captureState[s] = "finalizing" /\ ~remoteId[s]
AnyFile(s, g) == files[s][g] # "none" /\ uploadStatus[s][g] = "none"

\* pending_uploads: neither completed nor failed for good.
PendingUploads(s) ==
  {g \in Segments : uploadStatus[s][g] \in {"not_started", "uploading", "retryable"}}

\* segment_counts_by_track, both tracks together.
SegmentCount(s) == Cardinality(Registered(s))

\* The order in which a set of segments is taken: by track, then by sequence.
CommitOrder == [self |-> 0, remote |-> 1]   \* run_pipeline: Self, then Remote
LedgerOrder == [remote |-> 0, self |-> 1]   \* ORDER BY track: "remote" < "self"

Before(g, h, order) ==
  \/ order[g[1]] < order[h[1]]
  \/ g[1] = h[1] /\ g[2] < h[2]

IsFirst(g, S, order) == g \in S /\ \A h \in S \ {g} : Before(g, h, order)

\* The session a worker acts on: a pipeline on its own, recovery on its task.
WorksOn(w, s) == w = s \/ (w = Recovery /\ task = s)

Live(s) == pc[s] \notin {"unused", "over"}

SetPc(w, label) == pc' = [pc EXCEPT ![w] = label]
SetState(s, state) == captureState' = [captureState EXCEPT ![s] = state]
SetStatus(s, g, status) == uploadStatus' = [uploadStatus EXCEPT ![s][g] = status]

TypeOK ==
  /\ captureState \in [Sessions -> CaptureStates]
  /\ remoteId \in [Sessions -> BOOLEAN]
  /\ uploadStatus \in [Sessions -> [Segments -> UploadStates]]
  /\ files \in [Sessions -> [Segments -> {"none", "partial", "opus"}]]
  /\ srvSessions \in SUBSET Sessions
  /\ sent \in [Sessions -> SUBSET Segments]
  /\ received \in [Sessions -> SUBSET Segments]
  /\ finalizeSent \in [Sessions -> SUBSET Nat]
  /\ srvFinalized \in SUBSET Sessions
  /\ pc \in [Workers ->
       {"unused", "capturing", "create_row", "register", "set_recording", "commit",
        "rename", "insert", "upload", "upload_call", "late_register", "set_stopping",
        "set_finalizing", "reconcile", "select", "next", "scan_self", "scan_remote",
        "lookup", "pass", "drain", "drain_call", "finalize", "finalize_call", "over"}]
  /\ captured \in [Sessions -> SUBSET Segments]
  /\ linked \in [Sessions -> BOOLEAN]
  /\ todo \in [Workers -> SUBSET Segments]
  /\ current \in [Workers -> Segments \union {NoSegment}]
  /\ passes \in [Workers -> 0 .. MaxPasses]
  /\ expected \in [Workers -> Nat]
  /\ queue \in SUBSET Sessions
  /\ task \in Sessions \union {NoSession}
  /\ crashes \in 0 .. MaxCrashes

Init ==
  /\ captureState = [s \in Sessions |-> "none"]
  /\ remoteId = [s \in Sessions |-> FALSE]
  /\ uploadStatus = [s \in Sessions |-> [g \in Segments |-> "none"]]
  /\ files = [s \in Sessions |-> [g \in Segments |-> "none"]]
  /\ srvSessions = {}
  /\ sent = [s \in Sessions |-> {}]
  /\ received = [s \in Sessions |-> {}]
  /\ finalizeSent = [s \in Sessions |-> {}]
  /\ srvFinalized = {}
  /\ pc = [w \in Workers |-> IF w = Recovery THEN "reconcile" ELSE "unused"]
  /\ captured = [s \in Sessions |-> {}]
  /\ linked = [s \in Sessions |-> FALSE]
  /\ todo = [w \in Workers |-> {}]
  /\ current = [w \in Workers |-> NoSegment]
  /\ passes = [w \in Workers |-> 0]
  /\ expected = [w \in Workers |-> 0]
  /\ queue = {}
  /\ task = NoSession
  /\ crashes = 0

-----------------------------------------------------------------------------
(* The capture task. *)

\* start_recording: refused while a recording is in progress.  Nothing orders it
\* after the startup recovery; PromptRecovery is the assumption that it comes later.
StartRecording(s) ==
  /\ pc[s] = "unused"
  /\ \A r \in Sessions : pc[r] # "capturing"
  /\ PromptRecovery => pc[Recovery] # "reconcile"
  /\ SetPc(s, "capturing")
  /\ UNCHANGED <<ledger, files, api, local, recover, crashes>>

\* Another segment's worth of frames of track t is collected in memory.
CaptureAudio(s, t) ==
  /\ t \in Audible[s]
  /\ pc[s] = "capturing"
  /\ \E q \in 0 .. MaxSegments - 1 :
       /\ captured[s] \intersect ({t} \X (0 .. MaxSegments - 1)) = {t} \X (0 .. q - 1)
       /\ captured' = [captured EXCEPT ![s] = @ \union {<<t, q>>}]
  /\ UNCHANGED <<ledger, files, api, pc, linked, todo, current, passes, expected,
                 recover, crashes>>

\* stop: the capture ends and only now does the pipeline run.
StopRecording(s) ==
  /\ pc[s] = "capturing"
  /\ SetPc(s, "create_row")
  /\ UNCHANGED <<ledger, files, api, local, recover, crashes>>

\* The capture returns an error: run_pipeline is never called.
CaptureFails(s) ==
  /\ "capture" \in Faults
  /\ pc[s] = "capturing"
  /\ SetPc(s, "over")
  /\ captured' = [captured EXCEPT ![s] = {}]
  /\ UNCHANGED <<ledger, files, api, linked, todo, current, passes, expected,
                 recover, crashes>>

-----------------------------------------------------------------------------
(* begin_session. *)

CreateRow(s) ==
  /\ pc[s] = "create_row"
  /\ SetState(s, "preparing")
  /\ SetPc(s, "register")
  /\ UNCHANGED <<remoteId, uploadStatus, files, api, local, recover, crashes>>

\* create_session succeeded and set_remote_session_id recorded it.
BeginRegistered(s) ==
  /\ pc[s] = "register"
  /\ srvSessions' = srvSessions \union {s}
  /\ remoteId' = [remoteId EXCEPT ![s] = TRUE]
  /\ linked' = [linked EXCEPT ![s] = TRUE]
  /\ SetPc(s, "set_recording")
  /\ UNCHANGED <<captureState, uploadStatus, files, sent, received, finalizeSent,
                 srvFinalized, captured, todo, current, passes, expected, recover,
                 crashes>>

\* create_session failed, before or after the API had acted on it.
BeginUnregistered(s) ==
  /\ pc[s] = "register"
  /\ srvSessions' \in {srvSessions, srvSessions \union {s}}
  /\ SetPc(s, "set_recording")
  /\ UNCHANGED <<ledger, files, sent, received, finalizeSent, srvFinalized, local,
                 recover, crashes>>

SetRecording(s) ==
  /\ pc[s] = "set_recording"
  /\ SetState(s, "recording")
  /\ SetPc(s, "commit")
  /\ UNCHANGED <<remoteId, uploadStatus, files, api, local, recover, crashes>>

-----------------------------------------------------------------------------
(* commit_and_upload_track over both tracks. *)

\* commit_segment, steps 1 to 4: the .partial is written, flushed and fsynced.
WritePartial(s) ==
  /\ pc[s] = "commit"
  /\ \E g \in captured[s] :
       /\ IsFirst(g, captured[s], CommitOrder)
       /\ files' = [files EXCEPT ![s][g] = "partial"]
       /\ current' = [current EXCEPT ![s] = g]
  /\ SetPc(s, "rename")
  /\ UNCHANGED <<ledger, api, captured, linked, todo, passes, expected, recover,
                 crashes>>

\* Step 5, the atomic rename: from here the audio survives a crash.
RenameSegment(s) ==
  /\ pc[s] = "rename"
  /\ files[s][current[s]] = "partial"
  /\ files' = [files EXCEPT ![s][current[s]] = "opus"]
  /\ captured' = [captured EXCEPT ![s] = @ \ {current[s]}]
  /\ SetPc(s, "insert")
  /\ UNCHANGED <<ledger, api, linked, todo, current, passes, expected, recover,
                 crashes>>

\* Step 6, register_segment: both rows in one transaction, refused by the
\* primary key when they exist.  Without a remote session the loop goes on;
\* with one the segment is marked Uploading and sent.
RegisterSegment(s) ==
  /\ pc[s] = "insert"
  /\ uploadStatus[s][current[s]] = "none"
  /\ SetStatus(s, current[s], "not_started")
  /\ IF linked[s]
       THEN /\ SetPc(s, "upload")
            /\ UNCHANGED current
       ELSE /\ SetPc(s, "commit")
            /\ current' = [current EXCEPT ![s] = NoSegment]
  /\ UNCHANGED <<captureState, remoteId, files, api, captured, linked, todo, passes,
                 expected, recover, crashes>>

\* A step of commit_segment fails and `?` ends run_pipeline.  The rename also
\* fails when another worker removed the .partial, the insert when one
\* registered the segment first.
CommitFails(s) ==
  /\ \/ "commit" \in Faults /\ pc[s] = "commit" /\ captured[s] # {}
     \/ pc[s] = "rename" /\ ("commit" \in Faults \/ files[s][current[s]] # "partial")
     \/ pc[s] = "insert" /\ ("commit" \in Faults \/ uploadStatus[s][current[s]] # "none")
  /\ SetPc(s, "over")
  /\ captured' = [captured EXCEPT ![s] = {}]
  /\ linked' = [linked EXCEPT ![s] = FALSE]
  /\ current' = [current EXCEPT ![s] = NoSegment]
  /\ UNCHANGED <<ledger, files, api, todo, passes, expected, recover, crashes>>

\* Uploading is recorded, then the request goes out.
StartUpload(s) ==
  /\ pc[s] = "upload"
  /\ SetStatus(s, current[s], "uploading")
  /\ sent' = [sent EXCEPT ![s] = @ \union {current[s]}]
  /\ SetPc(s, "upload_call")
  /\ UNCHANGED <<captureState, remoteId, files, srvSessions, received, finalizeSent,
                 srvFinalized, local, recover, crashes>>

\* Every segment is committed; a session with no remote one tries once more.
FinishTracks(s) ==
  /\ pc[s] = "commit"
  /\ captured[s] = {}
  /\ SetPc(s, IF linked[s] THEN "set_stopping" ELSE "late_register")
  /\ UNCHANGED <<ledger, files, api, local, recover, crashes>>

LateRegistered(s) ==
  /\ pc[s] = "late_register"
  /\ srvSessions' = srvSessions \union {s}
  /\ remoteId' = [remoteId EXCEPT ![s] = TRUE]
  /\ linked' = [linked EXCEPT ![s] = TRUE]
  /\ SetPc(s, "set_stopping")
  /\ UNCHANGED <<captureState, uploadStatus, files, sent, received, finalizeSent,
                 srvFinalized, captured, todo, current, passes, expected, recover,
                 crashes>>

\* finalize_local_only_session: Failed, recoverable, never registered.
LateUnregistered(s) ==
  /\ pc[s] = "late_register"
  /\ srvSessions' \in {srvSessions, srvSessions \union {s}}
  /\ SetState(s, "failed")
  /\ SetPc(s, "over")
  /\ UNCHANGED <<remoteId, uploadStatus, files, sent, received, finalizeSent,
                 srvFinalized, local, recover, crashes>>

-----------------------------------------------------------------------------
(* end_session. *)

SetStopping(s) ==
  /\ pc[s] = "set_stopping"
  /\ SetState(s, "stopping")
  /\ SetPc(s, "set_finalizing")
  /\ UNCHANGED <<remoteId, uploadStatus, files, api, local, recover, crashes>>

SetFinalizing(s) ==
  /\ pc[s] = "set_finalizing"
  /\ SetState(s, "finalizing")
  /\ SetPc(s, "pass")
  /\ UNCHANGED <<remoteId, uploadStatus, files, api, local, recover, crashes>>

-----------------------------------------------------------------------------
(* finalize_and_upload, by a pipeline or by recovery. *)

\* The locals of finalize_and_upload go when it returns.
LeaveTail(w) ==
  /\ passes' = [passes EXCEPT ![w] = 0]
  /\ expected' = [expected EXCEPT ![w] = 0]
  /\ linked' = [s \in Sessions |-> s # w /\ linked[s]]

\* upload_pending_once reads pending_uploads once, at the start of the pass.
CountPass(w) == passes' = [passes EXCEPT ![w] = @ + 1]

BeginPass(w, s) ==
  /\ WorksOn(w, s)
  /\ pc[w] = "pass"
  /\ todo' = [todo EXCEPT ![w] = PendingUploads(s)]
  /\ CountPass(w)
  /\ SetPc(w, "drain")
  /\ UNCHANGED <<ledger, files, api, captured, linked, current, expected, recover,
                 crashes>>

DrainUpload(w, s) ==
  /\ WorksOn(w, s)
  /\ pc[w] = "drain"
  /\ \E g \in todo[w] :
       /\ IsFirst(g, todo[w], LedgerOrder)
       /\ SetStatus(s, g, "uploading")
       /\ sent' = [sent EXCEPT ![s] = @ \union {g}]
       /\ todo' = [todo EXCEPT ![w] = @ \ {g}]
       /\ current' = [current EXCEPT ![w] = g]
  /\ SetPc(w, "drain_call")
  /\ UNCHANGED <<captureState, remoteId, files, srvSessions, received, finalizeSent,
                 srvFinalized, captured, linked, passes, expected, recover, crashes>>

\* The answer of upload_segment, in the commit loop and in a drain pass alike.
EndCall(w) ==
  /\ current' = [current EXCEPT ![w] = NoSegment]
  /\ SetPc(w, IF pc[w] = "upload_call" THEN "commit" ELSE "drain")

HasReceipt(w, s) == current[w] \in received[s]

UploadAccepted(w, s) ==
  /\ WorksOn(w, s)
  /\ pc[w] \in {"upload_call", "drain_call"}
  /\ HasReceipt(w, s)
  /\ SetStatus(s, current[w], "completed")
  /\ EndCall(w)
  /\ UNCHANGED <<captureState, remoteId, files, api, captured, linked, todo, passes,
                 expected, recover, crashes>>

\* A timeout, 5xx, 429, 401 or transport error, whatever the API did with the
\* request; or a 4xx of an API that has not stored the segment.
UploadFails(w, s) ==
  /\ WorksOn(w, s)
  /\ pc[w] \in {"upload_call", "drain_call"}
  /\ \/ SetStatus(s, current[w], "retryable")
     \/ /\ "reject" \in Faults
        /\ current[w] \notin received[s]
        /\ SetStatus(s, current[w], "permanent")
  /\ EndCall(w)
  /\ UNCHANGED <<captureState, remoteId, files, api, captured, linked, todo, passes,
                 expected, recover, crashes>>

\* run_until_drained leaves its loop when nothing is pending or at the last pass.
PassesDone(w) == passes[w] = MaxPasses

EndPass(w, s) ==
  /\ WorksOn(w, s)
  /\ pc[w] = "drain"
  /\ todo[w] = {}
  /\ SetPc(w, IF PendingUploads(s) = {} \/ PassesDone(w) THEN "finalize" ELSE "pass")
  /\ UNCHANGED <<ledger, files, api, local, recover, crashes>>

\* finalize_session is called with the ledger's segment counts, drained or not.
SendFinalize(w, s) ==
  /\ WorksOn(w, s)
  /\ pc[w] = "finalize"
  /\ expected' = [expected EXCEPT ![w] = SegmentCount(s)]
  /\ finalizeSent' = [finalizeSent EXCEPT ![s] = @ \union {SegmentCount(s)}]
  /\ SetPc(w, "finalize_call")
  /\ UNCHANGED <<ledger, files, srvSessions, sent, received, srvFinalized, captured,
                 linked, todo, current, passes, recover, crashes>>

FinalizeAccepted(w, s) ==
  /\ WorksOn(w, s)
  /\ pc[w] = "finalize_call"
  /\ Cardinality(received[s]) >= expected[w]
  /\ srvFinalized' = srvFinalized \union {s}
  /\ SetState(s, "finalized")
  /\ SetPc(w, IF w = Recovery THEN "next" ELSE "over")
  /\ LeaveTail(w)
  /\ task' = IF w = Recovery THEN NoSession ELSE task
  /\ UNCHANGED <<remoteId, uploadStatus, files, srvSessions, sent, received,
                 finalizeSent, captured, todo, current, queue, crashes>>

\* A 409 for missing segments or any other error: `?` returns it, which ends the
\* pipeline, and ends recovery's loop over the sessions still queued.
FinalizeFails(w, s) ==
  /\ WorksOn(w, s)
  /\ pc[w] = "finalize_call"
  /\ SetPc(w, "over")
  /\ LeaveTail(w)
  /\ IF w = Recovery
       THEN queue' = {} /\ task' = NoSession
       ELSE UNCHANGED recover
  /\ UNCHANGED <<ledger, files, api, captured, todo, current, crashes>>

-----------------------------------------------------------------------------
(* recover_incomplete_sessions. *)

\* reconcile_on_startup: one transaction marks every session left in a
\* non-terminal state Failed, and returns them.
Reconcile ==
  /\ pc[Recovery] = "reconcile"
  /\ queue' = {s \in Sessions : captureState[s] \in NonTerminal}
  /\ captureState' = [s \in Sessions |->
       IF captureState[s] \in NonTerminal THEN "failed" ELSE captureState[s]]
  /\ SetPc(Recovery, "select")
  /\ UNCHANGED <<remoteId, uploadStatus, files, api, local, task, crashes>>

\* failed_sessions_missing_remote_registration.
MissingRegistration(s) == captureState[s] = "failed" /\ ~remoteId[s]

SelectUnregistered ==
  /\ pc[Recovery] = "select"
  /\ queue' = queue \union {s \in Sessions : MissingRegistration(s)}
  /\ SetPc(Recovery, "next")
  /\ UNCHANGED <<ledger, files, api, local, task, crashes>>

\* The queries have no ORDER BY: the sessions come in any order.
TakeSession(s) ==
  /\ pc[Recovery] = "next"
  /\ s \in queue
  /\ queue' = queue \ {s}
  /\ task' = s
  /\ SetPc(Recovery, "scan_self")
  /\ UNCHANGED <<ledger, files, api, local, crashes>>

FinishRecovery ==
  /\ pc[Recovery] = "next"
  /\ queue = {}
  /\ SetPc(Recovery, "over")
  /\ UNCHANGED <<ledger, files, api, local, recover, crashes>>

\* What a scan removes, and what it registers.
Unfinished(s, g) == files[s][g] = "partial"
Orphan(s, g) == files[s][g] = "opus" /\ uploadStatus[s][g] = "none"

\* scan_and_recover of one track.  An error ends the scan where it stands and the
\* caller ignores it (`let _ =`).  Entries are independent, so one step handles
\* the ones the scan got to.
Scan(label, t, after) ==
  /\ pc[Recovery] = label
  /\ LET entries == {g \in Segments : g[1] = t /\ files[task][g] # "none"} IN
       \E seen \in SUBSET entries :
         /\ seen = entries \/ "scan" \in Faults
         /\ files' = [files EXCEPT ![task] = [g \in Segments |->
              IF g \in seen /\ Unfinished(task, g) THEN "none" ELSE files[task][g]]]
         /\ uploadStatus' = [uploadStatus EXCEPT ![task] = [g \in Segments |->
              IF g \in seen /\ Orphan(task, g) THEN "not_started"
                                               ELSE uploadStatus[task][g]]]
  /\ SetPc(Recovery, after)
  /\ UNCHANGED <<captureState, remoteId, api, local, recover, crashes>>

\* Mistake: the Remote directory is not scanned.
SelfOnly == Scan("scan_self", "self", "lookup")

ScanSelf   == Scan("scan_self", "self", "scan_remote")
ScanRemote == Scan("scan_remote", "remote", "lookup")

\* The stored remote session id, if there is one.
LookupRemote ==
  /\ pc[Recovery] = "lookup"
  /\ SetPc(Recovery, IF remoteId[task] THEN "pass" ELSE "register")
  /\ UNCHANGED <<ledger, files, api, local, recover, crashes>>

\* try_register_remote_session with the manifest read back from the ledger.
RecoveryRegistered ==
  /\ pc[Recovery] = "register"
  /\ srvSessions' = srvSessions \union {task}
  /\ remoteId' = [remoteId EXCEPT ![task] = TRUE]
  /\ SetPc(Recovery, "pass")
  /\ UNCHANGED <<captureState, uploadStatus, files, sent, received, finalizeSent,
                 srvFinalized, local, recover, crashes>>

\* Still unreachable: the session is left for the next restart.
RecoveryUnregistered ==
  /\ pc[Recovery] = "register"
  /\ srvSessions' \in {srvSessions, srvSessions \union {task}}
  /\ SetPc(Recovery, "next")
  /\ task' = NoSession
  /\ UNCHANGED <<ledger, files, sent, received, finalizeSent, srvFinalized, local,
                 queue, crashes>>

-----------------------------------------------------------------------------
(* The network and the API.  A request may reach the API at any time after it  *)
(* was sent, more than once, or never: `sent` only grows.                      *)

\* The first request of a segment stores it; later ones are answered from the
\* idempotency cache.
ServerStores(s) ==
  /\ s \in srvSessions
  /\ \E g \in sent[s] \ received[s] :
       received' = [received EXCEPT ![s] = @ \union {g}]
  /\ UNCHANGED <<ledger, files, srvSessions, sent, finalizeSent, srvFinalized, pc,
                 local, recover, crashes>>

\* A finalize request whose answer is lost, or that is late.
ServerFinalizes(s) ==
  /\ s \notin srvFinalized
  /\ \E count \in finalizeSent[s] : Cardinality(received[s]) >= count
  /\ srvFinalized' = srvFinalized \union {s}
  /\ UNCHANGED <<ledger, files, srvSessions, sent, received, finalizeSent, pc, local,
                 recover, crashes>>

-----------------------------------------------------------------------------
(* The process. *)

\* A new process: nothing of the old one's memory, and recovery runs first thing.
NewProcess ==
  /\ pc' = [w \in Workers |->
       IF w = Recovery THEN "reconcile" ELSE IF pc[w] = "unused" THEN "unused" ELSE "over"]
  /\ captured' = [s \in Sessions |-> {}]
  /\ linked' = [s \in Sessions |-> FALSE]
  /\ todo' = [w \in Workers |-> {}]
  /\ current' = [w \in Workers |-> NoSegment]
  /\ passes' = [w \in Workers |-> 0]
  /\ expected' = [w \in Workers |-> 0]
  /\ queue' = {}
  /\ task' = NoSession
  /\ UNCHANGED <<ledger, files, api>>

Crash ==
  /\ crashes < MaxCrashes
  /\ crashes' = crashes + 1
  /\ NewProcess

\* The user quits an idle application and opens it again.
Restart ==
  /\ pc[Recovery] = "over"
  /\ \A s \in Sessions : ~Live(s)
  /\ NewProcess
  /\ UNCHANGED crashes

-----------------------------------------------------------------------------

Capture(s) ==
  \/ StartRecording(s)
  \/ \E t \in Tracks : CaptureAudio(s, t)
  \/ StopRecording(s)
  \/ CaptureFails(s)

Pipeline(s) ==
  \/ CreateRow(s) \/ BeginRegistered(s) \/ BeginUnregistered(s) \/ SetRecording(s)
  \/ WritePartial(s) \/ RenameSegment(s) \/ RegisterSegment(s) \/ CommitFails(s)
  \/ StartUpload(s) \/ FinishTracks(s) \/ LateRegistered(s) \/ LateUnregistered(s)
  \/ SetStopping(s) \/ SetFinalizing(s)

FinalizeAndUpload(w, s) ==
  \/ BeginPass(w, s) \/ DrainUpload(w, s) \/ UploadAccepted(w, s) \/ UploadFails(w, s)
  \/ EndPass(w, s) \/ SendFinalize(w, s) \/ FinalizeAccepted(w, s)
  \/ FinalizeFails(w, s)

Recover ==
  \/ Reconcile \/ SelectUnregistered \/ (\E s \in Sessions : TakeSession(s))
  \/ FinishRecovery \/ ScanSelf \/ ScanRemote \/ LookupRemote
  \/ RecoveryRegistered \/ RecoveryUnregistered

Api(s) == ServerStores(s) \/ ServerFinalizes(s)

Next ==
  \/ \E s \in Sessions : Capture(s) \/ Pipeline(s) \/ Api(s)
  \/ \E w \in Workers, s \in Sessions : FinalizeAndUpload(w, s)
  \/ Recover
  \/ Crash
  \/ Restart

Spec == Init /\ [][Next]_vars

-----------------------------------------------------------------------------
(* Fairness.  Every task runs on a multi-threaded runtime and every await      *)
(* ends: the HTTP client has timeouts and bounded retries.  That is TasksRun.   *)
(* The rest is assumed of the environment where a property needs it: the        *)
(* registration of a session, repeated often enough, succeeds, and the user     *)
(* ends each recording, and quits and reopens an idle application.              *)

TasksRun ==
  /\ \A s \in Sessions : WF_vars(Pipeline(s) \/ FinalizeAndUpload(s, s))
  /\ WF_vars(Recover \/ \E s \in Sessions : FinalizeAndUpload(Recovery, s))

RegistrationSucceeds(s) == SF_vars(task = s /\ RecoveryRegistered)

UserActs == WF_vars(Restart) /\ \A s \in Sessions : WF_vars(StopRecording(s))

TaskSpec == Spec /\ TasksRun

-----------------------------------------------------------------------------
(* Safety. *)

\* A segment the ledger lists has its final file: the commit order (rename, then
\* register) and the restart scan leave no row an upload could not read.
LedgerHasFiles ==
  \A s \in Sessions : \A g \in Registered(s) : files[s][g] = "opus"

\* A session the ledger calls Finalized was finalized by the API, and the API
\* holds exactly the segments the ledger lists: the count the finalize request
\* carries is enough to tell, and nothing registers a segment afterwards.
FinalizedIsComplete ==
  \A s \in Sessions : captureState[s] = "finalized" =>
    s \in srvFinalized /\ received[s] = Registered(s)

\* Recovery and a pipeline never act on the same session.
OneWorkerPerSession ==
  \A s \in Sessions : Live(s) => task # s /\ s \notin queue

\* A finalized session leaves no committed file behind that the ledger does not
\* list, which no later restart would look at.
NoFileLeftBehind ==
  \A s \in Sessions : captureState[s] = "finalized" =>
    \A g \in Segments : files[s][g] = "opus" => g \in Registered(s)

\* Finalized is final: no reconciliation, recovery or late answer leaves it or
\* touches an upload of the session.
FinalizedStays ==
  [][\A s \in Sessions : captureState[s] = "finalized" =>
       /\ captureState'[s] = "finalized"
       /\ uploadStatus'[s] = uploadStatus[s]]_vars

\* What the recorder promises of a session, see SessionDelivery.
Delivery == INSTANCE SessionDelivery WITH
  ledger    <- [s \in Sessions |-> Registered(s)],
  delivered <- received,
  closed    <- {s \in Sessions : captureState[s] = "finalized"}
DeliverySpec == Delivery!Spec

-----------------------------------------------------------------------------
(* Liveness. *)

\* Whatever the network does, a pipeline ends and so does recovery: drain passes
\* are bounded and every failure leads out.
TasksEnd ==
  /\ \A s \in Sessions : (Live(s) /\ pc[s] # "capturing") ~> ~Live(s)
  /\ (pc[Recovery] # "over") ~> (pc[Recovery] = "over")

\* A session that ended, or was interrupted, before it was registered with the
\* API is registered by a later start of the application, if the user quits and
\* reopens it and its own registration, tried often enough, succeeds: failures of
\* another session do not keep recovery from it.
LocalOnlyIsRegistered ==
  \A s \in Sessions : UserActs /\ RegistrationSucceeds(s) =>
    ((captureState[s] = "failed" /\ ~remoteId[s]) ~> remoteId[s])

=============================================================================
