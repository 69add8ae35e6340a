-------------------------- MODULE UploadedRequests --------------------------
(***************************************************************************)
(* The requests that work on temporary files: batch transcription, speech  *)
(* with a cloned or a preset voice, OCR and PDF rendering.  A handler      *)
(* spools the upload into a temporary file and gives it to a task of its   *)
(* own (run_owned), so that the file outlives a client that disconnects    *)
(* while a blocking thread or an inference still reads it.                 *)
(*                                                                         *)
(* An upload has                                                           *)
(*   handler   where the request handler is, "gone" once it was dropped;   *)
(*   task      where the owned task is;                                    *)
(*   op        the bits of its OwnedOperationState;                        *)
(*   aborted   whether the task's handle was aborted: it still runs up to  *)
(*             its next await point;                                       *)
(*   files     the temporary files that exist and have an owner;           *)
(*   stray     whether a file is left that nobody owns;                    *)
(*   work      the blocking closure or the spawned inference in progress,  *)
(*             which goes on when the future that awaits it is dropped;    *)
(*   slot, permit   the model's execution slot, and the inference permit   *)
(*             (its epoch, shared by the requests of one model).           *)
(* Which field, command or medium is at fault is the data of a request:    *)
(* the flaw says at which step it is noticed.                              *)
(***************************************************************************)
EXTENDS Naturals, FiniteSets

CONSTANTS Uploads,          \* the requests
          MaxInference,     \* permits of the inference limiter
          ModelSlots        \* execution slots of a model

ASSUME UploadsAssumption == MaxInference \in Nat \ {0} /\ ModelSlots \in Nat \ {0}

VARIABLE uploads

uploadVars == <<uploads>>

UploadKinds == {"transcription", "ocr", "clone", "preset", "pdf"}
UploadFlaws == {"none", "multipart", "command", "media"}

NoUpload == [kind |-> "preset", flaw |-> "none", handler |-> "new", task |-> "none",
             op |-> {}, aborted |-> FALSE, files |-> {}, stray |-> FALSE, work |-> "none",
             slot |-> FALSE, permit |-> FALSE]

UploadsInit == uploads = [r \in Uploads |-> NoUpload]

(* The file an operation in progress reads or writes. *)
FilesOf(u) == CASE u.work \in {"read", "render"} -> {"upload"}
                [] u.work = "write" -> {"wav"}
                [] u.work = "infer" /\ u.kind = "ocr" -> {"upload"}
                [] u.work = "infer" /\ u.kind = "clone" -> {"wav"}
                [] OTHER -> {}

(***************************************************************************)
(* OwnedOperationState                                                     *)
(***************************************************************************)
(* Faulty variant of CancelOwned: the task is aborted whatever it is doing. *)
CancelAlways(u) == [u EXCEPT !.op = @ \union {"CANCELLED"}, !.aborted = TRUE]

(* The drop of OwnedRequestTask: cancel, and abort an unprotected task. *)
CancelOwned(u) == [u EXCEPT !.op = @ \union {"CANCELLED"},
                            !.aborted = "PROTECTED" \notin u.op]

MayProtect(u) == "CANCELLED" \notin u.op
Protected(u) == [u EXCEPT !.op = @ \union {"PROTECTED"}]
FinishProtected(u) == [u EXCEPT !.op = @ \ {"PROTECTED"}]

(* The owned task ends, or is dropped by the abort, with all it owns: a    *)
(* render in progress owns its file, an inference its slot and its epoch.  *)
EndTask(u) == [u EXCEPT !.task = "over",
                        !.files = IF u.work = "render" THEN @ ELSE {},
                        !.slot = @ /\ u.work = "infer",
                        !.permit = @ /\ u.work = "infer",
                        !.handler = IF @ = "awaiting" THEN "answered" ELSE @]

(* protect_owned_file_operation, and the operation it protects. *)
FileOperation(u, work, phase) ==
  IF MayProtect(u) THEN [Protected(u) EXCEPT !.work = work, !.task = phase] ELSE EndTask(u)

(***************************************************************************)
(* The inference limiter                                                   *)
(***************************************************************************)
EpochHolders(kind) == {r \in Uploads : uploads[r].kind = kind /\ uploads[r].permit}
PermitsUsed == Cardinality(EpochHolders("pdf"))
               + Cardinality({k \in UploadKinds \ {"pdf"} : EpochHolders(k) # {}})
(* activate: an epoch of the model that is still alive is joined. *)
EpochFree(kind) == EpochHolders(kind) # {} \/ PermitsUsed < MaxInference
SlotFree(kind) == Cardinality({r \in Uploads : uploads[r].kind = kind /\ uploads[r].slot}) < ModelSlots

(***************************************************************************)
(* The handlers                                                            *)
(***************************************************************************)
UploadStep(r, u) == uploads' = [uploads EXCEPT ![r] = u]

OwnedBy(u) == [u EXCEPT !.handler = "awaiting", !.task = "ready"]

(* A request arrives; a multipart one has its temporary file created, and  *)
(* a blocking thread is asked to open it for writing.                      *)
ReceiveUpload(r) ==
  /\ uploads[r].handler = "new"
  /\ \E kind \in UploadKinds, flaw \in UploadFlaws :
       LET u == [NoUpload EXCEPT !.kind = kind, !.flaw = flaw]
       IN UploadStep(r, CASE kind # "preset" -> [u EXCEPT !.handler = "opening", !.files = {"upload"},
                                                          !.work = "open"]
                          [] kind = "preset" /\ flaw = "multipart" -> [u EXCEPT !.handler = "answered"]
                          [] OTHER -> OwnedBy(u))

(* The blocking thread opens the file, which creates it again when the     *)
(* handler that owned it was dropped in the meantime.                      *)
OpenUpload(r) ==
  /\ uploads[r].work = "open"
  /\ UploadStep(r, [uploads[r] EXCEPT !.work = "none",
                                      !.stray = "upload" \notin uploads[r].files,
                                      !.handler = IF @ = "opening" THEN "parsing" ELSE @])

(* The fields of each multipart request were read, or one is bad, missing  *)
(* or empty: that is answered at once and drops the file.                  *)
Parsed(r, kind, next) ==
  LET u == uploads[r]
  IN /\ u.handler = "parsing"
     /\ u.kind = kind
     /\ UploadStep(r, IF u.flaw = "multipart" THEN [u EXCEPT !.handler = "answered", !.files = {}]
                      ELSE next)

CreateTranscription(r) == Parsed(r, "transcription", OwnedBy(uploads[r]))

CreateOcr(r) == Parsed(r, "ocr", OwnedBy(uploads[r]))

(* A voice clone gets a second file for the transcoded reference. *)
CreateSpeechMultipart(r) ==
  Parsed(r, "clone", [OwnedBy(uploads[r]) EXCEPT !.files = @ \union {"wav"}])

(* A PDF first waits for a permit. *)
ReadPdfImagesRequest(r) == Parsed(r, "pdf", [uploads[r] EXCEPT !.handler = "queued"])

(* run_inference_owned has its permit before it starts the owned task. *)
AdmitPdf(r) ==
  /\ uploads[r].handler = "queued"
  /\ PermitsUsed < MaxInference
  /\ UploadStep(r, [OwnedBy(uploads[r]) EXCEPT !.permit = TRUE])

(* The client disconnects and the handler is dropped where it awaits. *)
LeaveUpload(r) ==
  LET u == uploads[r]
  IN \/ /\ u.handler \in {"opening", "parsing", "queued"}
        /\ UploadStep(r, [u EXCEPT !.handler = "gone", !.files = {}])
     \/ /\ u.handler = "awaiting"
        /\ UploadStep(r, [CancelOwned(u) EXCEPT !.handler = "gone"])

(***************************************************************************)
(* The owned task                                                          *)
(***************************************************************************)
TaskAt(r, phase) == uploads[r].task = phase /\ uploads[r].work = "none"

(* create_pdf_images: dispatched first, and the blocking render owns the file. *)
RenderPdf(r) ==
  LET u == uploads[r]
  IN /\ u.kind = "pdf"
     /\ \/ TaskAt(r, "ready") /\ UploadStep(r, FileOperation(u, "render", "rendering"))
        \/ TaskAt(r, "rendering") /\ UploadStep(r, EndTask(u))

(* The command is refused, or the upload is read under protection. *)
CheckAndRead(u) == IF u.flaw = "command" THEN EndTask(u) ELSE FileOperation(u, "read", "reading")

(* A protected operation is over: a cancellation that came in the meantime *)
(* is noticed here, then an error of the operation itself.                 *)
AfterProtected(u, next) == IF ~MayProtect(u) \/ u.flaw = "media" THEN EndTask(u) ELSE next

(* transcribe: the audio is decoded under protection. *)
Transcribe(r) ==
  LET u == FinishProtected(uploads[r])
  IN /\ u.kind = "transcription"
     /\ \/ TaskAt(r, "ready") /\ UploadStep(r, CheckAndRead(uploads[r]))
        \/ TaskAt(r, "reading") /\ UploadStep(r, AfterProtected(u, [u EXCEPT !.task = "leasing"]))

(* recognize: the image is validated under protection. *)
Recognize(r) ==
  LET u == FinishProtected(uploads[r])
  IN /\ u.kind = "ocr"
     /\ \/ TaskAt(r, "ready") /\ UploadStep(r, CheckAndRead(uploads[r]))
        \/ TaskAt(r, "reading") /\ UploadStep(r, AfterProtected(u, [u EXCEPT !.task = "leasing"]))

(* synthesize: only a clone has a reference to transcode. *)
Synthesize(r) ==
  LET u == uploads[r]
  IN /\ u.kind \in {"clone", "preset"}
     /\ TaskAt(r, "ready")
     /\ UploadStep(r, IF u.kind = "clone" \/ u.flaw = "command" THEN CheckAndRead(u)
                      ELSE [u EXCEPT !.task = "leasing"])

(* transcode_reference_audio: decoded under protection, encoded without    *)
(* it, and written to the second file under protection again.              *)
TranscodeReferenceAudio(r) ==
  LET u == FinishProtected(uploads[r])
  IN /\ u.kind = "clone"
     /\ \/ /\ TaskAt(r, "reading")
           /\ UploadStep(r, AfterProtected(u, [u EXCEPT !.task = "encoding", !.work = "encode"]))
        \/ TaskAt(r, "encoding") /\ UploadStep(r, FileOperation(uploads[r], "write", "writing"))
        \/ TaskAt(r, "writing") /\ UploadStep(r, AfterProtected(u, [u EXCEPT !.task = "leasing"]))

(* The model is leased, or cannot be had. *)
LeaseUploadModel(r) ==
  /\ TaskAt(r, "leasing")
  /\ \/ UploadStep(r, [uploads[r] EXCEPT !.task = "slot"])
     \/ UploadStep(r, EndTask(uploads[r]))

(* run_with_inference: the slot, then the epoch, and only then dispatched; *)
(* the spawned inference owns both.                                        *)
TakeUploadSlot(r) ==
  /\ TaskAt(r, "slot")
  /\ SlotFree(uploads[r].kind)
  /\ UploadStep(r, [uploads[r] EXCEPT !.slot = TRUE, !.task = "epoch"])

DispatchInference(r) ==
  /\ TaskAt(r, "epoch")
  /\ EpochFree(uploads[r].kind)
  /\ UploadStep(r, FileOperation([uploads[r] EXCEPT !.permit = TRUE], "infer", "inferring"))

(* The result is back: speech is still encoded, the rest is answered. *)
FinishInference(r) ==
  LET u == uploads[r]
  IN \/ /\ TaskAt(r, "inferring")
        /\ UploadStep(r, IF u.kind \in {"clone", "preset"}
                         THEN [u EXCEPT !.task = "answering", !.work = "encode"] ELSE EndTask(u))
     \/ TaskAt(r, "answering") /\ UploadStep(r, EndTask(u))

(* The abort takes effect at an await point of the task. *)
AbortTask(r) ==
  /\ uploads[r].aborted
  /\ uploads[r].task \notin {"none", "over"}
  /\ UploadStep(r, EndTask(uploads[r]))

(* A blocking closure or a spawned inference ends, whoever awaits it: the  *)
(* inference drops its slot and epoch, the render its file.                *)
FinishWork(r) ==
  LET u == [uploads[r] EXCEPT !.work = "none"]
  IN /\ uploads[r].work \notin {"none", "open"}
     /\ UploadStep(r, CASE uploads[r].work = "infer" -> [u EXCEPT !.slot = FALSE, !.permit = FALSE]
                        [] uploads[r].work = "render" -> [u EXCEPT !.files = {}]
                        [] OTHER -> u)

UploadsNext ==
  \E r \in Uploads :
    \/ ReceiveUpload(r) \/ OpenUpload(r) \/ CreateTranscription(r) \/ CreateOcr(r)
    \/ CreateSpeechMultipart(r) \/ ReadPdfImagesRequest(r) \/ AdmitPdf(r) \/ LeaveUpload(r)
    \/ RenderPdf(r) \/ Transcribe(r) \/ Recognize(r) \/ Synthesize(r)
    \/ TranscodeReferenceAudio(r) \/ LeaseUploadModel(r) \/ TakeUploadSlot(r) \/ DispatchInference(r)
    \/ FinishInference(r) \/ AbortTask(r) \/ FinishWork(r)

(***************************************************************************)
(* Properties                                                              *)
(***************************************************************************)
(* The inferences and renders that are really running. *)
RunningWork(kind) == {r \in Uploads : uploads[r].kind = kind /\ uploads[r].work \in {"infer", "render"}}

(* Whatever the moment the client disconnects at: a temporary file is      *)
(* never deleted while a blocking thread or an inference works on it; no   *)
(* more inferences and renders run than the limiter has permits and the    *)
(* model has slots, those whose client is gone included; and once a        *)
(* request is over and nothing runs for it any more, it owns neither a     *)
(* file, nor a slot, nor a permit.                                         *)
UploadsSafe ==
  /\ \A r \in Uploads : FilesOf(uploads[r]) \subseteq uploads[r].files
  /\ Cardinality(RunningWork("pdf"))
       + Cardinality({k \in UploadKinds \ {"pdf"} : RunningWork(k) # {}}) <= MaxInference
  /\ \A k \in UploadKinds \ {"pdf"} : Cardinality(RunningWork(k)) <= ModelSlots
  /\ \A r \in Uploads :
       /\ uploads[r].handler \in {"gone", "answered"}
       /\ uploads[r].task \in {"none", "over"}
       /\ uploads[r].work = "none"
       => uploads[r].files = {} /\ ~uploads[r].slot /\ ~uploads[r].permit
=============================================================================
