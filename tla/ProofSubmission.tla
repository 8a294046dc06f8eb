--------------------------- MODULE ProofSubmission ---------------------------
(***************************************************************************)
(* POST /api/proofs: a submission checks that its user may submit, matches *)
(* its photos with stored ones by hash, uploads the others to IPFS, stores *)
(* the proof with its photos, and enqueues the verification; whatever      *)
(* fails is taken back step by step.  Next to it the claims that make a    *)
(* user eligible.                                                          *)
(*                                                                         *)
(* IPFS is outside the database transactions, and the submissions of one   *)
(* task interleave at every statement.  A photo's content stands for its   *)
(* SHA-256 and for its CID: both are functions of the bytes.               *)
(***************************************************************************)
EXTENDS Naturals, FiniteSets

CONSTANTS
  Submissions,      \* submissions for one task
  Users,
  PhotoFiles,       \* the photos they carry
  Contents,         \* the bytes a photo may have
  UserOf,           \* the user of a submission
  RequestOf,        \* the submission of a photo
  ContentOf,        \* the bytes of a photo
  SubmissionFaults  \* bound: crashes, lost replies and failed removals

ASSUME SubmissionAssumption ==
  /\ UserOf \in [Submissions -> Users]
  /\ RequestOf \in [PhotoFiles -> Submissions]
  /\ ContentOf \in [PhotoFiles -> Contents]
  /\ SubmissionFaults \in Nat

FilesOf(r) == {f \in PhotoFiles : RequestOf[f] = r}

Running == {"preflight", "match", "upload", "check", "create", "enqueue", "rollback", "cleanup"}
Pcs     == Running \cup {"refused", "created", "failed"}
Claims  == {"none", "active", "released", "expired"}
TaskStates == {"open", "full", "closed"}

\* The failures that may leave a proof stored: of the enqueue, of its rollback, of
\* the reply to the commit, and of the process.
Mishaps == {"enqueue", "rollback", "reply", "crash"}

VARIABLES
  task,         \* "open": ACTIVE with completions left; "full": ACTIVE without; "closed"
  claim,        \* task_claims.status of each user
  lapsed,       \* users whose claim's expires_at has passed
  pc,           \* where each submission is, or what it answered
  matched,      \* the hashes it found stored
  settled,      \* its photos whose preparation is over
  uploadFailed, \* one of them could not be uploaded
  uploaded,     \* uploadedCids
  proofs,       \* submissions whose proof is stored
  photoRow,     \* proof_photos: "owner" holds the hash, "copy" has none
  stored,       \* the CIDs that IPFS keeps for the service
  lost,         \* CIDs left behind by a crash, a lost reply or a failed removal
  mishaps,      \* history: what failed after a submission's commit began
  spent

claimVars == <<task, claim, lapsed>>
prepVars == <<matched, settled, uploadFailed, uploaded>>
dbVars == <<proofs, photoRow>>
ipfsVars == <<stored, lost>>
faultVars == <<mishaps, spent>>
submissionVars == <<claimVars, pc, prepVars, dbVars, ipfsVars, faultVars>>

SubmissionTypeOK ==
  /\ task \in TaskStates
  /\ claim \in [Users -> Claims]
  /\ lapsed \subseteq Users
  /\ pc \in [Submissions -> Pcs]
  /\ matched \in [Submissions -> SUBSET Contents]
  /\ settled \in [Submissions -> SUBSET PhotoFiles]
  /\ uploadFailed \subseteq Submissions
  /\ uploaded \in [Submissions -> SUBSET Contents]
  /\ proofs \subseteq Submissions
  /\ photoRow \in [PhotoFiles -> {"none", "owner", "copy"}]
  /\ \A f \in PhotoFiles : photoRow[f] # "none" <=> RequestOf[f] \in proofs
  /\ stored \subseteq Contents
  /\ lost \subseteq Contents
  /\ mishaps \in [Submissions -> SUBSET Mishaps]
  /\ spent \in Nat

SubmissionInit ==
  /\ task = "open"
  /\ claim \in [Users -> {"none", "active"}]
  /\ lapsed = {}
  /\ pc = [r \in Submissions |-> "preflight"]
  /\ matched = [r \in Submissions |-> {}]
  /\ settled = [r \in Submissions |-> {}]
  /\ uploadFailed = {}
  /\ uploaded = [r \in Submissions |-> {}]
  /\ proofs = {}
  /\ photoRow = [f \in PhotoFiles |-> "none"]
  /\ stored = {}
  /\ lost = {}
  /\ mishaps = [r \in Submissions |-> {}]
  /\ spent = 0

SubmitAt(r, p) == pc[r] = p
SubmitGoto(r, p) == pc' = [pc EXCEPT ![r] = p]

\* Nothing changes but where the submission is.
Move(r, p) ==
  /\ SubmitGoto(r, p)
  /\ UNCHANGED <<claimVars, prepVars, dbVars, ipfsVars, faultVars>>

SpendFault == spent < SubmissionFaults /\ spent' = spent + 1

Suffer(r, mishap) == mishaps' = [mishaps EXCEPT ![r] = @ \cup {mishap}]

-----------------------------------------------------------------------------
(* Claims.                                                                 *)

\* An active claim, or none; a lapsed or released one is renewed.  The task is
\* ACTIVE: its capacity is not looked at.
ClaimTask(u) ==
  /\ task # "closed"
  /\ claim[u] # "active" \/ u \in lapsed
  /\ claim' = [claim EXCEPT ![u] = "active"]
  /\ lapsed' = lapsed \ {u}
  /\ UNCHANGED <<task, pc, prepVars, dbVars, ipfsVars, faultVars>>

\* The claim was active when it was read, and is released whatever it is by now.
ReleaseClaim(u) ==
  /\ claim[u] # "none"
  /\ claim' = [claim EXCEPT ![u] = "released"]
  /\ UNCHANGED <<task, lapsed, pc, prepVars, dbVars, ipfsVars, faultVars>>

\* Twenty-four hours pass.
ClaimLapses(u) ==
  /\ claim[u] # "none"
  /\ lapsed' = lapsed \cup {u}
  /\ UNCHANGED <<task, claim, pc, prepVars, dbVars, ipfsVars, faultVars>>

\* The sweep of expireOverdueTasks.
ExpireClaims ==
  /\ claim' = [u \in Users |-> IF claim[u] = "active" /\ u \in lapsed THEN "expired" ELSE claim[u]]
  /\ UNCHANGED <<task, lapsed, pc, prepVars, dbVars, ipfsVars, faultVars>>

\* The task is completed, expired, edited or reopened (see ProofVerdict).
TaskChanges ==
  /\ task' \in TaskStates \ {task}
  /\ UNCHANGED <<claim, lapsed, pc, prepVars, dbVars, ipfsVars, faultVars>>

Eligible(u) == task = "open" /\ claim[u] = "active" /\ u \notin lapsed

-----------------------------------------------------------------------------
(* submitProof.                                                            *)

Preflight(r) ==
  /\ SubmitAt(r, "preflight")
  /\ Move(r, IF Eligible(UserOf[r]) THEN "match" ELSE "refused")

\* proof_photos rows whose hash is one of the photos'.
MatchPhotos(r) ==
  /\ SubmitAt(r, "match")
  /\ matched' = [matched EXCEPT ![r] =
       {ContentOf[f] : f \in FilesOf(r)}
         \cap {ContentOf[f] : f \in {g \in PhotoFiles : photoRow[g] = "owner"}}]
  /\ SubmitGoto(r, "upload")
  /\ UNCHANGED <<claimVars, settled, uploadFailed, uploaded, dbVars, ipfsVars, faultVars>>

\* A photo cannot be hashed.
HashThrows(r) ==
  /\ SubmitAt(r, "match")
  /\ Move(r, "cleanup")

Settle(r, f) ==
  /\ SubmitAt(r, "upload")
  /\ f \in FilesOf(r) \ settled[r]
  /\ settled' = [settled EXCEPT ![r] = @ \cup {f}]

\* Mutant: the CID of a matched photo counts as uploaded.
PreparePhotoRecordsAll(r, f) ==
  /\ Settle(r, f)
  /\ stored' = IF ContentOf[f] \in matched[r] THEN stored ELSE stored \cup {ContentOf[f]}
  /\ uploaded' = [uploaded EXCEPT ![r] = @ \cup {ContentOf[f]}]
  /\ UNCHANGED <<claimVars, pc, matched, uploadFailed, dbVars, lost, faultVars>>

\* A matched photo takes the CID of the match, another is uploaded.
PreparePhoto(r, f) ==
  /\ Settle(r, f)
  /\ IF ContentOf[f] \in matched[r]
       THEN UNCHANGED <<uploaded, stored>>
       ELSE /\ stored' = stored \cup {ContentOf[f]}
            /\ uploaded' = [uploaded EXCEPT ![r] = @ \cup {ContentOf[f]}]
  /\ UNCHANGED <<claimVars, pc, matched, uploadFailed, dbVars, lost, faultVars>>

\* The upload fails, perhaps after IPFS took the bytes.
UploadThrows(r, f) ==
  /\ Settle(r, f)
  /\ ContentOf[f] \notin matched[r]
  /\ uploadFailed' = uploadFailed \cup {r}
  /\ \/ UNCHANGED <<stored, lost, spent>>
     \/ /\ SpendFault
        /\ stored' = stored \cup {ContentOf[f]}
        /\ lost' = lost \cup {ContentOf[f]}
  /\ UNCHANGED <<claimVars, pc, matched, uploaded, dbVars, mishaps>>

\* Promise.allSettled: only when every upload is over is a failure looked at.
PhotosSettle(r) ==
  /\ SubmitAt(r, "upload")
  /\ settled[r] = FilesOf(r)
  /\ Move(r, IF r \in uploadFailed THEN "cleanup" ELSE "check")

\* Mutant: a submission refused here keeps what it uploaded.
CheckAgainNoCleanup(r) ==
  /\ SubmitAt(r, "check")
  /\ Move(r, IF Eligible(UserOf[r]) THEN "create" ELSE "failed")

\* The commit transaction reads task and claim again before it inserts.
CheckAgain(r) ==
  /\ SubmitAt(r, "check")
  /\ Move(r, IF Eligible(UserOf[r]) THEN "create" ELSE "cleanup")

\* The photos of a submission that will store their hash.
Hashed(r) == {f \in FilesOf(r) : ContentOf[f] \notin matched[r]}

\* proof_photos.sha256 is unique.
HashesFree(r) ==
  \A f \in Hashed(r), g \in PhotoFiles :
    ContentOf[f] = ContentOf[g] /\ f # g => photoRow[g] # "owner" /\ g \notin Hashed(r)

InsertRows(r) ==
  /\ proofs' = proofs \cup {r}
  /\ photoRow' = [f \in PhotoFiles |->
       IF f \notin FilesOf(r) THEN photoRow[f] ELSE IF f \in Hashed(r) THEN "owner" ELSE "copy"]

CreateProof(r) ==
  /\ SubmitAt(r, "create")
  /\ HashesFree(r)
  /\ InsertRows(r)
  /\ SubmitGoto(r, "enqueue")
  /\ UNCHANGED <<claimVars, prepVars, ipfsVars, faultVars>>

\* A hash is taken, or the database fails.
CommitThrows(r) ==
  /\ pc[r] \in {"check", "create"}
  /\ Move(r, "cleanup")

\* The transaction commits and its reply is lost.
CommitReplyLost(r) ==
  /\ SubmitAt(r, "create")
  /\ HashesFree(r)
  /\ SpendFault
  /\ InsertRows(r)
  /\ Suffer(r, "reply")
  /\ SubmitGoto(r, "cleanup")
  /\ UNCHANGED <<claimVars, prepVars, ipfsVars>>

EnqueueVerification(r) ==
  /\ SubmitAt(r, "enqueue")
  /\ Move(r, "created")

EnqueueFails(r) ==
  /\ SubmitAt(r, "enqueue")
  /\ Suffer(r, "enqueue")
  /\ SubmitGoto(r, "rollback")
  /\ UNCHANGED <<claimVars, prepVars, dbVars, ipfsVars, spent>>

DeletePhotos(r) ==
  photoRow' = [f \in PhotoFiles |-> IF f \in FilesOf(r) THEN "none" ELSE photoRow[f]]

\* Mutant: nothing is deleted.
RollbackNothing(r) ==
  /\ SubmitAt(r, "rollback")
  /\ Move(r, "cleanup")

Rollback(r) ==
  /\ SubmitAt(r, "rollback")
  /\ proofs' = proofs \ {r}
  /\ DeletePhotos(r)
  /\ SubmitGoto(r, "cleanup")
  /\ UNCHANGED <<claimVars, prepVars, ipfsVars, faultVars>>

\* Logged and swallowed: the proof stays.
RollbackThrows(r) ==
  /\ SubmitAt(r, "rollback")
  /\ Suffer(r, "rollback")
  /\ SubmitGoto(r, "cleanup")
  /\ UNCHANGED <<claimVars, prepVars, dbVars, ipfsVars, spent>>

\* removeFromIPFS of every uploaded CID; a removal that fails is swallowed.
CleanUp(r) ==
  /\ SubmitAt(r, "cleanup")
  /\ \/ stored' = stored \ uploaded[r] /\ UNCHANGED <<lost, spent>>
     \/ /\ SpendFault
        /\ \E c \in uploaded[r] : /\ stored' = stored \ (uploaded[r] \ {c})
                                  /\ lost' = lost \cup {c}
  /\ SubmitGoto(r, "failed")
  /\ UNCHANGED <<claimVars, prepVars, dbVars, mishaps>>

\* The process dies.
Crash(r) ==
  /\ pc[r] \in Running
  /\ SpendFault
  /\ lost' = lost \cup uploaded[r]
  /\ Suffer(r, "crash")
  /\ SubmitGoto(r, "failed")
  /\ UNCHANGED <<claimVars, prepVars, dbVars, stored>>

-----------------------------------------------------------------------------
ClaimStep ==
  \/ \E u \in Users : ClaimTask(u) \/ ReleaseClaim(u) \/ ClaimLapses(u)
  \/ ExpireClaims
  \/ TaskChanges

SubmitStep(r) ==
  \/ Preflight(r) \/ MatchPhotos(r) \/ HashThrows(r) \/ PhotosSettle(r)
  \/ \E f \in PhotoFiles : PreparePhoto(r, f) \/ UploadThrows(r, f)
  \/ CheckAgain(r) \/ CreateProof(r) \/ CommitThrows(r) \/ CommitReplyLost(r)
  \/ EnqueueVerification(r) \/ EnqueueFails(r) \/ Rollback(r) \/ RollbackThrows(r)
  \/ CleanUp(r) \/ Crash(r)

SubmissionNext == ClaimStep \/ \E r \in Submissions : SubmitStep(r)

SubmissionSpec == SubmissionInit /\ [][SubmissionNext]_submissionVars

-----------------------------------------------------------------------------
(* Properties.                                                             *)

Referenced == {ContentOf[f] : f \in {g \in PhotoFiles : photoRow[g] # "none"}}
InFlight   == UNION {uploaded[r] : r \in {q \in Submissions : pc[q] \in Running}}

\* "any path that ends without a committed proof ... must reclaim them instead
\* of leaving them permanently orphaned" (proofController.ts:84): IPFS keeps
\* nothing that no photo refers to, but for what is under way or was lost to a
\* crash or a failed removal.
NoOrphans == stored \subseteq Referenced \cup InFlight \cup lost

\* A submission that failed took back what it had uploaded itself.
TookBack(r, c) ==
  /\ pc[r] = "failed" /\ "crash" \notin mishaps[r]
  /\ c \in uploaded[r] \ matched[r]

\* The photos of an accepted proof, those that reuse a stored CID included, stay on
\* IPFS through the failures of every submission that only reused the same bytes.
\* One that had uploaded them itself, and failed, takes them from all the others.
AcceptedPhotosAreKept ==
  \A f \in PhotoFiles :
    photoRow[f] # "none" /\ pc[RequestOf[f]] = "created" =>
      ContentOf[f] \in stored \/ \E r \in Submissions : TookBack(r, ContentOf[f])

\* No single await that throws leaves a failed submission with a proof that would be
\* verified: it takes the rollback to fail as well as the enqueue, a commit whose
\* reply is lost, or the end of the process.
FailedLeaveNoProof ==
  \A r \in Submissions : pc[r] = "failed" /\ r \in proofs =>
    \/ {"enqueue", "rollback"} \subseteq mishaps[r]
    \/ "reply" \in mishaps[r]
    \/ "crash" \in mishaps[r]
=============================================================================
