----------------------------- MODULE AutoVerify -----------------------------
(***************************************************************************)
(* The automatic verification of one proof: what is kept of an uploaded    *)
(* photo, the checks with their weights, and the verdict.                  *)
(*                                                                         *)
(* The verdict depends on the clock, on the photos of other proofs and on  *)
(* the task, which an admin may edit, and a redelivered job computes it    *)
(* again later (see ProofVerdict, where the three verdicts are a choice).  *)
(* Weights are hundredths: the sums of the code's floating-point weights   *)
(* compare with both thresholds as the exact sums do, for every            *)
(* combination of checks.                                                  *)
(***************************************************************************)
EXTENDS Integers, FiniteSets

CONSTANTS
  Files,           \* the files a proof may be submitted with
  Hashes,          \* SHA-256 values
  CaptureTimes,    \* capture times a photo's EXIF may tell; the proof is stored at 0
  ExpiryTimes,     \* the task's expiresAt
  Times,           \* when the verification may run
  MaxPhotoAge,     \* MAX_PHOTO_AGE_MS
  MaxCaptureSkew,  \* MAX_CAPTURE_SKEW_MS
  None

Verdicts == {"approved", "rejected", "inconclusive"}

ASSUME TimeAssumption ==
  /\ CaptureTimes \cup ExpiryTimes \subseteq Int
  /\ Times \subseteq Nat
  /\ MaxPhotoAge \in Nat
  /\ MaxCaptureSkew \in Nat
  /\ None \notin Int \cup Hashes \cup Verdicts

\* An uploaded file: "small" is below the minimum resolution.
Uploads ==
  [content : {"unreadable", "nonimage", "small", "large"}, exif : CaptureTimes \cup {None},
   hash : Hashes \cup {None}]

\* A proof may have no photos.
SomeUploads == UNION {[S -> Uploads] : S \in SUBSET Files}

\* Where the proof's coordinates are from the task's radius; "zero" when one of the
\* task's is 0, "missing" when one of the proof's is 0 or not given.
Locations == {"near", "far", "zero", "missing"}

VARIABLES
  location,
  upload,     \* the files of the proof, and the hash its photo row holds
  expiresAt,  \* of the task
  others,     \* hashes on the photos of other proofs
  now,
  verdict,    \* of the last run
  moved       \* history: the task's place or radius was edited since

verifyVars == <<location, upload, expiresAt, others, now, verdict, moved>>

\* The photos of the proof.
Photos == DOMAIN upload

OwnHashes == {upload[p].hash : p \in Photos} \ {None}

\* proof_photos.sha256 is unique; a reused photo's row has none.
HashesUnique ==
  /\ others \cap OwnHashes = {}
  /\ \A p, q \in Photos :
       upload[p].hash # None /\ upload[p].hash = upload[q].hash => p = q

VerifyTypeOK ==
  /\ location \in Locations
  /\ upload \in SomeUploads
  /\ HashesUnique
  /\ expiresAt \in ExpiryTimes \cup {None}
  /\ others \subseteq Hashes
  /\ now \in Times
  /\ verdict \in Verdicts \cup {None}
  /\ moved \in BOOLEAN

VerifyInit ==
  /\ location \in Locations
  /\ upload \in SomeUploads
  /\ others \in SUBSET Hashes
  /\ HashesUnique
  /\ expiresAt \in ExpiryTimes \cup {None}
  /\ now \in Times
  /\ verdict = None
  /\ moved = FALSE

-----------------------------------------------------------------------------
(* The photo rows.                                                         *)

\* Dimensions come from the image header, never from EXIF; EXIF is read only
\* when there are dimensions.
ExtractPhotoMetadata(file) ==
  LET decoded == file.content \in {"small", "large"} IN
  [decoded    |-> decoded,
   sharp      |-> file.content = "large",
   capturedAt |-> IF decoded THEN file.exif ELSE None,
   hash       |-> file.hash]

photo == [p \in Photos |-> ExtractPhotoMetadata(upload[p])]

IsRecentlyCaptured(x) ==
  x.capturedAt # None /\ x.capturedAt <= now /\ now - x.capturedAt <= MaxPhotoAge

HasFutureCaptureSkew(x) == x.capturedAt # None /\ x.capturedAt > MaxCaptureSkew

-----------------------------------------------------------------------------
(* The checks of autoVerify.                                               *)

\* A coordinate of 0 counts as missing.
GpsLocation == location = "near"

PhotosPresent == Photos # {}
PhotoQuality == \E p \in Photos : photo[p].sharp
PhotoRecency == \E p \in Photos : IsRecentlyCaptured(photo[p])
NotForged == \A p \in Photos : ~HasFutureCaptureSkew(photo[p])
Duplicated == OwnHashes \cap others # {}
NotExpired == expiresAt # None => now <= expiresAt

Weight(check, w) == IF check THEN w ELSE 0

\* Mutant: the location weighs no more than the expiry.
ScoreLowGps ==
  Weight(GpsLocation, 20) + Weight(PhotosPresent, 15) + Weight(PhotoQuality, 10)
    + Weight(PhotoRecency, 5) + Weight(NotForged, 5) + 10 + Weight(NotExpired, 20)

\* The photo_not_duplicate check has passed when the score is computed.
Score ==
  Weight(GpsLocation, 40) + Weight(PhotosPresent, 15) + Weight(PhotoQuality, 10)
    + Weight(PhotoRecency, 5) + Weight(NotForged, 5) + 10 + Weight(NotExpired, 20)

CorruptPhotos == \E p \in Photos : ~photo[p].decoded
ServerProofSignal == \E p \in Photos : photo[p].hash # None

\* Mutant: a high score is enough.
JudgeByScore ==
  IF Duplicated THEN "rejected"
  ELSE IF Score >= 70 THEN "approved"
  ELSE IF Score >= 40 THEN "inconclusive" ELSE "rejected"

\* Mutant: a proof that is not approved is rejected.
JudgeTwoWay ==
  IF Duplicated THEN "rejected"
  ELSE IF CorruptPhotos THEN "inconclusive"
  ELSE IF Score >= 70 /\ PhotosPresent /\ ServerProofSignal THEN "approved" ELSE "rejected"

Judge ==
  IF Duplicated THEN "rejected"
  ELSE IF CorruptPhotos THEN "inconclusive"
  ELSE IF Score >= 70 /\ PhotosPresent /\ ServerProofSignal THEN "approved"
  ELSE IF Score >= 40 THEN "inconclusive" ELSE "rejected"

-----------------------------------------------------------------------------
AutoVerify ==
  /\ verdict' = Judge
  /\ moved' = FALSE
  /\ UNCHANGED <<location, upload, expiresAt, others, now>>

TimePasses ==
  /\ \E t \in Times : t > now /\ now' = t
  /\ UNCHANGED <<location, upload, expiresAt, others, verdict, moved>>

\* Other proofs are stored and rolled back.
OthersChange ==
  /\ others' \in SUBSET (Hashes \ OwnHashes)
  /\ UNCHANGED <<location, upload, expiresAt, now, verdict, moved>>

\* PUT /tasks/:id with another place or radius.
MoveTask ==
  /\ location # "missing"
  /\ location' \in Locations \ {"missing", location}
  /\ moved' = TRUE
  /\ UNCHANGED <<upload, expiresAt, others, now, verdict>>

\* PUT /tasks/:id with another expiresAt; none cannot be asked for.
MoveExpiry ==
  /\ expiresAt' \in ExpiryTimes \ {expiresAt}
  /\ UNCHANGED <<location, upload, others, now, verdict, moved>>

VerifyNext == AutoVerify \/ TimePasses \/ OthersChange \/ MoveTask \/ MoveExpiry

VerifySpec == VerifyInit /\ [][VerifyNext]_verifyVars

-----------------------------------------------------------------------------
(* Properties.                                                             *)

\* "no combination of GPS/duplicate/expiry checks may auto-approve a proof that
\* has no photos" (verificationService.ts:101), nor one that was not in range when it
\* was judged: whatever the weights, an automatic approval has evidence of place and
\* picture.
ApprovalIsEvidenced ==
  verdict = "approved" =>
    /\ moved \/ location = "near"
    /\ \E p \in Photos : upload[p].hash # None
    /\ \A p \in Photos : upload[p].content \in {"small", "large"}

\* What the weights and thresholds come to, but for a proof whose own hash is on
\* another: one of the lesser checks is enough to approve a proof in range with a
\* hashed photo, and only a proof out of range that lacks photos, or is late and lacks
\* a sharp photo of a plausible time, is rejected.
VerdictRule ==
  LET plausible == PhotoQuality /\ (PhotoRecency \/ NotForged)
      lesser    == PhotoQuality \/ PhotoRecency \/ NotForged \/ NotExpired
  IN
  /\ Judge = "approved" <=>
       ~Duplicated /\ ~CorruptPhotos /\ GpsLocation /\ ServerProofSignal /\ lesser
  /\ Judge = "rejected" <=>
       Duplicated
         \/ (~CorruptPhotos /\ ~GpsLocation /\ (Photos = {} \/ (~NotExpired /\ ~plausible)))

\* A run delivered again later may lose or gain confidence, through the clock, other
\* proofs and a new expiry, but only where the task was moved in between does it turn
\* an approval into a rejection or a rejection into an approval.
NoReversal ==
  [][\/ verdict = "approved" /\ verdict' = "rejected"
     \/ verdict = "rejected" /\ verdict' = "approved"
     => moved]_verifyVars

=============================================================================
