---------------------------- MODULE Registration ----------------------------
(***************************************************************************)
(* RegistrationPipeline.run over the two originals of a pair: each is      *)
(* hashed and decoded, the rasters and the pair are assessed, the newer    *)
(* image is brought onto the grid of the older one, and the sources are    *)
(* hashed again before and after the result is written.  An original may   *)
(* be changed, become unreadable or disappear, and come back, at any       *)
(* moment and any number of times.  One that is restored to what was       *)
(* hashed passes for unchanged although something else was decoded: such   *)
(* sides are recorded (restored).                                          *)
(*                                                                         *)
(* What the images show is a scene: the codes that the quality checks      *)
(* find, and the counts and verdicts of the visual registration.  A        *)
(* changed original shows the same scene, the change that no quality check *)
(* can notice.  Whether visual refinement is enabled goes with the scene.   *)
(***************************************************************************)
EXTENDS Integers

CONSTANTS
  Scenes,          \* the scenes a pair may show
  MinInliers,
  MinScore         \* minimum_registration_score, in percent

Sides == {"old", "new"}
Originals == {"ingested", "changed", "unreadable", "missing"}

Severity ==
  [code \in {"EXTREME_DARKNESS", "EXTREME_OVEREXPOSURE"} |-> "warning"]

RasterCodes == {"MINIMUM_DIMENSIONS", "INCOMPATIBLE_BANDS", "INCOMPATIBLE_CHANNEL_ORDER",
                "LOW_VALID_PIXEL_RATIO", "EXCESSIVE_BLUR"} \cup DOMAIN Severity
PairCodes == {"INSUFFICIENT_GEOGRAPHIC_OVERLAP", "LARGE_RESOLUTION_MISMATCH", "INCOMPATIBLE_BANDS"}

ASSUME RegistrationAssumption ==
  /\ MinInliers \in Nat /\ MinScore \in 0..100
  /\ \A s \in Scenes :
       /\ s.raster \subseteq RasterCodes /\ s.pair \subseteq PairCodes
       /\ {s.refining, s.shared_grid, s.plausible, s.close, s.ecc_fails} \subseteq BOOLEAN
       /\ {s.matches, s.inliers} \subseteq Nat /\ s.score \in 0..100

VARIABLES
  source,       \* the two files
  scene,        \* what they show; chosen when they are first decoded
  registration  \* the run in progress or the last one

registrationVars == <<source, scene, registration>>

Unseen == [raster |-> {}, pair |-> {}]

NotRun == [at |-> "none", hash |-> [s \in Sides |-> "none"], pixels |-> [s \in Sides |-> "none"],
           status |-> "none", warnings |-> {}, refined |-> FALSE, restored |-> {}]

RegistrationInit ==
  /\ source = [s \in Sides |-> "ingested"]
  /\ scene = Unseen
  /\ registration = NotRun

-----------------------------------------------------------------------------
(* The assessment of quality and the registration itself, of a scene.      *)

\* _status of a report, from the severities of its issues.
Status(severities) ==
  IF "rejected" \in severities THEN "REJECTED"
  ELSE IF "manual" \in severities THEN "REQUIRES_MANUAL_ALIGNMENT"
  ELSE IF "warning" \in severities THEN "PASS_WITH_WARNING" ELSE "PASS"

RasterSeverity(code) == IF code \in DOMAIN Severity THEN Severity[code] ELSE "rejected"
PairSeverity(code) == IF code = "LARGE_RESOLUTION_MISMATCH" THEN "manual" ELSE "rejected"

RasterStatus(s) == Status({RasterSeverity(c) : c \in s.raster})
PairStatus(s) == Status({PairSeverity(c) : c \in s.pair})

\* register_aligned_pair and accept_geospatial_alignment.
Reliable(s) ==
  IF s.refining THEN s.inliers >= MinInliers /\ s.close /\ s.score >= MinScore
  ELSE s.score >= MinScore

Warned(s) ==
  (IF s.refining THEN IF s.ecc_fails THEN {"ECC_REFINEMENT_FAILED"} ELSE {}
   ELSE {"VISUAL_REFINEMENT_SKIPPED"})
    \cup (IF Reliable(s) THEN {} ELSE {"LOW_REGISTRATION_QUALITY"})

\* assess_pair and align_pair: no common projected grid, too little in common,
\* or a pair that is rejected.
GridRefusal(s) ==
  IF ~ s.shared_grid THEN "CRSMismatchError"
  ELSE IF "INSUFFICIENT_GEOGRAPHIC_OVERLAP" \in s.pair THEN "InsufficientOverlapError"
  ELSE IF PairStatus(s) = "REJECTED" THEN "RegistrationQualityError"
  ELSE "none"

\* Too few matches, a transform beyond the limits, or no inliers.
NoTransform(s) ==
  s.refining /\ (s.matches < MinInliers \/ ~ s.plausible \/ s.inliers = 0)

\* The exception that stops the run on this scene, "none" if it goes on.
Refusal(s) ==
  IF RasterStatus(s) = "REJECTED" THEN "RegistrationQualityError"
  ELSE IF GridRefusal(s) # "none" THEN GridRefusal(s)
  ELSE IF NoTransform(s) THEN "RegistrationError" ELSE "none"

\* A registration that cannot be relied on, or a pair of too different
\* resolutions, is left to manual alignment.
Outcome(s) ==
  LET warnings == s.raster \cup s.pair \cup Warned(s)
  IN [status |-> IF ~ Reliable(s) \/ PairStatus(s) = "REQUIRES_MANUAL_ALIGNMENT"
                 THEN "REQUIRES_MANUAL_ALIGNMENT"
                 ELSE IF warnings # {} THEN "PASS_WITH_WARNING" ELSE "PASS",
      warnings |-> warnings]

-----------------------------------------------------------------------------
(* The run.                                                                *)

Raise(error) ==
  /\ registration' = [registration EXCEPT !.at = error]
  /\ UNCHANGED <<source, scene>>

StartRegistration ==
  /\ registration' = [NotRun EXCEPT !.at = "hash_old"]
  /\ UNCHANGED <<source, scene>>

DecodeErrors == {"RasterReadError", "RasterMetadataError", "CRSMissing"}

\* LocalRasterIngestor.read: the file is hashed, then opened and decoded.
HashFirst(side, here, next) ==
  /\ registration.at = here
  /\ IF source[side] = "missing" THEN Raise("RasterReadError")
     ELSE /\ registration' = [registration EXCEPT !.at = next, !.hash[side] = source[side]]
          /\ UNCHANGED <<source, scene>>

Decode(side, here, next) ==
  /\ registration.at = here
  /\ IF source[side] = "missing" THEN Raise("RasterReadError")
     ELSE IF source[side] = "unreadable" THEN \E error \in DecodeErrors : Raise(error)
     ELSE /\ registration' = [registration EXCEPT !.at = next, !.pixels[side] = source[side]]
          /\ scene' \in IF scene = Unseen THEN Scenes ELSE {scene}
          /\ UNCHANGED source

Register ==
  /\ registration.at = "register"
  /\ IF Refusal(scene) # "none" THEN Raise(Refusal(scene))
     ELSE /\ registration' =
               [registration EXCEPT !.at = "check", !.status = Outcome(scene).status,
                                    !.warnings = Outcome(scene).warnings, !.refined = scene.refining]
          /\ UNCHANGED <<source, scene>>

\* The sources have the hashes of their metadata.
Unchanged == \A s \in Sides : source[s] = registration.hash[s]

\* Fault: the sources are not hashed again.
CheckSourcesOnce(here, next) ==
  /\ registration.at = here
  /\ registration' = [registration EXCEPT !.at = next]
  /\ UNCHANGED <<source, scene>>

CheckSources(here, next) ==
  /\ registration.at = here
  /\ IF Unchanged THEN registration' = [registration EXCEPT !.at = next]
                         /\ UNCHANGED <<source, scene>>
     ELSE LET side == IF source["old"] # registration.hash["old"] THEN "old" ELSE "new"
          IN Raise(IF source[side] = "missing" THEN "OSError" ELSE "RasterReadError")

\* persist_registration: the registered raster and its record, or an OSError.
Persist ==
  /\ registration.at = "persist"
  /\ \/ registration' = [registration EXCEPT !.at = "check_again"]
        /\ UNCHANGED <<source, scene>>
     \/ Raise("StorageError")

RegistrationStep ==
  \/ HashFirst("old", "hash_old", "decode_old") \/ Decode("old", "decode_old", "hash_new")
  \/ HashFirst("new", "hash_new", "decode_new") \/ Decode("new", "decode_new", "register")
  \/ Register
  \/ CheckSources("check", "persist") \/ Persist \/ CheckSources("check_again", "done")

Ended == {"done", "CRSMismatchError", "InsufficientOverlapError", "RegistrationQualityError",
          "RegistrationError", "StorageError", "OSError"} \cup DecodeErrors
Running == registration.at \notin Ended \cup {"none"}

\* History: a file that is given back what was hashed, when something else
\* has been decoded, passes for unchanged.
Restores(side, c) ==
  Running /\ c = registration.hash[side] /\ registration.pixels[side] \notin {"none", c}

\* The file gets other content, also what it had before.
Change(side) ==
  \E c \in Originals \ {source[side]} :
    /\ source' = [source EXCEPT ![side] = c]
    /\ registration' = IF Restores(side, c)
                       THEN [registration EXCEPT !.restored = @ \cup {side}] ELSE registration
    /\ UNCHANGED scene

-----------------------------------------------------------------------------
(* RegistrationReliabilityLab.evaluate: what is reported of a run.  A      *)
(* StorageError or OSError is not reported, it leaves evaluate.            *)

Report(r) ==
  LET failed(status, stage, code) ==
        [reliable |-> FALSE, status |-> status, stage |-> stage, reasons |-> {code}]
  IN CASE r.at = "RasterReadError" -> failed("REJECTED", "ingestion", "UNREADABLE_RASTER")
       [] r.at = "RasterMetadataError" ->
            failed("REJECTED", "ingestion", "INVALID_RASTER_METADATA")
       [] r.at = "CRSMissing" -> failed("REJECTED", "ingestion", "MISSING_CRS")
       [] r.at = "CRSMismatchError" -> failed("REJECTED", "geospatial_alignment", "CRS_MISMATCH")
       [] r.at = "InsufficientOverlapError" ->
            failed("REJECTED", "geospatial_alignment", "INSUFFICIENT_GEOGRAPHIC_OVERLAP")
       [] r.at = "RegistrationQualityError" ->
            failed("REJECTED", "geospatial_alignment", "REGISTRATION_INPUT_REJECTED")
       [] r.at = "RegistrationError" ->
            failed("REQUIRES_MANUAL_ALIGNMENT", "visual_refinement", "VISUAL_REGISTRATION_FAILED")
       [] r.at = "done" ->
            LET reliable == r.status \in {"PASS", "PASS_WITH_WARNING"}
            IN [reliable |-> reliable, status |-> r.status,
                stage |-> IF reliable THEN "none"
                          ELSE IF "LARGE_RESOLUTION_MISMATCH" \in r.warnings \/ ~ r.refined
                          THEN "geospatial_alignment" ELSE "visual_refinement",
                reasons |-> r.warnings \cup (IF reliable THEN {} ELSE {"MANUAL_ALIGNMENT_REQUIRED"})]
=============================================================================
