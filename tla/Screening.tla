----------------------------- MODULE Screening -----------------------------
(***************************************************************************)
(* One processing job from its request to its published result             *)
(* (enqueue_processing, _process_job, DefaultPipelineBackend.process):     *)
(* the model and the rules are checked when the job is accepted and loaded *)
(* again when it runs, the images are registered and compared, the change  *)
(* is matched with the municipal records, scored and published.            *)
(*                                                                         *)
(* Meanwhile a model may be saved over the registered one                  *)
(* (ModelArtifacts), the originals may change (Registration), and the      *)
(* context of the municipality may be replaced, also between the two       *)
(* moments at which the job reads it.  Claims, threads and the repository  *)
(* are the subject of JobRunner and DurableJobs.                           *)
(***************************************************************************)
EXTENDS ModelArtifacts, Registration, RiskRules, Sequences

CONSTANTS
  Contexts,     \* municipal contexts that may be registered, one after another
  Requests,     \* model and rules that a request may require
  Registered,   \* model requirements known to register_model
  Captured,     \* day of capture of the newer image
  Days,         \* days on which a job may run
  MinMaskScore, \* MaskDifferenceConfig.minimum_registration_score, in percent
  ComplaintWindow,   \* ComplaintDeduplicationConfig.time_window_days
  Attempts,     \* executions of one job, RetryPolicy.max_attempts
  MaxEvents,    \* bound: saves begun, originals changed, contexts replaced
  None          \* no result, no case

ASSUME ScreeningAssumption == \A c \in Contexts : IsFiniteSet(c.rules)

VARIABLES
  context,   \* repository.contexts[municipality]
  job,       \* where the job stands, its request and its executions
  held,      \* local variables of _process_job
  result,    \* what was published
  seen,      \* history: the contexts since the execution began
  events

screeningVars == <<context, job, held, result, seen, events>>
vars == <<artifactVars, registrationVars, screeningVars>>

NoRequest == [model |-> "none", rules |-> [id |-> "none"]]

ScreeningInit ==
  /\ \E s \in Saves : files = [weights |-> s, onnx |-> s,
                               metadata |-> [of |-> s, weights |-> s, onnx |-> s]]
  /\ saver = Idle
  /\ load = NotLoaded
  /\ RegistrationInit
  /\ context \in Contexts
  /\ job = [at |-> "new", tries |-> 0, request |-> NoRequest]
  /\ held = [rules |-> {}]
  /\ result = None
  /\ seen = {} /\ events = 0

-----------------------------------------------------------------------------
(* The world around the job.                                               *)

RegisterMunicipality(c) ==
  /\ context' = c
  /\ seen' = seen \cup {c}
  /\ UNCHANGED <<artifactVars, registrationVars>>

Event ==
  /\ events < MaxEvents /\ events' = events + 1
  /\ \/ (\E n \in Saves : Begin(n)) /\ UNCHANGED <<registrationVars, context, seen>>
     \/ (\E side \in Sides : Change(side)) /\ UNCHANGED <<artifactVars, context, seen>>
     \/ \E c \in Contexts \ {context} : RegisterMunicipality(c)
  /\ UNCHANGED <<job, held, result>>

Environment ==
  \/ Event
  \/ SaveContinues /\ UNCHANGED <<registrationVars, screeningVars>>

-----------------------------------------------------------------------------
(* enqueue_processing.                                                     *)

Goes(at) == job' = [job EXCEPT !.at = at]

\* The rule set the request names, as the context has it now.
RequestedRules == CompatibleRules(context.rules, job.request.rules, Captured)

Enqueue(r) ==
  /\ job.at = "new"
  /\ IF r.model \in Registered
     THEN ReadMetadata(r.model) /\ job' = [job EXCEPT !.at = "checking", !.request = r]
     ELSE Goes("refused") /\ UNCHANGED artifactVars
  /\ UNCHANGED <<registrationVars, context, held, result, seen, events>>

Accept ==
  /\ job.at = "checking" /\ ~ Loading
  /\ Goes(IF load.at = "loaded" /\ RequestedRules # {} THEN "queued" ELSE "refused")
  /\ UNCHANGED <<artifactVars, registrationVars, context, held, result, seen, events>>

-----------------------------------------------------------------------------
(* _process_job.                                                           *)

\* A StorageError is transient, every other error is final.
Fails(error) == Goes(IF error = "StorageError" /\ job.tries < Attempts THEN "queued" ELSE "failed")

Start ==
  /\ job.at = "queued"
  /\ ReadMetadata(job.request.model)
  /\ job' = [job EXCEPT !.at = "loading", !.tries = @ + 1]
  /\ seen' = {context}
  /\ UNCHANGED <<registrationVars, context, held, result, events>>

LoadStep ==
  /\ job.at \in {"checking", "loading"}
  /\ LoadContinues
  /\ UNCHANGED <<registrationVars, screeningVars>>

\* The rules, then the directory of the job and the paths of the originals:
\* there must be a file, and the storage may fail anyway.
LoadRule ==
  /\ job.at = "loading" /\ ~ Loading
  /\ IF load.at # "loaded"
     THEN Fails(load.at) /\ UNCHANGED <<registrationVars, held>>
     ELSE IF RequestedRules = {}
     THEN Fails("RULE_SET_NOT_AVAILABLE") /\ UNCHANGED <<registrationVars, held>>
     ELSE \/ /\ \A side \in Sides : source[side] # "missing"
             /\ held' = [rules |-> RequestedRules]
             /\ Goes("registering")
             /\ StartRegistration
          \/ Fails("StorageError") /\ UNCHANGED <<registrationVars, held>>
  /\ UNCHANGED <<artifactVars, context, result, seen, events>>

RegisterImages ==
  /\ job.at = "registering" /\ RegistrationStep
  /\ UNCHANGED <<artifactVars, screeningVars>>

TheRules == CHOOSE r \in held.rules : TRUE
Result(level, case) ==
  [level |-> level, model |-> load.session, rules |-> TheRules, request |-> job.request,
   case |-> case]

\* The rest of process: the older original is decoded again, without a look
\* at its hash; both images are segmented and their masks compared.
Segmented ==
  /\ registration.at = "done"
  /\ registration.status # "REQUIRES_MANUAL_ALIGNMENT"
  /\ source["old"] \notin {"unreadable", "missing"}
  /\ scene.fits
  /\ scene.score >= MinMaskScore

\* After the change artifact is written: both masks have a footprint.
Comparable == Segmented /\ scene.old # {} /\ scene.new # {}

\* Regions too small to be one are left out of the change.
ChangedCells == ((scene.new \ scene.old) \cup (scene.old \ scene.new)) \ scene.small

\* Writing the change artifact, or reading the registered raster, may fail.
Compare ==
  /\ job.at = "registering" /\ ~ Running
  /\ \/ /\ ~ Comparable
        /\ Fails(registration.at) /\ UNCHANGED result
     \/ /\ Comparable /\ ChangedCells = {}
        /\ Goes("succeeded") /\ result' = Result("LOW", None)
     \/ /\ Comparable /\ ChangedCells # {}
        /\ Goes("matching") /\ UNCHANGED result
     \/ /\ Segmented
        /\ \E error \in {"StorageError", "RasterioIOError"} : Fails(error)
        /\ UNCHANGED result
  /\ UNCHANGED <<artifactVars, registrationVars, context, held, seen, events>>

\* The context is read a second time: parcels, plans, permits, complaints
\* and boundaries are of this reading, the rules of the first one.
FootprintsOf(parcel) ==
  SelectSeq(context.footprints, LAMBDA f : f.parcel = parcel)
ComplaintsOf(parcel) ==
  SelectSeq(context.complaints, LAMBDA c : c.parcel = parcel)

AreNear(x, y) == x - y <= ComplaintWindow /\ y - x <= ComplaintWindow

\* group_duplicate_complaints raises: two complaints have one id, or a
\* distance must be measured in a CRS that is not projected.
GroupingFails(complaints) ==
  \E i, j \in DOMAIN complaints :
    LET l == complaints[i]  r == complaints[j]
    IN i < j /\ (l.id = r.id \/ (~ l.projected /\ AreNear(l.received, r.received)))

Evidence(day, parcel) ==
  [confidence |-> scene.confidence, score |-> scene.score,
   area |-> Cardinality(ChangedCells), warnings |-> registration.warnings,
   complaints |-> Len(ComplaintsOf(parcel.id)),
   captured |-> Captured, evaluated |-> IF day < Captured THEN Captured ELSE day]

\* What is recorded of a change that lies in a parcel, scored on a day.
Judged(match, day) ==
  LET parcel == match.parcel
      approved == FootprintsOf(parcel.id)[1]
      plan == ComparePlan(approved, scene.old, scene.new, parcel, TheRules.setback,
                          context.boundaries)
      permit == MatchPermit(context.permits, parcel.id, Captured, approved.plan)
  IN [context |-> context, parcel |-> parcel.id, plan |-> approved.plan,
      assessment |-> Assess(Evidence(day, parcel), match, plan, permit, TheRules)]

Score ==
  /\ job.at = "matching"
  /\ LET match == MatchParcel(ChangedCells, context.parcels)
     IN IF ~ match.found \/ FootprintsOf(match.parcel.id) = <<>>
        THEN Fails("RECORD_NOT_FOUND") /\ UNCHANGED held
        ELSE IF GroupingFails(ComplaintsOf(match.parcel.id))
        THEN Fails("PROCESSING_FAILED") /\ UNCHANGED held
        ELSE /\ Goes("publishing")
             /\ \E day \in Days : held' = [rules |-> held.rules, case |-> Judged(match, day)]
  /\ UNCHANGED <<artifactVars, registrationVars, context, result, seen, events>>

\* The newer original is read as evidence and must have its ingested hash;
\* reading the change artifact may fail.
Publish ==
  /\ job.at = "publishing"
  /\ \/ /\ source["new"] = "missing"
        /\ Fails("StorageError") /\ UNCHANGED result
     \/ /\ source["new"] \notin {"missing", "ingested"}
        /\ Fails("EvidenceIntegrityError") /\ UNCHANGED result
     \/ /\ source["new"] = "ingested"
        /\ \E error \in {"StorageError", "OSError"} : Fails(error)
        /\ UNCHANGED result
     \/ /\ source["new"] = "ingested"
        /\ Goes("succeeded")
        /\ result' = Result(held.case.assessment.level, held.case)
  /\ UNCHANGED <<artifactVars, registrationVars, context, held, seen, events>>

ScreeningNext ==
  \/ Environment
  \/ \E r \in Requests : Enqueue(r)
  \/ Accept \/ Start \/ LoadStep \/ LoadRule \/ RegisterImages \/ Compare \/ Score \/ Publish

ScreeningSpec == ScreeningInit /\ [][ScreeningNext]_vars

-----------------------------------------------------------------------------
\* What a published result names is what made it: the rules are those of
\* the request, in force at capture and registered at some moment of the
\* execution, and the model is of the description that was required, although
\* both were checked before the job was queued and may have been replaced
\* since (_load_model, _load_rule, _result).
ResultFollowsRequest ==
  result # None =>
    /\ load.calm => Describes[result.model] = result.request.model
    /\ \E c \in seen :
         /\ {r \in c.rules : r.id = result.request.rules.id} = {result.rules}
         /\ result.rules.version = result.request.rules.version
    /\ result.rules.from <= Captured /\ Captured <= result.rules.until

\* Nothing is published from a registration that the reliability lab would
\* not call reliable, nor from pixels that differ from the file whose hash
\* names the pair, although hashing and decoding are two steps and the
\* originals may change between any two, both of them, over and over.  The
\* sources are compared with their hashes and not with what was decoded: a
\* side that was restored during the run is excepted (pipeline.run,
\* backend.process).
PublishedOnTrustedRegistration ==
  result # None =>
    /\ Report(registration).reliable
    /\ \A side \in Sides \ registration.restored :
         registration.pixels[side] = registration.hash[side]

\* A case carries a permit factor exactly if no permit of its parcel that
\* was valid on the day of capture names the approved plan: neither the day
\* of processing, nor other permits of the parcel, nor their order count
\* (match_permit_at_capture, score_inspection_risk).
JudgedAtCapture ==
  result # None /\ result.case # None =>
    LET case == result.case
        permitted == \E p \in case.context.permits :
                        /\ p.parcel = case.parcel /\ p.plan = case.plan
                        /\ p.from <= Captured /\ Captured <= p.until
    IN permitted <=> {"WRONG_PLAN_VERSION", "ACTIVE_PERMIT_NOT_FOUND"}
                        \cap DOMAIN case.assessment.factors = {}
=============================================================================
