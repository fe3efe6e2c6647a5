-------------------------- MODULE ScreeningProofs --------------------------
(***************************************************************************)
(* What a published result can be trusted for, for any contexts, requests, *)
(* scenes, saves and numbers of events.                                    *)
(*                                                                         *)
(* The artifact: metadata is written last and names the files as they are  *)
(* then, so that whole metadata speaks of one save (Metadata); only a save *)
(* changes files, so what a calm load has hashed is still there when it    *)
(* opens the file a second time (Hashes).                                  *)
(*                                                                         *)
(* The registration: a file is hashed before it is decoded, so pixels that *)
(* differ from the hash betray themselves when the file is hashed again,   *)
(* unless the file has been restored meanwhile (Sighted).                  *)
(*                                                                         *)
(* The job: from the loading of model and rules on, its local variables    *)
(* are what the request asked for and some context since the start of the  *)
(* execution contained (Loaded, Ruled), what it holds of a case was judged *)
(* by the permits of its parcel at capture (Charged), and nothing follows  *)
(* the published result (Published).                                       *)
(***************************************************************************)
EXTENDS Screening, FiniteSetTheorems, TLAPS

-----------------------------------------------------------------------------
(* The model artifact.                                                     *)

\* Metadata that can be parsed names the two files of its own save.
OfOneSave(m) == m.of \in Saves /\ m.weights = m.of /\ m.onnx = m.of

\* A save that has come to a file has written the ones before it.
Writing ==
  /\ saver = Idle \/ (saver.file \in {"weights", "onnx", "metadata"} /\ saver.of \in Saves)
  /\ saver.file \in {"onnx", "metadata"} => files.weights = saver.of
  /\ saver.file = "metadata" => files.onnx = saver.of
  /\ saver.file = "weights" => files.weights \in {Torn, saver.of}
  /\ saver.file = "onnx" => files.onnx \in {Torn, saver.of}

Metadata ==
  /\ IsMetadata(files.metadata) => OfOneSave(files.metadata)
  /\ load.at \in {"weights", "onnx", "parameters", "session", "loaded"} => OfOneSave(load.metadata)

Hashes ==
  load.calm =>
    /\ load.at \in {"onnx", "parameters", "session"} => files.weights = load.metadata.weights
    /\ load.at \in {"parameters", "session"} => files.onnx = load.metadata.onnx
    /\ load.at \in {"session", "loaded"} => load.weights = load.metadata.weights

FileNames == {"weights", "onnx", "metadata"}
LoadFields == {"at", "want", "metadata", "weights", "session", "calm"}
Shaped ==
  /\ files = [f \in FileNames |-> files[f]]
  /\ load = [f \in LoadFields |-> load[f]]
  /\ load.calm \in BOOLEAN

IInv == Shaped /\ Writing /\ Metadata /\ Hashes /\ LoadedIsOneSave

-----------------------------------------------------------------------------
LEMMA Initially == ArtifactInit => IInv
  BY ArtifactAssumption
  DEF ArtifactInit, IInv, Shaped, Writing, Metadata, Hashes, LoadedIsOneSave, Idle, NotLoaded,
      IsMetadata, FileNames, LoadFields

\* A step of a save keeps the invariant: what it writes makes a load in
\* progress no longer calm.
LEMMA SavesKeep ==
  ASSUME IInv, Save
  PROVE  IInv'
<1> USE DEF IInv, Shaped, FileNames, LoadFields
<1>1. ASSUME NEW n \in Saves, Begin(n) PROVE IInv'
  BY <1>1, ArtifactAssumption
  DEF Begin, Open, Disturbed, Loading, Idle, Writing, Metadata, Hashes, LoadedIsOneSave,
      IsMetadata, OfOneSave
<1>2. CASE Write
  BY <1>2, ArtifactAssumption
  DEF Write, Contents, Disturbed, Loading, Idle, Writing, Metadata, Hashes, LoadedIsOneSave,
      IsMetadata, OfOneSave
<1>3. CASE Continue
  <2>1. CASE saver.file = "metadata"
    BY <1>3, <2>1 DEF Continue, Idle, Writing, Metadata, Hashes, LoadedIsOneSave
  <2>2. CASE saver.file = "weights"
    <3>1. Open(saver.of, "onnx") /\ files.weights = saver.of /\ saver.of \in Saves
      BY <1>3, <2>2 DEF Continue, NextFile, Writing, Idle
    <3> QED
      BY <3>1
      DEF Open, Disturbed, Loading, Idle, Writing, Metadata, Hashes, LoadedIsOneSave
  <2>3. CASE saver.file = "onnx"
    <3>1. Open(saver.of, "metadata") /\ files.onnx = saver.of /\ saver.of \in Saves
      BY <1>3, <2>3 DEF Continue, NextFile, Writing, Idle
    <3>2. files.weights = saver.of
      BY <2>3 DEF Writing
    <3> QED
      BY <3>1, <3>2, <2>3
      DEF Open, Disturbed, Loading, Idle, Writing, Metadata, Hashes, LoadedIsOneSave, IsMetadata
  <2> QED
    BY <1>3, <2>1, <2>2, <2>3 DEF Continue, Writing
<1>4. CASE SaveStops
  BY <1>4, ArtifactAssumption
  DEF SaveStops, Idle, Writing, Metadata, Hashes, LoadedIsOneSave, IsMetadata, OfOneSave
<1> QED
  BY <1>1, <1>2, <1>3, <1>4 DEF Save, SaveContinues

LEMMA LoadsKeep ==
  ASSUME IInv, (\E want : ReadMetadata(want)) \/ LoadContinues
  PROVE  IInv'
<1> USE DEF IInv, Shaped, FileNames, LoadFields, OfOneSave
<1>1. ASSUME NEW want, ReadMetadata(want) PROVE IInv'
  BY <1>1, ArtifactAssumption
  DEF ReadMetadata, NotLoaded, Writing, Metadata, Hashes, LoadedIsOneSave
<1>2. CASE HashWeights
  BY <1>2 DEF HashWeights, Hashed, Refused, Writing, Metadata, Hashes, LoadedIsOneSave
<1>3. CASE HashOnnx
  BY <1>3 DEF HashOnnx, Hashed, Refused, Writing, Metadata, Hashes, LoadedIsOneSave
<1>4. CASE LoadWeights
  <2>1. CASE Fits("weights")
    <3>1. files.weights \in Saves /\ load' = [load EXCEPT !.at = "session", !.weights = files.weights]
      BY <1>4, <2>1 DEF LoadWeights, Fits
    <3> QED
      BY <1>4, <3>1 DEF LoadWeights, Writing, Metadata, Hashes, LoadedIsOneSave
  <2>2. CASE ~ Fits("weights")
    BY <1>4, <2>2 DEF LoadWeights, FailsToLoad, Refused, Writing, Metadata, Hashes, LoadedIsOneSave
  <2> QED
    BY <2>1, <2>2
<1>5. CASE OpenSession
  <2>1. CASE Fits("onnx") /\ Compatible
    <3>1. /\ load.at = "session" /\ UNCHANGED <<files, saver>>
          /\ load' = [load EXCEPT !.at = "loaded", !.session = files.onnx]
      BY <1>5, <2>1 DEF OpenSession
    <3>2. LoadedIsOneSave'
      <4>1. ASSUME load.calm PROVE files.onnx = load.metadata.of /\ load.weights = load.metadata.of
        BY <3>1, <4>1 DEF Metadata, Hashes
      <4>2. /\ load'.metadata = load.metadata /\ load'.weights = load.weights
            /\ load'.want = load.want /\ load'.calm = load.calm /\ load'.session = files.onnx
        BY <3>1
      <4> QED
        BY <2>1, <4>1, <4>2 DEF LoadedIsOneSave, Compatible
    <3> QED
      BY <3>1, <3>2 DEF Writing, Metadata, Hashes
  <2>2. CASE ~ (Fits("onnx") /\ Compatible)
    BY <1>5, <2>2 DEF OpenSession, FailsToLoad, Refused, Writing, Metadata, Hashes, LoadedIsOneSave
  <2> QED
    BY <2>1, <2>2
<1> QED
  BY <1>1, <1>2, <1>3, <1>4, <1>5 DEF LoadContinues

\* However saves are interrupted, a load that no write overlaps yields the
\* weights, graph and metadata of one save (save_model_artifact,
\* load_model_artifact).
THEOREM LoadsAreWhole == ArtifactSpec => []LoadedIsOneSave
<1>1. IInv /\ [ArtifactNext]_artifactVars => IInv'
  <2> SUFFICES ASSUME IInv, [ArtifactNext]_artifactVars PROVE IInv'
    OBVIOUS
  <2>1. CASE ArtifactNext
    BY <2>1, SavesKeep, LoadsKeep DEF ArtifactNext
  <2>2. CASE UNCHANGED artifactVars
    BY <2>2
    DEF artifactVars, IInv, Shaped, Writing, Metadata, Hashes, LoadedIsOneSave
  <2> QED
    BY <2>1, <2>2
<1>2. IInv => LoadedIsOneSave
  BY DEF IInv
<1> QED
  BY <1>1, <1>2, Initially, PTL DEF ArtifactSpec

-----------------------------------------------------------------------------
(* The job.                                                                *)

RegistrationFields == {"at", "hash", "pixels", "status", "warnings", "refined", "restored"}
JobFields == {"at", "tries", "request"}

Typed ==
  /\ source \in [Sides -> Originals]
  /\ registration = [f \in RegistrationFields |-> registration[f]]
  /\ registration.hash \in [Sides -> Originals \cup {"none"}]
  /\ registration.pixels \in [Sides -> Originals \cup {"none"}]
  /\ job = [f \in JobFields |-> job[f]]
  /\ context \in Contexts /\ seen \subseteq Contexts

Final == {"persist", "check_again", "done"}
Seen == {"register", "check"} \cup Final
Verdicts == {"PASS", "PASS_WITH_WARNING", "REQUIRES_MANUAL_ALIGNMENT"}

\* Progress: a side is hashed, then decoded; while the run goes on, the file
\* of a side whose pixels differ from the hash differs from it too, or has
\* been restored.
Sighted ==
  /\ Running =>
       \A s \in Sides \ registration.restored :
         registration.pixels[s] \in {"none", registration.hash[s]} \/ source[s] # registration.hash[s]
  /\ registration.at = "hash_old" => registration.pixels["old"] = "none"
  /\ registration.at \in {"hash_old", "decode_old", "hash_new"} => registration.pixels["new"] = "none"
  /\ registration.at \in {"decode_old", "hash_new", "decode_new"} \cup Seen =>
       registration.hash["old"] # "none"
  /\ registration.at \in {"decode_new"} \cup Seen => registration.hash["new"] # "none"
  /\ registration.at \in {"hash_new", "decode_new"} \cup Seen => registration.pixels["old"] # "none"
  /\ registration.at \in Seen => registration.pixels["new"] # "none"
  /\ registration.at \in {"check"} \cup Final => registration.status \in Verdicts
  /\ registration.at \in Final =>
       \A s \in Sides \ registration.restored : registration.pixels[s] = registration.hash[s]

Compared == {"matching", "publishing", "succeeded"}
Judging == {"registering"} \cup Compared

Trusted ==
  job.at \in Compared =>
    registration.at = "done" /\ registration.status \in {"PASS", "PASS_WITH_WARNING"}

Loaded ==
  /\ job.at \in {"checking", "loading"} \cup Judging => load.want = job.request.model
  /\ job.at \in Judging => load.at = "loaded"

Ruled ==
  /\ job.at \in {"loading"} \cup Judging => context \in seen
  /\ job.at \in Judging =>
       \E c \in seen : /\ held.rules = CompatibleRules(c.rules, job.request.rules, Captured)
                       /\ held.rules # {}

\* A case is charged with a permit factor exactly if no permit of its parcel
\* that is valid at capture names the approved plan.
JudgedWell(case) ==
  (\E p \in case.context.permits :
      /\ p.parcel = case.parcel /\ p.plan = case.plan
      /\ p.from <= Captured /\ Captured <= p.until)
    <=> {"WRONG_PLAN_VERSION", "ACTIVE_PERMIT_NOT_FOUND"}
          \cap DOMAIN case.assessment.factors = {}

Charged ==
  /\ job.at = "publishing" => JudgedWell(held.case)
  /\ result # None /\ result.case # None => JudgedWell(result.case)

Published ==
  result # None =>
    /\ job.at = "succeeded"
    /\ result.model = load.session
    /\ result.request = job.request
    /\ result.rules = TheRules

SInv == IInv /\ Typed /\ Sighted /\ Trusted /\ Loaded /\ Ruled /\ Published /\ Charged

-----------------------------------------------------------------------------
LEMMA ScreeningInitially == ScreeningInit => SInv
<1> SUFFICES ASSUME ScreeningInit PROVE SInv
  OBVIOUS
<1>1. IInv
  BY ArtifactAssumption
  DEF ScreeningInit, IInv, Shaped, Writing, Metadata, Hashes, LoadedIsOneSave, Idle, NotLoaded,
      IsMetadata, OfOneSave, FileNames, LoadFields
<1>2. Typed /\ Sighted
  BY DEF ScreeningInit, RegistrationInit, NotRun, Typed, Sighted, Sides, Originals,
         RegistrationFields, JobFields, Seen, Final
<1>3. Trusted /\ Loaded /\ Ruled /\ Published /\ Charged
  BY DEF ScreeningInit, Trusted, Loaded, Ruled, Published, Charged, Compared, Judging
<1> QED
  BY <1>1, <1>2, <1>3 DEF SInv

-----------------------------------------------------------------------------
(* The registration.                                                       *)

RegTyped ==
  /\ source \in [Sides -> Originals]
  /\ registration = [f \in RegistrationFields |-> registration[f]]
  /\ registration.hash \in [Sides -> Originals \cup {"none"}]
  /\ registration.pixels \in [Sides -> Originals \cup {"none"}]

LEMMA StatusIsVerdict == \A s : Outcome(s).status \in Verdicts
  BY DEF Outcome, Verdicts

\* What a step of the registration leaves of the progress, if it stops it.
LEMMA RaiseKept ==
  ASSUME RegTyped, Sighted, NEW error \in Ended \ {"done"}, Raise(error)
  PROVE  RegTyped' /\ Sighted'
<1>1. /\ registration'.at = error /\ source' = source
      /\ registration' = [f \in RegistrationFields |-> registration'[f]]
      /\ registration'.hash = registration.hash /\ registration'.pixels = registration.pixels
  BY DEF Raise, RegTyped, RegistrationFields
<1>2. error \notin {"hash_old", "decode_old", "hash_new", "decode_new"} \cup Seen
  BY DEF Ended, DecodeErrors, Seen, Final
<1>3. ~ Running'
  BY <1>1 DEF Running
<1> QED
  BY <1>1, <1>2, <1>3 DEF RegTyped, Sighted, Final, Seen

LEMMA RegistrationKept ==
  ASSUME RegTyped, Sighted,
         RegistrationStep \/ StartRegistration \/ (\E side \in Sides : Change(side))
  PROVE  RegTyped' /\ Sighted'
<1> USE DEF RegTyped, RegistrationFields
<1>1. CASE StartRegistration
  <2>1. /\ source' = source /\ registration'.at = "hash_old"
        /\ registration' = [f \in RegistrationFields |-> registration'[f]]
        /\ registration'.hash = [s \in Sides |-> "none"]
        /\ registration'.pixels = [s \in Sides |-> "none"]
    BY <1>1 DEF StartRegistration, NotRun
  <2> QED
    BY <2>1 DEF Sighted, Sides, Seen, Final
<1>2. ASSUME NEW side \in Sides, Change(side) PROVE RegTyped' /\ Sighted'
  <2>1. PICK c \in Originals \ {source[side]} :
          /\ source' = [source EXCEPT ![side] = c]
          /\ registration' = IF Restores(side, c)
                             THEN [registration EXCEPT !.restored = @ \cup {side}]
                             ELSE registration
    BY <1>2 DEF Change
  <2>2. /\ registration' = [f \in RegistrationFields |-> registration'[f]]
        /\ registration'.at = registration.at /\ registration'.hash = registration.hash
        /\ registration'.pixels = registration.pixels
        /\ registration'.status = registration.status
        /\ registration'.restored = IF Restores(side, c) THEN registration.restored \cup {side}
                                    ELSE registration.restored
    BY <2>1
  <2>3. source' \in [Sides -> Originals]
    BY <2>1
  <2>4. Running' =>
          \A s \in Sides \ registration'.restored :
            registration'.pixels[s] \in {"none", registration'.hash[s]} \/ source'[s] # registration'.hash[s]
    <3> SUFFICES ASSUME Running', NEW s \in Sides, s \notin registration'.restored
                 PROVE  registration.pixels[s] \in {"none", registration.hash[s]}
                          \/ source'[s] # registration.hash[s]
      BY <2>2
    <3>1. Running /\ s \notin registration.restored
      BY <2>2 DEF Running
    <3>2. CASE s = side
      BY <2>1, <2>2, <3>1, <3>2 DEF Restores
    <3>3. CASE s # side
      BY <2>1, <3>1, <3>3 DEF Sighted
    <3> QED
      BY <3>2, <3>3
  <2>5. registration'.at \in Final =>
          \A s \in Sides \ registration'.restored : registration'.pixels[s] = registration'.hash[s]
    BY <2>2 DEF Sighted
  <2> QED
    BY <2>2, <2>3, <2>4, <2>5 DEF Sighted
<1>3. ASSUME NEW side \in Sides, NEW here, NEW next, HashFirst(side, here, next),
             \/ side = "old" /\ here = "hash_old" /\ next = "decode_old"
             \/ side = "new" /\ here = "hash_new" /\ next = "decode_new"
      PROVE  RegTyped' /\ Sighted'
  <2>1. CASE Raise("RasterReadError")
    BY <2>1, RaiseKept DEF Ended, DecodeErrors
  <2>2. CASE /\ registration' = [registration EXCEPT !.at = next, !.hash[side] = source[side]]
             /\ source' = source
    <3>1. /\ registration' = [f \in RegistrationFields |-> registration'[f]]
          /\ registration'.at = next /\ registration'.restored = registration.restored
          /\ registration'.hash = [registration.hash EXCEPT ![side] = source[side]]
          /\ registration'.pixels = registration.pixels
      BY <2>2
    <3>2. registration.at = here /\ Running
      BY <1>3 DEF HashFirst, Running, Ended, DecodeErrors
    <3>3. registration.pixels[side] = "none"
      BY <1>3, <3>2 DEF Sighted
    <3> QED
      BY <1>3, <2>2, <3>1, <3>2, <3>3 DEF Sighted, Sides, Originals, Seen, Final
  <2> QED
    BY <1>3, <2>1, <2>2 DEF HashFirst
<1>4. ASSUME NEW side \in Sides, NEW here, NEW next, Decode(side, here, next),
             \/ side = "old" /\ here = "decode_old" /\ next = "hash_new"
             \/ side = "new" /\ here = "decode_new" /\ next = "register"
      PROVE  RegTyped' /\ Sighted'
  <2>1. ASSUME NEW error \in DecodeErrors, Raise(error) PROVE RegTyped' /\ Sighted'
    BY <2>1, RaiseKept DEF Ended, DecodeErrors
  <2>2. CASE /\ registration' = [registration EXCEPT !.at = next, !.pixels[side] = source[side]]
             /\ source' = source
    <3>1. /\ registration' = [f \in RegistrationFields |-> registration'[f]]
          /\ registration'.at = next /\ registration'.restored = registration.restored
          /\ registration'.hash = registration.hash
          /\ registration'.pixels = [registration.pixels EXCEPT ![side] = source[side]]
      BY <2>2
    <3>2. registration.at = here /\ Running
      BY <1>4 DEF Decode, Running, Ended, DecodeErrors
    <3> QED
      BY <1>4, <2>2, <3>1, <3>2 DEF Sighted, Sides, Originals, Seen, Final
  <2> QED
    BY <1>4, <2>1, <2>2 DEF Decode, DecodeErrors
<1>5. CASE Register
  <2>1. CASE Refusal(scene) # "none" /\ Raise(Refusal(scene))
    <3>1. Refusal(scene) \in Ended \ {"done"}
      BY <2>1 DEF Refusal, GridRefusal, Ended
    <3> QED
      BY <2>1, <3>1, RaiseKept
  <2>2. CASE /\ registration' =
                  [registration EXCEPT !.at = "check", !.status = Outcome(scene).status,
                                       !.warnings = Outcome(scene).warnings, !.refined = scene.refining]
             /\ source' = source
    <3>1. /\ registration' = [f \in RegistrationFields |-> registration'[f]]
          /\ registration'.at = "check" /\ registration'.restored = registration.restored
          /\ registration'.hash = registration.hash /\ registration'.pixels = registration.pixels
          /\ registration'.status \in Verdicts
      BY <2>2, StatusIsVerdict
    <3>2. registration.at = "register" /\ Running
      BY <1>5 DEF Register, Running, Ended, DecodeErrors
    <3> QED
      BY <2>2, <3>1, <3>2 DEF Sighted, Seen, Final
  <2> QED
    BY <1>5, <2>1, <2>2 DEF Register
<1>6. ASSUME NEW here, NEW next, CheckSources(here, next),
             \/ here = "check" /\ next = "persist"
             \/ here = "check_again" /\ next = "done"
      PROVE  RegTyped' /\ Sighted'
  <2>1. ASSUME NEW error \in {"OSError", "RasterReadError"}, Raise(error)
        PROVE  RegTyped' /\ Sighted'
    BY <2>1, RaiseKept DEF Ended, DecodeErrors
  <2>2. CASE Unchanged /\ registration' = [registration EXCEPT !.at = next] /\ source' = source
    <3>1. /\ registration' = [f \in RegistrationFields |-> registration'[f]]
          /\ registration'.at = next /\ registration'.restored = registration.restored
          /\ registration'.hash = registration.hash /\ registration'.pixels = registration.pixels
          /\ registration'.status = registration.status
      BY <2>2
    <3>2. registration.at = here /\ Running /\ registration.at \in Seen
      BY <1>6 DEF CheckSources, Running, Ended, DecodeErrors, Seen, Final
    <3>3. \A s \in Sides \ registration.restored : registration.pixels[s] = registration.hash[s]
      BY <2>2, <3>2 DEF Sighted, Unchanged, Sides, Seen
    <3> QED
      BY <1>6, <2>2, <3>1, <3>2, <3>3 DEF Sighted, Seen, Final
  <2> QED
    BY <1>6, <2>1, <2>2 DEF CheckSources
<1>7. CASE Persist
  <2>1. CASE Raise("StorageError")
    BY <2>1, RaiseKept DEF Ended
  <2>2. CASE registration' = [registration EXCEPT !.at = "check_again"] /\ source' = source
    <3>1. /\ registration' = [f \in RegistrationFields |-> registration'[f]]
          /\ registration'.at = "check_again" /\ registration'.restored = registration.restored
          /\ registration'.hash = registration.hash /\ registration'.pixels = registration.pixels
          /\ registration'.status = registration.status
      BY <2>2
    <3>2. registration.at = "persist" /\ Running
      BY <1>7 DEF Persist, Running, Ended, DecodeErrors
    <3> QED
      BY <2>2, <3>1, <3>2 DEF Sighted, Seen, Final
  <2> QED
    BY <1>7, <2>1, <2>2 DEF Persist
<1> QED
  BY <1>1, <1>2, <1>3, <1>4, <1>5, <1>6, <1>7 DEF RegistrationStep, Sides

-----------------------------------------------------------------------------
(* The steps of a screening.                                               *)

LEMMA ArtifactKept ==
  ASSUME IInv, [ScreeningNext]_vars
  PROVE  IInv'
<1>1. \/ Save \/ (\E want : ReadMetadata(want)) \/ LoadContinues \/ UNCHANGED artifactVars
  BY DEF ScreeningNext, Environment, Event, Save, RegisterMunicipality, Enqueue, Accept, Start,
         LoadStep, LoadRule, RegisterImages, Compare, Score, Publish, vars
<1>2. CASE UNCHANGED artifactVars
  BY <1>2 DEF artifactVars, IInv, Shaped, Writing, Metadata, Hashes, LoadedIsOneSave
<1> QED
  BY <1>1, <1>2, SavesKeep, LoadsKeep

LEMMA TypedKept ==
  ASSUME Typed, Sighted, [ScreeningNext]_vars
  PROVE  Typed' /\ Sighted'
<1>1. RegTyped
  BY DEF Typed, RegTyped
<1>2. \/ RegistrationStep \/ StartRegistration \/ (\E side \in Sides : Change(side))
      \/ UNCHANGED registrationVars
  BY DEF ScreeningNext, Environment, Event, RegisterMunicipality, Enqueue, Accept, Start,
         LoadStep, LoadRule, RegisterImages, Compare, Score, Publish, vars
<1>3. RegTyped' /\ Sighted'
  <2>1. CASE UNCHANGED registrationVars
    BY <1>1, <2>1 DEF registrationVars, RegTyped, Sighted, Running, Seen, Final
  <2> QED
    BY <1>1, <1>2, <2>1, RegistrationKept
<1>4. job' = [f \in JobFields |-> job'[f]]
  BY DEF ScreeningNext, Environment, Event, RegisterMunicipality, Enqueue, Accept, Start,
         LoadStep, LoadRule, RegisterImages, Compare, Score, Publish, vars, screeningVars, Goes,
         Fails, Typed, JobFields
<1>5. context' \in Contexts /\ seen' \subseteq Contexts
  BY DEF ScreeningNext, Environment, Event, RegisterMunicipality, Enqueue, Accept, Start,
         LoadStep, LoadRule, RegisterImages, Compare, Score, Publish, vars, screeningVars, Typed
<1> QED
  BY <1>3, <1>4, <1>5 DEF Typed, RegTyped

\* Nothing outside the job changes what the job rests on.
LEMMA WorldKeeps ==
  ASSUME SInv, Environment
  PROVE  (Trusted /\ Loaded /\ Ruled /\ Published)'
<1>1. /\ UNCHANGED <<job, held, result>>
      /\ registration'.at = registration.at /\ registration'.status = registration.status
  BY DEF Environment, Event, Change, RegisterMunicipality, registrationVars, screeningVars, SInv,
         Typed, RegistrationFields
<1>2. load'.at = load.at /\ load'.want = load.want /\ load'.session = load.session
  BY DEF Environment, Event, Begin, Open, SaveContinues, Write, Continue, SaveStops, Disturbed,
         RegisterMunicipality, artifactVars, SInv, IInv, Shaped, LoadFields
<1>3. seen \subseteq seen' /\ (context \in seen => context' \in seen')
  BY DEF Environment, Event, RegisterMunicipality, screeningVars
<1> QED
  BY <1>1, <1>2, <1>3 DEF SInv, Trusted, Loaded, Ruled, Published, TheRules

LEMMA JobKeeps ==
  ASSUME SInv,
         \/ \E r \in Requests : Enqueue(r)
         \/ Accept \/ Start \/ LoadStep \/ LoadRule \/ RegisterImages \/ Compare \/ Score \/ Publish
  PROVE  (Trusted /\ Loaded /\ Ruled /\ Published)'
<1> USE DEF SInv, Typed, JobFields, Compared, Judging
<1>1. ASSUME NEW r \in Requests, Enqueue(r) PROVE (Trusted /\ Loaded /\ Ruled /\ Published)'
  <2>1. /\ job.at = "new" /\ UNCHANGED <<registration, context, held, result, seen>>
        /\ \/ job'.at = "refused" /\ UNCHANGED load
           \/ job'.at = "checking" /\ job'.request = r /\ load'.want = r.model
    BY <1>1 DEF Enqueue, ReadMetadata, NotLoaded, Goes, artifactVars, registrationVars
  <2>2. result = None
    BY <2>1 DEF Published
  <2> QED
    BY <2>1, <2>2 DEF Trusted, Loaded, Ruled, Published
<1>2. CASE Accept
  BY <1>2 DEF Accept, Goes, artifactVars, Trusted, Loaded, Ruled, Published
<1>3. CASE Start
  BY <1>3 DEF Start, ReadMetadata, NotLoaded, Trusted, Loaded, Ruled, Published
<1>4. CASE LoadStep
  <2>1. load'.want = load.want
    BY <1>4 DEF LoadStep, LoadContinues, HashWeights, HashOnnx, Hashed, LoadWeights, OpenSession,
                FailsToLoad, Refused, IInv, Shaped, LoadFields
  <2> QED
    BY <1>4, <2>1 DEF LoadStep, screeningVars, registrationVars, Trusted, Loaded, Ruled, Published
<1>5. CASE LoadRule
  <2>1. /\ job.at = "loading" /\ job'.request = job.request
        /\ UNCHANGED <<load, context, seen, result>>
    BY <1>5 DEF LoadRule, Fails, Goes, artifactVars
  <2>2. \/ job'.at \in {"queued", "failed"}
        \/ /\ load.at = "loaded" /\ job'.at = "registering"
           /\ held'.rules = RequestedRules /\ RequestedRules # {}
    BY <1>5 DEF LoadRule, Fails, Goes
  <2>3. result = None
    BY <2>1 DEF Published
  <2>4. Trusted' /\ Published'
    BY <2>1, <2>2, <2>3 DEF Trusted, Published
  <2>5. Loaded'
    BY <2>1, <2>2 DEF Loaded
  <2>6. Ruled'
    BY <2>1, <2>2 DEF Ruled, RequestedRules
  <2> QED
    BY <2>4, <2>5, <2>6
<1>6. CASE RegisterImages
  BY <1>6 DEF RegisterImages, screeningVars, artifactVars, Trusted, Loaded, Ruled, Published
<1>7. CASE Compare
  <2>1. Comparable => registration.at = "done" /\ registration.status \in {"PASS", "PASS_WITH_WARNING"}
    BY DEF Comparable, Segmented, Sighted, Verdicts, Final
  <2>2. result # result' => result' = Result("LOW", None) /\ job'.at = "succeeded" /\ Comparable
    BY <1>7 DEF Compare, Goes, Fails
  <2> QED
    BY <1>7, <2>1, <2>2 DEF Compare, Fails, Goes, Result, TheRules, artifactVars,
              registrationVars, Trusted, Loaded, Ruled, Published
<1>8. CASE Score
  <2>1. /\ job.at = "matching"
        /\ held'.rules = held.rules /\ UNCHANGED <<load, registration, context, seen, result>>
    BY <1>8 DEF Score, artifactVars, registrationVars
  <2>2. job'.at \in {"publishing", "failed", "queued"} /\ job'.request = job.request
    BY <1>8 DEF Score, Goes, Fails
  <2>3. result = None
    BY <2>1 DEF Published
  <2>4. Trusted' /\ Published'
    BY <2>1, <2>2, <2>3 DEF Trusted, Published
  <2>5. Loaded'
    BY <2>1, <2>2 DEF Loaded
  <2>6. Ruled'
    BY <2>1, <2>2 DEF Ruled
  <2> QED
    BY <2>4, <2>5, <2>6
<1>9. CASE Publish
  BY <1>9 DEF Publish, Fails, Goes, Result, TheRules, artifactVars, registrationVars, Trusted,
              Loaded, Ruled, Published
<1> QED
  BY <1>1, <1>2, <1>3, <1>4, <1>5, <1>6, <1>7, <1>8, <1>9

-----------------------------------------------------------------------------
(* The judgement of a case.                                                *)

\* A permit matches exactly if one of the parcel, valid at the date, names
\* the plan; the other outcomes only say why none does.
LEMMA PermitMatches ==
  \A permits, parcel, date, plan :
    MatchPermit(permits, parcel, date, plan) = "valid_match"
      <=> \E p \in permits : p.parcel = parcel /\ ValidAt(p, date) /\ p.plan = plan
  BY DEF MatchPermit

\* One of the two permit factors applies to every other outcome.
LEMMA PermitFactors ==
  ASSUME NEW e, NEW match, NEW plan, NEW permit, NEW rules
  PROVE  LET codes == DOMAIN Factors(e, match, plan, permit, rules) IN
         /\ "WRONG_PLAN_VERSION" \in codes <=> permit = "wrong_plan_version"
         /\ "ACTIVE_PERMIT_NOT_FOUND" \in codes
              <=> permit \notin {"wrong_plan_version", "valid_match"}
<1> DEFINE points == Points(e, match, plan, rules)
<1>1. {"WRONG_PLAN_VERSION", "ACTIVE_PERMIT_NOT_FOUND"} \subseteq DOMAIN points
  BY DEF Points
<1>2. Applies("WRONG_PLAN_VERSION", e, match, plan, permit, rules)
        <=> permit = "wrong_plan_version"
  BY DEF Applies
<1>3. Applies("ACTIVE_PERMIT_NOT_FOUND", e, match, plan, permit, rules)
        <=> permit \notin {"wrong_plan_version", "valid_match"}
  BY DEF Applies
<1> HIDE DEF points
<1>4. DOMAIN Factors(e, match, plan, permit, rules)
        = {k \in DOMAIN points : Applies(k, e, match, plan, permit, rules)}
  BY DEF Factors, points
<1> QED
  BY <1>1, <1>2, <1>3, <1>4

LEMMA JudgedCorrectly ==
  ASSUME NEW match, NEW day
  PROVE  JudgedWell(Judged(match, day))
<1> DEFINE case == Judged(match, day)
           permit == MatchPermit(context.permits, case.parcel, Captured, case.plan)
<1>1. \E e, plan, rules : case.assessment = Assess(e, match, plan, permit, rules)
  BY DEF Judged
<1>2. \E e, plan, rules : case.assessment.factors = Factors(e, match, plan, permit, rules)
  BY <1>1 DEF Assess
<1>3. case.context = context
  BY DEF Judged
<1> HIDE DEF case
<1>4. permit = "valid_match"
        <=> \E p \in context.permits : p.parcel = case.parcel /\ ValidAt(p, Captured) /\ p.plan = case.plan
  BY PermitMatches
<1> HIDE DEF permit
<1>5. permit = "valid_match"
        <=> {"WRONG_PLAN_VERSION", "ACTIVE_PERMIT_NOT_FOUND"} \cap DOMAIN case.assessment.factors = {}
  BY <1>2, PermitFactors
<1> QED
  BY <1>3, <1>4, <1>5 DEF JudgedWell, ValidAt, case

\* What the job holds of a case is judged when the change is scored, and is
\* published as it is.
LEMMA ChargedKept ==
  ASSUME SInv, [ScreeningNext]_vars
  PROVE  Charged'
<1> USE DEF SInv, Typed, JobFields
<1>1. CASE Environment \/ LoadStep \/ RegisterImages \/ UNCHANGED vars
  <2>1. UNCHANGED <<job, held, result>>
    BY <1>1 DEF Environment, Event, LoadStep, RegisterImages, screeningVars, vars
  <2> QED
    BY <2>1 DEF Charged, JudgedWell
<1>2. CASE (\E r \in Requests : Enqueue(r)) \/ Accept \/ Start \/ LoadRule
  <2>1. job'.at # "publishing" /\ UNCHANGED result
    BY <1>2 DEF Enqueue, Accept, Start, LoadRule, Goes, Fails
  <2> QED
    BY <2>1 DEF Charged, JudgedWell
<1>3. CASE Compare
  <2>1. job'.at # "publishing"
    BY <1>3 DEF Compare, Goes, Fails
  <2>2. result' = result \/ result' = Result("LOW", None)
    BY <1>3 DEF Compare
  <2>3. Result("LOW", None).case = None
    BY DEF Result
  <2> QED
    BY <2>1, <2>2, <2>3 DEF Charged, JudgedWell
<1>4. CASE Score
  <2>1. UNCHANGED result
    BY <1>4 DEF Score
  <2>2. job'.at = "publishing" =>
          \E match, day : held' = [rules |-> held.rules, case |-> Judged(match, day)]
    BY <1>4 DEF Score, Goes, Fails
  <2>3. job'.at = "publishing" => \E match, day : held'.case = Judged(match, day)
    BY <2>2
  <2> QED
    BY <2>1, <2>3, JudgedCorrectly DEF Charged, JudgedWell
<1>5. CASE Publish
  <2>1. job'.at # "publishing" /\ job.at = "publishing"
    BY <1>5 DEF Publish, Goes, Fails
  <2>2. result' = result \/ result' = Result(held.case.assessment.level, held.case)
    BY <1>5 DEF Publish
  <2>3. Result(held.case.assessment.level, held.case).case = held.case
    BY DEF Result
  <2> QED
    BY <2>1, <2>2, <2>3 DEF Charged, JudgedWell
<1> QED
  BY <1>1, <1>2, <1>3, <1>4, <1>5 DEF ScreeningNext

-----------------------------------------------------------------------------
LEMMA Inductive == SInv /\ [ScreeningNext]_vars => SInv'
<1> SUFFICES ASSUME SInv, [ScreeningNext]_vars PROVE SInv'
  OBVIOUS
<1>1. IInv' /\ Typed' /\ Sighted'
  BY ArtifactKept, TypedKept DEF SInv
<1>2. (Trusted /\ Loaded /\ Ruled /\ Published)'
  <2>1. CASE UNCHANGED vars
    BY <2>1 DEF vars, artifactVars, registrationVars, screeningVars, SInv, Trusted, Loaded, Ruled,
                Published, TheRules
  <2> QED
    BY <2>1, WorldKeeps, JobKeeps DEF ScreeningNext
<1>3. Charged'
  BY ChargedKept
<1> QED
  BY <1>1, <1>2, <1>3 DEF SInv

-----------------------------------------------------------------------------
\* Whatever is published stands on a registration that the reliability lab
\* calls reliable, of the pixels whose hashes name the pair, although the
\* originals may change between any two steps, any number of times, except
\* for a side that was restored during the run to what had been hashed.
THEOREM TrustedRegistration == ScreeningSpec => []PublishedOnTrustedRegistration
<1>1. SInv => PublishedOnTrustedRegistration
  <2> SUFFICES ASSUME SInv, result # None PROVE PublishedOnTrustedRegistration
    BY DEF PublishedOnTrustedRegistration
  <2>1. registration.at = "done" /\ registration.status \in {"PASS", "PASS_WITH_WARNING"}
    BY DEF SInv, Published, Trusted, Compared
  <2>2. Report(registration).reliable
    BY <2>1 DEF Report
  <2>3. \A side \in Sides \ registration.restored :
          registration.pixels[side] = registration.hash[side]
    BY <2>1 DEF SInv, Sighted, Final
  <2> QED
    BY <2>2, <2>3 DEF PublishedOnTrustedRegistration
<1> QED
  BY <1>1, ScreeningInitially, Inductive, PTL DEF ScreeningSpec

\* Model and rules of a published result are those its request named, in
\* force at capture and registered during the execution, whatever is saved
\* or replaced meanwhile.
THEOREM NamedIsUsed == ScreeningSpec => []ResultFollowsRequest
<1>1. SInv => ResultFollowsRequest
  <2> SUFFICES ASSUME SInv, result # None PROVE ResultFollowsRequest
    BY DEF ResultFollowsRequest
  <2>1. load.calm => Describes[result.model] = result.request.model
    BY DEF SInv, Published, Loaded, Judging, Compared, IInv, LoadedIsOneSave
  <2>2. PICK c \in seen :
          held.rules = CompatibleRules(c.rules, job.request.rules, Captured) /\ held.rules # {}
    BY DEF SInv, Published, Ruled, Judging, Compared
  <2> DEFINE named == {r \in c.rules : r.id = job.request.rules.id}
  <2>3. result.rules \in held.rules /\ result.request = job.request
    BY <2>2 DEF SInv, Published, TheRules
  <2>4. /\ result.rules \in named /\ Cardinality(named) = 1
        /\ result.rules.version = job.request.rules.version
        /\ InForce(result.rules, Captured)
    BY <2>2, <2>3 DEF CompatibleRules
  <2>5. IsFiniteSet(named)
    <3>1. IsFiniteSet(c.rules)
      BY <2>2, ScreeningAssumption DEF SInv, Typed
    <3> QED
      BY <3>1, FS_Subset
  <2>6. named = {result.rules}
    BY <2>4, <2>5, FS_Singleton
  <2> QED
    BY <2>1, <2>2, <2>3, <2>4, <2>6 DEF ResultFollowsRequest, InForce
<1> QED
  BY <1>1, ScreeningInitially, Inductive, PTL DEF ScreeningSpec

\* A case is charged with a permit factor exactly if no permit of its parcel
\* that was valid on the day of capture names the approved plan, whatever
\* the order and number of permits, the day of the run and the contexts
\* registered meanwhile (match_permit_at_capture, score_inspection_risk).
THEOREM PermitsAtCapture == ScreeningSpec => []JudgedAtCapture
<1>1. SInv => JudgedAtCapture
  BY DEF SInv, Charged, JudgedWell, JudgedAtCapture
<1> QED
  BY <1>1, ScreeningInitially, Inductive, PTL DEF ScreeningSpec
=============================================================================
