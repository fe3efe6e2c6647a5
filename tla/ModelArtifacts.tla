--------------------------- MODULE ModelArtifacts ---------------------------
(***************************************************************************)
(* A segmentation model on disk.  save_model_artifact writes the weights,  *)
(* the ONNX graph and the metadata in place, one after the other, and may  *)
(* stop anywhere; load_model_artifact reads the metadata, hashes both      *)
(* files against it, reads the weights and opens the graph a second time;  *)
(* load_compatible_model then compares what was loaded with the request.   *)
(*                                                                         *)
(* A file holds the bytes of one save, or a part of them (Torn).  The      *)
(* files of different saves have different hashes.                         *)
(***************************************************************************)
CONSTANTS
  Saves,       \* the models that are saved
  Describes,   \* save -> what its metadata says of the model
  Shape,       \* save -> the shapes its weights and graph were built for
  Wanted,      \* descriptions that a request may require
  Suits,       \* those whose CRS and resolution range admit the source
  Torn, Missing

ASSUME ArtifactAssumption == {Torn, Missing} \cap Saves = {}

VARIABLES
  files,    \* weights, onnx, metadata
  saver,    \* the save in progress and the file it writes
  load      \* the load in progress or the last one

artifactVars == <<files, saver, load>>

Idle == [of |-> Missing, file |-> "none"]
NotLoaded == [at |-> "none", want |-> Missing, metadata |-> Missing, weights |-> Missing,
              session |-> Missing, calm |-> TRUE]

\* metadata: the description and the hashes of the two other files.
IsMetadata(content) == content \notin {Torn, Missing}

ArtifactInit ==
  /\ files = [weights |-> Missing, onnx |-> Missing, metadata |-> Missing]
  /\ saver = Idle
  /\ load = NotLoaded

-----------------------------------------------------------------------------
(* save_model_artifact.                                                    *)

NextFile == [weights |-> "onnx", onnx |-> "metadata", metadata |-> "none"]

Loading == load.at \in {"weights", "onnx", "parameters", "session"}

\* History: a file was written during the load.
Disturbed == [load EXCEPT !.calm = load.calm /\ ~ Loading]

\* Opening a file for writing empties it.
Open(n, file) ==
  /\ saver' = [of |-> n, file |-> file]
  /\ files' = [files EXCEPT ![file] = Torn]
  /\ load' = Disturbed

\* The metadata hashes the two files as they are by then.
Contents(n, file) ==
  IF file = "metadata" THEN [of |-> n, weights |-> files.weights, onnx |-> files.onnx] ELSE n

Begin(n) ==
  /\ saver = Idle
  /\ Open(n, "weights")

Write ==
  /\ saver # Idle /\ files[saver.file] = Torn
  /\ files' = [files EXCEPT ![saver.file] = Contents(saver.of, saver.file)]
  /\ load' = Disturbed
  /\ UNCHANGED saver

Continue ==
  /\ saver # Idle /\ files[saver.file] # Torn
  /\ IF saver.file = "metadata" THEN saver' = Idle /\ UNCHANGED <<files, load>>
     ELSE Open(saver.of, NextFile[saver.file])

\* An OSError, or the end of the process.
SaveStops ==
  /\ saver # Idle
  /\ saver' = Idle
  /\ UNCHANGED <<files, load>>

SaveContinues == Write \/ Continue \/ SaveStops
Save == (\E n \in Saves : Begin(n)) \/ SaveContinues

-----------------------------------------------------------------------------
(* load_compatible_model.                                                  *)

Refused(code) == [load EXCEPT !.at = code]

\* metadata_path.read_text, parsed.
ReadMetadata(want) ==
  /\ load' = IF IsMetadata(files.metadata)
             THEN [NotLoaded EXCEPT !.at = "weights", !.want = want, !.metadata = files.metadata]
             ELSE [NotLoaded EXCEPT !.at = "MODEL_SCHEMA_MISMATCH", !.want = want]
  /\ UNCHANGED <<files, saver>>

\* A missing file is an OSError: "failed to load"; another hash a mismatch.
Hashed(file, checksum, next) ==
  load' = IF files[file] = Missing THEN Refused("MODEL_SCHEMA_MISMATCH")
          ELSE IF files[file] # checksum THEN Refused("MODEL_CHECKSUM_MISMATCH")
          ELSE [load EXCEPT !.at = next]

\* Fault: the weights are not compared with their hash.
HashWeightsUnchecked ==
  /\ load.at = "weights"
  /\ load' = [load EXCEPT !.at = "onnx"]
  /\ UNCHANGED <<files, saver>>

HashWeights ==
  /\ load.at = "weights"
  /\ Hashed("weights", load.metadata.weights, "onnx")
  /\ UNCHANGED <<files, saver>>

HashOnnx ==
  /\ load.at = "onnx"
  /\ Hashed("onnx", load.metadata.onnx, "parameters")
  /\ UNCHANGED <<files, saver>>

\* np.load and its shape check; a file of part of its bytes does not parse.
Fits(file) ==
  /\ files[file] \in Saves
  /\ Shape[files[file]] = Shape[load.metadata.of]

\* The errors of parsing a torn file are not all caught: the EOFError of
\* np.load and a protobuf error leave load_model_artifact as they are.
FailsToLoad(file) ==
  \/ load' = Refused("MODEL_SCHEMA_MISMATCH")
  \/ files[file] = Torn /\ load' = Refused("PROCESSING_FAILED")

LoadWeights ==
  /\ load.at = "parameters"
  /\ IF Fits("weights") THEN load' = [load EXCEPT !.at = "session", !.weights = files.weights]
     ELSE FailsToLoad("weights")
  /\ UNCHANGED <<files, saver>>

\* The inference session; then the ten fields, the CRS and the resolution.
Compatible == Describes[load.metadata.of] = load.want /\ load.want \in Suits

OpenSession ==
  /\ load.at = "session"
  /\ IF Fits("onnx") /\ Compatible
     THEN load' = [load EXCEPT !.at = "loaded", !.session = files.onnx]
     ELSE FailsToLoad("onnx")
  /\ UNCHANGED <<files, saver>>

LoadContinues == HashWeights \/ HashOnnx \/ LoadWeights \/ OpenSession
ArtifactNext ==
  \/ Save
  \/ ~ Loading /\ \E want \in Wanted : ReadMetadata(want)
  \/ LoadContinues

ArtifactSpec == ArtifactInit /\ [][ArtifactNext]_artifactVars

-----------------------------------------------------------------------------
\* A model that was loaded while no file was being written is one save,
\* whole, and the one that was asked for, whatever saves stopped half-way
\* before: weights and graph are those whose metadata it carries.  (A save
\* in progress can still exchange the graph between its hash and its load.)
LoadedIsOneSave ==
  load.at = "loaded" /\ load.calm =>
    /\ load.weights = load.metadata.of
    /\ load.session = load.metadata.of
    /\ Describes[load.session] = load.want
=============================================================================
