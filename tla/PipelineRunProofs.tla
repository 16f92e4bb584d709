-------------------------- MODULE PipelineRunProofs --------------------------
(* Proofs about PipelineRun, for every set of models, model sets and runs,   *)
(* any schemas, and any number of executions and updates.                    *)
EXTENDS PipelineRun, TLAPS

USE PipelineRunAssumption

-----------------------------------------------------------------------------
(* Features that are of the schema set s asks for, but for the exceptions   *)
(* of FeaturesFit.                                                          *)
Fits(r, s, features) ==
  r \in split \/ \A m \in DOMAIN features :
                   features[m] = Schema[s][m] \/ <<r, m>> \in unextracted

ResultsFit(r, results) == Fits(r, results.set, results.features)

(* A record of run r in one of its files or in memory. *)
RecordOK(r, c) ==
  /\ c.set \in ModelSets
  /\ DOMAIN c.features \subseteq Members(c.set)
  /\ ResultsFit(r, c.batches)

(* Between the two saves of preprocessing the copy lags behind. *)
Lagging(r) == r \in split \/ (exec.run = r /\ stage = "preprocessing" /\ at = "state")

(* The two files of a run: both records are of sets with the same members,  *)
(* the checkpoint's features fit its set, and unless its preprocessing got  *)
(* into one file only, the copy has features only if the checkpoint is      *)
(* preprocessed, and is preprocessed if the checkpoint is.                  *)
FilesOK(r) ==
  /\ RecordOK(r, checkpoint[r]) /\ RecordOK(r, run[r].checkpoint)
  /\ Members(checkpoint[r].set) = Members(run[r].checkpoint.set)
  /\ Fits(r, checkpoint[r].set, checkpoint[r].features)
  /\ ResultsFit(r, run[r].results)
  /\ \/ r \in split
     \/ checkpoint[r].preprocessed
     \/ run[r].checkpoint.features = <<>>
  /\ \/ Lagging(r)
     \/ checkpoint[r].preprocessed => run[r].checkpoint.preprocessed

FilesInv == \A r \in Runs : run[r].status # "none" => FilesOK(r)

(* How far a stage can be. *)
StepInv ==
  /\ stage \in {"idle", "cleanup"} => at = "work"
  /\ stage = "source_validated" => at \in {"checkpoint", "state"}
  /\ at = "write" => stage = "batch_building"

(* The stages after preprocessing, and how far features are known. *)
Preprocessed == stage \in {"runtime_feature", "cleanup"} \cup Late
Extracted    == stage \in {"cleanup"} \cup Late \/ (stage = "runtime_feature" /\ at # "work")

(* The copy of the checkpoint in the memory of the execution. *)
CopyInv ==
  LET r == exec.run
      c == exec.state.checkpoint
      s == exec.pinned
  IN stage # "idle" =>
    /\ r \in Runs /\ s \in ModelSets
    /\ exec.state.status # "none"
    /\ RecordOK(r, c) /\ Members(c.set) = Members(s)
    /\ stage = "source_validated" => run[r].status = "none"
    /\ stage # "source_validated" =>
         run[r].status # "none" /\ Members(checkpoint[r].set) = Members(s)
    /\ at = "state" \/ stage = "cleanup" => checkpoint[r] = c
    /\ at \in {"checkpoint", "state"} \/ Extracted => c.set = s /\ Fits(r, s, c.features)
    /\ stage = "source_validated" => c.features = <<>>
    /\ stage = "preprocessing" =>
         \/ r \in split
         \/ /\ c.features = <<>>
            /\ at = "work" /\ checkpoint[r].preprocessed => c.preprocessed
            /\ at # "work" => c.preprocessed
    /\ Preprocessed =>
         \/ r \in split
         \/ c.preprocessed /\ checkpoint[r].preprocessed /\ run[r].checkpoint.preprocessed

(* The checkpoint that is resumed from. *)
ResumeInv ==
  stage # "idle" =>
    /\ exec.from = "none" => exec.resume = NoCheckpoint
    /\ exec.from # "none" =>
         /\ RecordOK(exec.run, exec.resume)
         /\ exec.resume.set = exec.pinned
         /\ Fits(exec.run, exec.pinned, exec.resume.features)
         /\ exec.changed => exec.resume.batches = NoResults

(* What the execution has computed. *)
ComputedInv ==
  stage # "idle" =>
    /\ ResultsFit(exec.run, exec.state.results) /\ ResultsFit(exec.run, exec.results)
    /\ Extracted => Fits(exec.run, exec.pinned, exec.features)
    /\ stage = "batch_building" /\ at = "write" => exec.results.set = exec.pinned
    /\ \/ stage = "batch_building" /\ at \in {"checkpoint", "state"}
       \/ stage \in {"prediction_delivery", "cleanup"}
       => \/ exec.results.set = exec.pinned
          \/ exec.results = exec.resume.batches /\ exec.resume.batches # NoResults

(* The feature stage is running in memory only if it is in the file, or if  *)
(* this execution was resumed late.                                         *)
ExtractingInv ==
  stage # "idle" =>
    /\ exec.state.resumedFrom = exec.from
    /\ exec.state.extracting => run[exec.run].extracting \/ exec.from \in Late

IInv ==
  /\ TypeOK
  /\ StepInv
  /\ FilesInv
  /\ CopyInv
  /\ ResumeInv
  /\ ComputedInv
  /\ ExtractingInv
  /\ FeaturesFit

-----------------------------------------------------------------------------
(* The stages by name. *)
LEMMA StageNames ==
  /\ {Stages[i] : i \in 1..6} = {"source_validated", "preprocessing", "runtime_feature",
        "runtime_prediction", "batch_building", "prediction_delivery"}
  /\ {Stages[i] : i \in 2..6} = {"preprocessing", "runtime_feature",
        "runtime_prediction", "batch_building", "prediction_delivery"}
  /\ {Stages[i] : i \in 2..5} = {"preprocessing", "runtime_feature",
        "runtime_prediction", "batch_building"}
  <1>1. 1..6 = {1, 2, 3, 4, 5, 6} /\ 2..6 = {2, 3, 4, 5, 6} /\ 2..5 = {2, 3, 4, 5}
    OBVIOUS
  <1>2. /\ Stages[1] = "source_validated" /\ Stages[2] = "preprocessing"
        /\ Stages[3] = "runtime_feature" /\ Stages[4] = "runtime_prediction"
        /\ Stages[5] = "batch_building" /\ Stages[6] = "prediction_delivery"
    BY DEF Stages
  <1>3. QED
    BY <1>1, <1>2

LEMMA StageOrder ==
  /\ StageAfter("source_validated") = "preprocessing"
  /\ StageAfter("preprocessing") = "runtime_feature"
  /\ StageAfter("runtime_feature") = "runtime_prediction"
  /\ StageAfter("runtime_prediction") = "batch_building"
  /\ StageAfter("batch_building") = "prediction_delivery"
  /\ StageAfter("prediction_delivery") = "cleanup"
  <1>1. /\ Stages[1] = "source_validated" /\ Stages[2] = "preprocessing"
        /\ Stages[3] = "runtime_feature" /\ Stages[4] = "runtime_prediction"
        /\ Stages[5] = "batch_building" /\ Stages[6] = "prediction_delivery"
    BY DEF Stages
  <1>2. \A i, j \in 1..5 : Stages[i] = Stages[j] => i = j
    <2>1. 1..5 = {1, 2, 3, 4, 5}
      OBVIOUS
    <2>2. QED
      BY <1>1, <2>1
  <1>3. ASSUME NEW i \in 1..5
        PROVE  (CHOOSE j \in 1..5 : Stages[j] = Stages[i]) = i
    BY <1>2
  <1>4. ASSUME NEW i \in 1..5
        PROVE  StageAfter(Stages[i]) = Stages[1 + i]
    <2>1. Stages[i] # "prediction_delivery"
      <3>1. 1..5 = {1, 2, 3, 4, 5}
        OBVIOUS
      <3>2. QED
        BY <1>1, <3>1
    <2>2. QED
      BY <1>3, <2>1 DEF StageAfter
  <1>5. /\ StageAfter(Stages[1]) = Stages[2] /\ StageAfter(Stages[2]) = Stages[3]
        /\ StageAfter(Stages[3]) = Stages[4] /\ StageAfter(Stages[4]) = Stages[5]
        /\ StageAfter(Stages[5]) = Stages[6]
    BY <1>4
  <1>6. StageAfter("prediction_delivery") = "cleanup"
    BY DEF StageAfter
  <1>7. QED
    BY <1>1, <1>5, <1>6

(* No features. *)
LEMMA NoFeatures == <<>> \in Features /\ DOMAIN <<>> = {}
  <1>1. <<>> \in [{} -> Schemas]
    OBVIOUS
  <1>2. {} \in SUBSET Models
    OBVIOUS
  <1>3. QED
    BY <1>1, <1>2 DEF Features

LEMMA FeaturesOf ==
  ASSUME NEW f
  PROVE  f \in Features <=> DOMAIN f \subseteq Models /\ f \in [DOMAIN f -> Schemas]
  BY DEF Features

LEMMA SchemaOf ==
  ASSUME NEW s \in ModelSets
  PROVE  /\ Members(s) \subseteq Models
         /\ \A m \in Members(s) : Schema[s][m] \in Schemas
  BY DEF Schemas

(* The fields of a checkpoint. *)
CheckpointRecords ==
  [status : {"resumable", "completed"}, set : ModelSets, last : {Stages[i] : i \in 1..6},
   preprocessed : BOOLEAN, extracted : BOOLEAN, features : Features,
   batches : Results \cup {NoResults}]

LEMMA CheckpointFields ==
  ASSUME NEW c \in Checkpoint
  PROVE  /\ c.status \in {"none", "resumable", "completed"}
         /\ c.set \in ModelSets \cup {NoSet}
         /\ c.preprocessed \in BOOLEAN /\ c.extracted \in BOOLEAN
         /\ c.features \in Features
         /\ c.batches \in Results \cup {NoResults}
         /\ c = NoCheckpoint \/ c \in CheckpointRecords
         /\ c.status # "none" => c \in CheckpointRecords
         /\ c.set \in ModelSets => c \in CheckpointRecords
  <1>1. CASE c = NoCheckpoint
    BY <1>1, NoFeatures DEF NoCheckpoint
  <1>2. CASE c \in CheckpointRecords
    BY <1>2 DEF CheckpointRecords
  <1>3. QED
    BY <1>1, <1>2 DEF Checkpoint, CheckpointRecords

LEMMA InCheckpoint ==
  ASSUME NEW c \in Checkpoint, NEW status \in {"resumable", "completed"}, NEW s \in ModelSets,
         NEW name \in {Stages[i] : i \in 1..6}
  PROVE  [c EXCEPT !.status = status, !.set = s, !.last = name] \in CheckpointRecords
  <1>1. CASE c = NoCheckpoint
    BY <1>1, NoFeatures DEF NoCheckpoint, CheckpointRecords
  <1>2. CASE c \in CheckpointRecords
    BY <1>2 DEF CheckpointRecords
  <1>3. QED
    BY <1>1, <1>2, CheckpointFields

LEMMA RecordsAreCheckpoints == CheckpointRecords \subseteq Checkpoint
  BY DEF CheckpointRecords, Checkpoint

(* A record that record_checkpoint makes. *)
LEMMA RecordedFields ==
  ASSUME exec \in Execution, exec.pinned \in ModelSets,
         NEW status \in {"resumable", "completed"}, NEW name \in {Stages[i] : i \in 1..6}
  PROVE  /\ Recorded(name, status) \in CheckpointRecords
         /\ Recorded(name, status).set = exec.pinned
         /\ Recorded(name, status).preprocessed = exec.state.checkpoint.preprocessed
         /\ Recorded(name, status).features = exec.state.checkpoint.features
         /\ Recorded(name, status).batches = exec.state.checkpoint.batches
  <1> DEFINE c == exec.state.checkpoint
  <1>1. c \in Checkpoint
    BY DEF Execution, RunState
  <1>2. Recorded(name, status) \in CheckpointRecords
    BY <1>1, InCheckpoint DEF Recorded
  <1>3. c = NoCheckpoint \/ c \in CheckpointRecords
    BY <1>1, CheckpointFields
  <1>4. QED
    BY <1>2, <1>3 DEF Recorded, CheckpointRecords, NoCheckpoint

(* The fields of a run state, and one changed. *)
LEMMA RunStateFields ==
  ASSUME NEW s \in RunState
  PROVE  /\ s.status \in {"none", "running", "failed", "finished"} /\ s.extracting \in BOOLEAN
         /\ s.resumedFrom \in {"none"} \cup {Stages[i] : i \in 2..6}
         /\ s.results \in Results \cup {NoResults} /\ s.checkpoint \in Checkpoint
  BY DEF RunState

(* The execution goes on with a record in memory. *)
LEMMA InMemory ==
  ASSUME NEW e \in Execution, NEW c \in Checkpoint
  PROVE  LET f == [e EXCEPT !.state.checkpoint = c] IN
         /\ f \in Execution
         /\ f.run = e.run /\ f.pinned = e.pinned /\ f.from = e.from /\ f.changed = e.changed
         /\ f.resume = e.resume /\ f.features = e.features /\ f.results = e.results
         /\ f.state.checkpoint = c /\ f.state.status = e.state.status
         /\ f.state.extracting = e.state.extracting /\ f.state.results = e.state.results
         /\ f.state.resumedFrom = e.state.resumedFrom
  <1>1. [e.state EXCEPT !.checkpoint = c] \in RunState
    BY DEF Execution, RunState
  <1>2. [e EXCEPT !.state.checkpoint = c] = [e EXCEPT !.state = [e.state EXCEPT !.checkpoint = c]]
    BY DEF Execution
  <1>3. QED
    BY <1>1, <1>2 DEF Execution, RunState

-----------------------------------------------------------------------------
(* What fits goes on fitting. *)
LEMMA Later ==
  ASSUME split \subseteq split', unextracted \subseteq unextracted'
  PROVE  /\ \A r, s, f : Fits(r, s, f) => Fits(r, s, f)'
         /\ \A r, x : ResultsFit(r, x) => ResultsFit(r, x)'
         /\ \A r, c : RecordOK(r, c) => RecordOK(r, c)'
  <1>1. \A r, s, f : Fits(r, s, f) => Fits(r, s, f)'
    BY DEF Fits
  <1>2. QED
    BY <1>1 DEF ResultsFit, RecordOK

LEMMA NothingFits ==
  ASSUME NEW r, NEW s
  PROVE  /\ Fits(r, s, <<>>) /\ ResultsFit(r, NoResults)
         /\ Fits(r, s, <<>>)' /\ ResultsFit(r, NoResults)'
  BY NoFeatures DEF Fits, ResultsFit, NoResults

(* Steps that leave the files' records and the execution alone. *)
LEMMA Frame ==
  ASSUME IInv, UNCHANGED <<checkpoint, run, stage, at, exec, registered, unextracted, split>>
  PROVE  StepInv' /\ FilesInv' /\ CopyInv' /\ ResumeInv' /\ ComputedInv' /\ ExtractingInv' /\ FeaturesFit'
  <1>1. split \subseteq split' /\ unextracted \subseteq unextracted'
    OBVIOUS
  <1>2. StepInv'
    BY DEF IInv, StepInv
  <1>3. FilesInv'
    BY <1>1, Later DEF IInv, FilesInv, FilesOK, Lagging
  <1>4. CopyInv'
    BY <1>1, Later DEF IInv, CopyInv, Preprocessed, Extracted
  <1>5. ResumeInv' /\ ComputedInv' /\ ExtractingInv'
    BY <1>1, Later DEF IInv, ResumeInv, ComputedInv, ExtractingInv, Extracted
  <1>6. FeaturesFit'
    BY DEF IInv, FeaturesFit
  <1>7. QED
    BY <1>2, <1>3, <1>4, <1>5, <1>6

(* Steps inside an execution that write no checkpoint and no run state. *)
LEMMA FilesFrame ==
  ASSUME FilesInv, UNCHANGED <<checkpoint, run>>,
         split \subseteq split', unextracted \subseteq unextracted',
         \A r \in Runs : Lagging(r) => Lagging(r)'
  PROVE  FilesInv'
  BY Later DEF FilesInv, FilesOK

LEMMA InitIInv == Init => IInv
  <1> SUFFICES ASSUME Init PROVE IInv
    OBVIOUS
  <1>1. TypeOK
    <2>1. NoCheckpoint \in Checkpoint
      BY DEF Checkpoint
    <2>2. NoRun \in RunState
      BY <2>1 DEF NoRun, RunState
    <2>3. NoExec \in Execution
      BY <2>1, <2>2, NoFeatures DEF NoExec, Execution
    <2>4. QED
      BY <2>1, <2>2, <2>3 DEF Init, TypeOK
  <1>2. StepInv /\ CopyInv /\ ResumeInv /\ ComputedInv /\ ExtractingInv
    BY DEF Init, StepInv, CopyInv, ResumeInv, ComputedInv, ExtractingInv
  <1>3. FilesInv /\ FeaturesFit
    BY DEF Init, FilesInv, FeaturesFit, NoRun
  <1>4. QED
    BY <1>1, <1>2, <1>3 DEF IInv

LEMMA UpdateIInv ==
  ASSUME IInv, NEW s \in ModelSets, UpdateModelSet(s) PROVE IInv'
  <1>1. TypeOK'
    BY DEF IInv, TypeOK, UpdateModelSet, files, hist
  <1>2. QED
    BY <1>1, Frame DEF UpdateModelSet, files, hist, IInv

LEMMA RefuseMembershipIInv ==
  ASSUME IInv, NEW r \in Runs, RefuseMembership(r) PROVE IInv'
  <1>1. TypeOK'
    BY DEF IInv, TypeOK, RefuseMembership, files, hist
  <1>2. QED
    BY <1>1, Frame DEF RefuseMembership, files, hist, IInv

LEMMA StutterIInv ==
  ASSUME IInv, UNCHANGED vars PROVE IInv'
  <1>1. TypeOK'
    BY DEF IInv, TypeOK, vars, files, hist, count
  <1>2. QED
    BY <1>1, Frame DEF vars, files, hist, IInv

(* A new run has no files yet. *)
LEMMA StartFreshIInv ==
  ASSUME IInv, NEW r \in Runs, StartFresh(r) PROVE IInv'
  <1> DEFINE c == [NoCheckpoint EXCEPT !.status = "resumable", !.set = active, !.last = "source_validated"]
             st == [NoRun EXCEPT !.status = "running", !.checkpoint = c]
  <1>0. /\ exec' = [NoExec EXCEPT !.run = r, !.pinned = active, !.state = st]
        /\ stage = "idle" /\ stage' = "source_validated" /\ at' = "checkpoint"
        /\ checkpoint[r] = NoCheckpoint
        /\ UNCHANGED <<active, checkpoint, run, manifest, staged, registered, unextracted, split, updates>>
        /\ executions' = executions + 1
    BY DEF StartFresh, files, hist
  <1>1. active \in ModelSets
    BY DEF IInv, TypeOK
  <1>2. NoCheckpoint \in Checkpoint
    BY DEF Checkpoint
  <1>3. /\ c \in Checkpoint /\ c.set = active /\ c.features = <<>> /\ c.batches = NoResults
    <2>1. "source_validated" \in {Stages[i] : i \in 1..6}
      BY StageNames
    <2>2. c \in Checkpoint
      BY <1>1, <1>2, <2>1, InCheckpoint, RecordsAreCheckpoints
    <2>3. QED
      BY <2>2 DEF NoCheckpoint
  <1>4. st \in RunState /\ st.checkpoint = c /\ st.status = "running" /\ st.results = NoResults
        /\ st.extracting = FALSE /\ st.resumedFrom = "none"
    BY <1>3 DEF NoRun, RunState
  <1>5. /\ exec' \in Execution /\ exec'.run = r /\ exec'.pinned = active /\ exec'.from = "none"
        /\ exec'.resume = NoCheckpoint /\ exec'.state = st /\ exec'.results = NoResults
    BY <1>0, <1>1, <1>2, <1>4, NoFeatures DEF NoExec, Execution
  <1>6. TypeOK'
    BY <1>0, <1>5, StageNames DEF IInv, TypeOK
  <1>7. StepInv'
    BY <1>0 DEF StepInv
  <1>8. FilesInv'
    BY <1>0, FilesFrame DEF IInv, Lagging
  <1>9. run[r].status = "none"
    <2>1. NoCheckpoint.set = NoSet
      BY DEF NoCheckpoint
    <2>2. QED
      BY <1>0, <2>1 DEF IInv, FilesInv, FilesOK, RecordOK
  <1>10. CopyInv'
    <2>1. RecordOK(r, c)' /\ Fits(r, active, c.features)'
      BY <1>0, <1>1, <1>3, NoFeatures DEF RecordOK, ResultsFit, Fits, NoResults
    <2>2. QED
      BY <1>0, <1>1, <1>3, <1>4, <1>5, <1>9, <2>1 DEF CopyInv, Preprocessed, Extracted, Late
  <1>11. ResumeInv'
    BY <1>0, <1>5 DEF ResumeInv
  <1>12. ComputedInv'
    BY <1>0, <1>4, <1>5, NothingFits DEF ComputedInv, Extracted, Late
  <1>13. ExtractingInv'
    BY <1>4, <1>5 DEF ExtractingInv
  <1>14. FeaturesFit'
    BY <1>0 DEF IInv, FeaturesFit
  <1>15. QED
    BY <1>6, <1>7, <1>8, <1>10, <1>11, <1>12, <1>13, <1>14 DEF IInv

(* A checkpoint adapted to a set with the same members keeps features only  *)
(* if they are of the same schemas.                                         *)
LEMMA AdaptedFields ==
  ASSUME NEW r, NEW c \in CheckpointRecords, NEW s \in ModelSets, Members(c.set) = Members(s),
         RecordOK(r, c), Fits(r, c.set, c.features)
  PROVE  /\ Adapted(c, s) \in CheckpointRecords
         /\ Adapted(c, s).set = s
         /\ Adapted(c, s).preprocessed = c.preprocessed
         /\ RecordOK(r, Adapted(c, s))
         /\ Fits(r, s, Adapted(c, s).features)
         /\ c.set # s => Adapted(c, s).batches = NoResults
  <1>1. {"preprocessing", "runtime_feature"} \subseteq {Stages[i] : i \in 1..6}
    BY StageNames
  <1> DEFINE d == Adapted(c, s)
             last == IF c.last \in Late THEN "runtime_feature" ELSE c.last
  <1>2. CASE c.set = s
    BY <1>2 DEF Adapted
  <1>3. CASE c.set # s /\ Schema[c.set] # Schema[s]
    <2>1. d = [status |-> c.status, set |-> s, last |-> "preprocessing", preprocessed |-> c.preprocessed,
               extracted |-> FALSE, features |-> <<>>, batches |-> NoResults]
      BY <1>3 DEF Adapted, CheckpointRecords
    <2>2. d \in CheckpointRecords
      BY <1>1, <2>1, NoFeatures DEF CheckpointRecords
    <2>3. RecordOK(r, d)
      BY <2>1, NoFeatures, NothingFits DEF RecordOK
    <2>4. QED
      BY <2>1, <2>2, <2>3, NothingFits
  <1>4. CASE c.set # s /\ Schema[c.set] = Schema[s]
    <2>1. d = [status |-> c.status, set |-> s, last |-> last, preprocessed |-> c.preprocessed,
               extracted |-> c.extracted, features |-> c.features, batches |-> NoResults]
      BY <1>4 DEF Adapted, CheckpointRecords
    <2>2. d \in CheckpointRecords
      BY <1>1, <2>1 DEF CheckpointRecords
    <2>3. Fits(r, s, c.features)
      BY <1>4 DEF Fits
    <2>4. RecordOK(r, d)
      BY <2>1, NothingFits DEF RecordOK
    <2>5. QED
      BY <2>1, <2>2, <2>3, <2>4
  <1>5. QED
    BY <1>2, <1>3, <1>4

(* A run is resumed from its checkpoint, with its run state in memory. *)
LEMMA ResumeIInv ==
  ASSUME IInv, NEW r \in Runs, Resume(r) PROVE IInv'
  <1>a. PICK changed : changed = (checkpoint[r].set # active)
    OBVIOUS
  <1>b. PICK c : c = Adapted(checkpoint[r], active)
    OBVIOUS
  <1>c. PICK results : results = IF changed THEN NoResults ELSE run[r].results
    OBVIOUS
  <1>d. PICK from : from = ResumeStage(c, results, manifest[r])
    OBVIOUS
  <1>e. PICK st : st = [run[r] EXCEPT !.status = "running", !.resumedFrom = from, !.results = results]
    OBVIOUS
  <1>0. /\ exec' = [NoExec EXCEPT !.run = r, !.pinned = active, !.from = from,
                       !.changed = changed, !.resume = c, !.state = st]
        /\ stage = "idle" /\ at' = "work"
        /\ stage' = IF from = "preprocessing" THEN from ELSE "runtime_feature"
        /\ Resumable(r) /\ Members(checkpoint[r].set) = Members(active)
        /\ UNCHANGED <<active, checkpoint, run, manifest, staged, registered, unextracted, split, updates>>
        /\ executions' = executions + 1
    BY <1>a, <1>b, <1>c, <1>d, <1>e DEF Resume, files, hist
  <1>1. /\ active \in ModelSets /\ run[r] \in RunState /\ run[r].status # "none"
        /\ checkpoint[r] \in CheckpointRecords
    <2>1. checkpoint[r] \in Checkpoint /\ checkpoint[r].status = "resumable"
      BY <1>0 DEF IInv, TypeOK, Resumable
    <2>2. QED
      BY <1>0, <2>1, CheckpointFields DEF IInv, TypeOK, Resumable
  <1>2. FilesOK(r) /\ (Lagging(r) <=> r \in split)
    BY <1>0, <1>1 DEF IInv, FilesInv, Lagging
  <1>3. /\ c \in CheckpointRecords /\ c.set = active /\ c.preprocessed = checkpoint[r].preprocessed
        /\ RecordOK(r, c) /\ Fits(r, active, c.features)
        /\ changed => c.batches = NoResults
    BY <1>0, <1>1, <1>2, <1>a, <1>b, AdaptedFields DEF FilesOK
  <1>4. /\ from \in {Stages[i] : i \in 2..6} /\ from # "none"
        /\ from = "preprocessing" <=> ~ c.preprocessed
    BY <1>3, <1>d, StageNames DEF ResumeStage, CheckpointRecords
  <1>5. results \in Results \cup {NoResults} /\ ResultsFit(r, results)
    BY <1>1, <1>2, <1>c, NothingFits, RunStateFields DEF FilesOK
  <1>6. /\ st \in RunState /\ st.checkpoint = run[r].checkpoint /\ st.status = "running"
        /\ st.results = results /\ st.extracting = run[r].extracting /\ st.resumedFrom = from
    BY <1>1, <1>4, <1>5, <1>e DEF RunState
  <1>7. /\ exec' \in Execution /\ exec'.run = r /\ exec'.pinned = active /\ exec'.from = from
        /\ exec'.changed = changed /\ exec'.resume = c /\ exec'.state = st
        /\ exec'.results = NoResults
    <2>1. c \in Checkpoint
      BY <1>3, RecordsAreCheckpoints
    <2>2. QED
      BY <1>0, <1>1, <1>4, <1>6, <1>a, <2>1, NoFeatures DEF NoExec, Execution
  <1>8. TypeOK'
    BY <1>0, <1>7, StageNames DEF IInv, TypeOK
  <1>9. StepInv'
    BY <1>0 DEF StepInv
  <1>10. FilesInv'
    BY <1>0, FilesFrame DEF IInv, Lagging
  <1>m. split \subseteq split' /\ unextracted \subseteq unextracted'
    BY <1>0
  <1>11. CopyInv'
    <2>1. RecordOK(r, run[r].checkpoint)' /\ Members(run[r].checkpoint.set) = Members(active)
      BY <1>0, <1>2, <1>m, Later DEF FilesOK
    <2>2. stage' = "preprocessing" => r \in split' \/ (run[r].checkpoint.features = <<>> /\ ~ checkpoint[r].preprocessed)
      BY <1>0, <1>2, <1>3, <1>4 DEF FilesOK
    <2>3. stage' = "runtime_feature" =>
            r \in split' \/ (run[r].checkpoint.preprocessed /\ checkpoint[r].preprocessed)
      BY <1>0, <1>2, <1>3, <1>4 DEF FilesOK
    <2>4. stage' \in {"preprocessing", "runtime_feature"} /\ ~ Extracted'
      BY <1>0 DEF Extracted, Late
    <2>5. QED
      BY <1>0, <1>1, <1>6, <1>7, <2>1, <2>2, <2>3, <2>4 DEF CopyInv, Preprocessed, Late
  <1>12. ResumeInv'
    <2>1. RecordOK(r, c)' /\ Fits(r, active, c.features)'
      BY <1>3, <1>m, <1>0, Later
    <2>2. QED
      BY <1>0, <1>3, <1>4, <1>7, <2>1 DEF ResumeInv
  <1>13. ComputedInv'
    <2>1. ResultsFit(r, results)' /\ ResultsFit(r, NoResults)'
      BY <1>5, <1>m, Later, NothingFits
    <2>2. QED
      BY <1>0, <1>6, <1>7, <2>1 DEF ComputedInv, Extracted, Late
  <1>14. ExtractingInv'
    BY <1>0, <1>6, <1>7 DEF ExtractingInv
  <1>15. FeaturesFit'
    BY <1>0 DEF IInv, FeaturesFit
  <1>16. QED
    BY <1>8, <1>9, <1>10, <1>11, <1>12, <1>13, <1>14, <1>15 DEF IInv

(* A stage has its record in memory and goes on to save the two files. *)
LEMMA ProceedInv ==
  ASSUME IInv, stage \notin {"idle", "cleanup", "source_validated"},
         NEW r \in Runs, r = exec.run, NEW s \in ModelSets, s = exec.pinned,
         NEW e \in Execution, e.run = r, e.pinned = s, e.state.status = exec.state.status,
         NEW c \in CheckpointRecords, c.set = s,
         c.preprocessed = (exec.state.checkpoint.preprocessed \/ stage = "preprocessing"),
         stage = "preprocessing" => at = "work" /\ c.features = exec.state.checkpoint.features,
         Proceed(c, e), UNCHANGED <<checkpoint, run, stage>>,
         split \subseteq split', unextracted \subseteq unextracted',
         RecordOK(r, c)', Fits(r, s, c.features)'
  PROVE  StepInv' /\ FilesInv' /\ CopyInv'
  <1>1. exec' = [e EXCEPT !.state.checkpoint = c] /\ at' = "checkpoint"
    BY DEF Proceed
  <1>2. /\ exec'.run = r /\ exec'.pinned = s /\ exec'.state.checkpoint = c
        /\ exec'.state.status = exec.state.status
    BY <1>1, InMemory, RecordsAreCheckpoints
  <1>3. StepInv'
    BY <1>1 DEF IInv, StepInv
  <1>4. FilesInv'
    <2>1. \A q \in Runs : Lagging(q) => Lagging(q)'
      BY <1>1, <1>2 DEF Lagging
    <2>2. QED
      BY <2>1, FilesFrame DEF IInv
  <1>5. CopyInv'
    <2>1. /\ exec.state.status # "none" /\ run[r].status # "none"
          /\ Members(checkpoint[r].set) = Members(s)
          /\ stage = "preprocessing" => r \in split \/ exec.state.checkpoint.features = <<>>
      BY DEF IInv, CopyInv
    <2>2. Preprocessed => r \in split \/ (c.preprocessed /\ checkpoint[r].preprocessed /\ run[r].checkpoint.preprocessed)
      BY DEF IInv, CopyInv, Preprocessed, Late
    <2>3. Preprocessed' => Preprocessed
      BY DEF Preprocessed
    <2>4. stage = "preprocessing" => r \in split' \/ (c.features = <<>> /\ c.preprocessed)
      BY <2>1
    <2>5. QED
      BY <1>1, <1>2, <2>1, <2>2, <2>3, <2>4 DEF CopyInv
  <1>6. QED
    BY <1>3, <1>4, <1>5

(* What an execution under way keeps. *)
LEMMA UnderWay ==
  ASSUME IInv, stage # "idle"
  PROVE  /\ exec \in Execution /\ exec.run \in Runs /\ exec.pinned \in ModelSets
         /\ exec.state \in RunState /\ exec.state.checkpoint \in Checkpoint
         /\ exec.state.checkpoint \in CheckpointRecords
         /\ RecordOK(exec.run, exec.state.checkpoint)
         /\ Members(exec.state.checkpoint.set) = Members(exec.pinned)
  <1>1. exec \in Execution /\ exec.run \in Runs /\ exec.pinned \in ModelSets /\ RecordOK(exec.run, exec.state.checkpoint)
        /\ Members(exec.state.checkpoint.set) = Members(exec.pinned)
    BY DEF IInv, TypeOK, CopyInv
  <1>2. exec.state \in RunState /\ exec.state.checkpoint \in Checkpoint
    BY <1>1 DEF Execution, RunState
  <1>3. QED
    BY <1>1, <1>2, CheckpointFields DEF RecordOK

(* Preprocessing: the features stay as they are, and are none where the     *)
(* files agree.                                                             *)
LEMMA PreprocessIInv ==
  ASSUME IInv, Preprocess PROVE IInv'
  <1>0. /\ stage = "preprocessing" /\ at = "work"
        /\ UNCHANGED <<active, checkpoint, run, manifest, staged, stage, registered, unextracted, split, executions, updates>>
    BY DEF Preprocess, files, hist, count
  <1>a. PICK r : r = exec.run
    OBVIOUS
  <1>b. PICK s : s = exec.pinned
    OBVIOUS
  <1>c. PICK c : c = [Recorded("preprocessing", "resumable") EXCEPT !.preprocessed = TRUE]
    OBVIOUS
  <1>d. PICK e : e = exec
    OBVIOUS
  <1>u. /\ e \in Execution /\ e.run = r /\ e.pinned = s /\ r \in Runs /\ s \in ModelSets
        /\ e.state.status = exec.state.status /\ exec.state \in RunState
    BY <1>0, <1>a, <1>b, <1>d, UnderWay
  <1>1. /\ c \in CheckpointRecords /\ c.set = s /\ c.preprocessed = TRUE
        /\ c.features = exec.state.checkpoint.features /\ c.batches = exec.state.checkpoint.batches
    <2>1. "preprocessing" \in {Stages[i] : i \in 1..6}
      BY StageNames
    <2>2. QED
      BY <1>0, <1>b, <1>c, <2>1, UnderWay, RecordedFields DEF CheckpointRecords
  <1>2. Proceed(c, e)
    BY <1>c, <1>d DEF Preprocess
  <1>3. exec' \in Execution /\ exec' = [e EXCEPT !.state.checkpoint = c] /\ at' = "checkpoint"
    BY <1>1, <1>2, <1>u, InMemory, RecordsAreCheckpoints DEF Proceed
  <1>4. TypeOK'
    BY <1>0, <1>3 DEF IInv, TypeOK
  <1>m. split \subseteq split' /\ unextracted \subseteq unextracted'
    BY <1>0
  <1>5. RecordOK(r, c)' /\ Fits(r, s, c.features)'
    <2>1. RecordOK(r, c)
      BY <1>0, <1>1, <1>a, <1>b, UnderWay DEF RecordOK
    <2>2. r \in split \/ c.features = <<>>
      BY <1>0, <1>1, <1>a DEF IInv, CopyInv
    <2>3. Fits(r, s, c.features)
      BY <2>2, NothingFits DEF Fits
    <2>4. QED
      BY <2>1, <2>3, <1>m, Later
  <1>6. StepInv' /\ FilesInv' /\ CopyInv'
    BY <1>0, <1>1, <1>2, <1>5, <1>m, <1>a, <1>b, <1>u, ProceedInv
  <1>7. ResumeInv' /\ ComputedInv' /\ ExtractingInv'
    <2>1. /\ exec'.run = exec.run /\ exec'.pinned = exec.pinned /\ exec'.from = exec.from
          /\ exec'.changed = exec.changed /\ exec'.resume = exec.resume /\ exec'.results = exec.results
          /\ exec'.state.results = exec.state.results /\ exec'.state.extracting = exec.state.extracting
          /\ exec'.state.resumedFrom = exec.state.resumedFrom
      BY <1>1, <1>3, <1>d, <1>u, InMemory, RecordsAreCheckpoints
    <2>2. ResumeInv' /\ ExtractingInv'
      BY <1>0, <1>m, <2>1, Later DEF IInv, ResumeInv, ExtractingInv
    <2>3. ~ Extracted'
      BY <1>0 DEF Extracted, Late
    <2>4. ComputedInv'
      BY <1>0, <1>m, <2>1, <2>3, Later DEF IInv, ComputedInv
    <2>5. QED
      BY <2>2, <2>4
  <1>8. FeaturesFit'
    BY <1>0 DEF IInv, FeaturesFit
  <1>9. QED
    BY <1>4, <1>6, <1>7, <1>8 DEF IInv

(* The checkpoint that is resumed from stays. *)
LEMMA ResumeStays ==
  ASSUME IInv, stage # "idle", split \subseteq split', unextracted \subseteq unextracted',
         exec'.run = exec.run, exec'.pinned = exec.pinned, exec'.from = exec.from,
         exec'.changed = exec.changed, exec'.resume = exec.resume
  PROVE  ResumeInv'
  BY Later DEF IInv, ResumeInv

LEMMA FeaturesFitStays ==
  ASSUME IInv, split \subseteq split', unextracted \subseteq unextracted', registered' = registered
  PROVE  FeaturesFit'
  BY DEF IInv, FeaturesFit

(* Features of the models of the set: reused where the schema is the same,  *)
(* extracted under the set's schema, kept from the record, or missing.      *)
LEMMA ExtractIInv ==
  ASSUME IInv, NEW failing \in SUBSET Models, Extract(failing) PROVE IInv'
  <1>a. PICK r : r = exec.run
    OBVIOUS
  <1>b. PICK s : s = exec.pinned
    OBVIOUS
  <1>c. PICK kept : kept = exec.resume.features
    OBVIOUS
  <1>d. PICK reusable : reusable = Reusable
    OBVIOUS
  <1>e. PICK old : old = exec.state.checkpoint.features
    OBVIOUS
  <1>f. PICK out : out = [m \in Members(s) \ failing |-> IF m \in reusable THEN kept[m] ELSE Schema[s][m]]
    OBVIOUS
  <1>g. PICK new : new = [m \in DOMAIN out \cup DOMAIN old |-> IF m \in DOMAIN out THEN out[m] ELSE old[m]]
    OBVIOUS
  <1>h. PICK c : c = [Recorded("runtime_feature", "resumable") EXCEPT !.extracted = TRUE, !.features = new]
    OBVIOUS
  <1>i. PICK e : e = [exec EXCEPT !.features = out, !.state.extracting = LeavesRunning]
    OBVIOUS
  <1>0. /\ stage = "runtime_feature" /\ at = "work" /\ ~ exec.state.extracting
        /\ failing \subseteq Members(s) \ reusable
        /\ Proceed(c, e)
        /\ unextracted' = unextracted \cup ({r} \X failing)
        /\ UNCHANGED <<active, checkpoint, run, manifest, staged, stage, registered, split, executions, updates>>
    BY <1>a, <1>b, <1>c, <1>d, <1>e, <1>f, <1>g, <1>h, <1>i DEF Extract, files, count
  <1>m. split \subseteq split' /\ unextracted \subseteq unextracted'
    BY <1>0
  <1>u. /\ exec \in Execution /\ r \in Runs /\ s \in ModelSets /\ exec.state \in RunState
        /\ exec.state.checkpoint \in CheckpointRecords /\ RecordOK(r, exec.state.checkpoint)
        /\ Members(exec.state.checkpoint.set) = Members(s)
        /\ DOMAIN old \subseteq Members(s) /\ old \in Features
        /\ kept \in Features
    <2>1. /\ exec \in Execution /\ r \in Runs /\ s \in ModelSets /\ exec.state \in RunState
          /\ exec.state.checkpoint \in CheckpointRecords /\ RecordOK(r, exec.state.checkpoint)
          /\ Members(exec.state.checkpoint.set) = Members(s)
      BY <1>0, <1>a, <1>b, UnderWay
    <2>2. DOMAIN old \subseteq Members(s) /\ old \in Features
      BY <2>1, <1>e DEF RecordOK, CheckpointRecords
    <2>3. exec.resume \in Checkpoint
      BY <2>1 DEF Execution
    <2>4. QED
      BY <2>1, <2>2, <2>3, <1>c, CheckpointFields
  <1>1. /\ reusable \subseteq Members(s) /\ reusable \subseteq DOMAIN kept
        /\ Fits(r, s, kept)
    <2>1. reusable \subseteq Members(s) /\ reusable \subseteq DOMAIN kept
      BY <1>b, <1>c, <1>d DEF Reusable
    <2>2. CASE exec.from = "none"
      <3>1. exec.resume = NoCheckpoint
        BY <1>0, <2>2 DEF IInv, ResumeInv
      <3>2. kept = <<>>
        BY <1>c, <3>1 DEF NoCheckpoint
      <3>3. QED
        BY <2>1, <3>2, NothingFits
    <2>3. CASE exec.from # "none"
      <3>1. Fits(exec.run, exec.pinned, exec.resume.features)
        BY <1>0, <2>3 DEF IInv, ResumeInv
      <3>2. QED
        BY <2>1, <3>1, <1>a, <1>b, <1>c
    <2>4. QED
      BY <2>1, <2>2, <2>3
  <1>2. DOMAIN out = Members(s) \ failing /\ out \in Features
    <2>1. Members(s) \subseteq Models /\ \A m \in Members(s) : Schema[s][m] \in Schemas
      BY <1>u, SchemaOf
    <2>2. kept \in [DOMAIN kept -> Schemas]
      BY <1>u, FeaturesOf
    <2>3. \A m \in Members(s) \ failing :
            (IF m \in reusable THEN kept[m] ELSE Schema[s][m]) \in Schemas
      BY <1>1, <2>1, <2>2
    <2>4. out \in [Members(s) \ failing -> Schemas]
      BY <1>f, <2>3
    <2>5. QED
      BY <2>1, <2>4, FeaturesOf
  <1>3. new \in Features /\ DOMAIN new = DOMAIN out \cup DOMAIN old /\ DOMAIN new \subseteq Members(s)
    <2>1. old \in [DOMAIN old -> Schemas] /\ out \in [DOMAIN out -> Schemas]
      BY <1>u, <1>2, FeaturesOf
    <2>2. new \in [DOMAIN out \cup DOMAIN old -> Schemas]
      BY <1>g, <2>1
    <2>3. DOMAIN new \subseteq Members(s) /\ DOMAIN new \subseteq Models
      BY <1>u, <1>2, <2>2, SchemaOf
    <2>4. QED
      BY <2>2, <2>3, FeaturesOf
  <1>4. /\ c \in CheckpointRecords /\ c.set = s /\ c.preprocessed = exec.state.checkpoint.preprocessed
        /\ c.features = new /\ c.batches = exec.state.checkpoint.batches
    <2>1. "runtime_feature" \in {Stages[i] : i \in 1..6}
      BY StageNames
    <2>2. QED
      BY <1>b, <1>h, <1>u, <1>3, <2>1, RecordedFields DEF CheckpointRecords
  <1>5. /\ e \in Execution /\ e.run = r /\ e.pinned = s /\ e.from = exec.from /\ e.changed = exec.changed
        /\ e.resume = exec.resume /\ e.features = out /\ e.results = exec.results
        /\ e.state.status = exec.state.status /\ e.state.results = exec.state.results
        /\ e.state.resumedFrom = exec.state.resumedFrom /\ e.state.extracting = LeavesRunning
    <2>1. LeavesRunning \in BOOLEAN
      BY DEF LeavesRunning
    <2>2. e = [exec EXCEPT !.features = out, !.state = [exec.state EXCEPT !.extracting = LeavesRunning]]
      BY <1>i, <1>u DEF Execution
    <2>3. QED
      BY <1>a, <1>b, <1>u, <1>2, <2>1, <2>2 DEF Execution, RunState
  <1>6. /\ exec' \in Execution /\ at' = "checkpoint"
        /\ exec'.run = r /\ exec'.pinned = s /\ exec'.from = exec.from /\ exec'.changed = exec.changed
        /\ exec'.resume = exec.resume /\ exec'.features = out /\ exec'.results = exec.results
        /\ exec'.state.results = exec.state.results
        /\ exec'.state.resumedFrom = exec.state.resumedFrom /\ exec'.state.extracting = LeavesRunning
    BY <1>0, <1>4, <1>5, InMemory, RecordsAreCheckpoints DEF Proceed
  <1>7. TypeOK'
    <2>1. unextracted' \subseteq Runs \X Models
      BY <1>0, <1>u DEF IInv, TypeOK
    <2>2. QED
      BY <1>0, <1>6, <2>1 DEF IInv, TypeOK
  <1>8. Fits(r, s, out)' /\ Fits(r, s, new)'
    <2> SUFFICES ASSUME r \notin split
                 PROVE  /\ \A m \in DOMAIN out : out[m] = Schema[s][m] \/ <<r, m>> \in unextracted'
                        /\ \A m \in DOMAIN new : new[m] = Schema[s][m] \/ <<r, m>> \in unextracted'
      BY <1>0 DEF Fits
    <2>1. \A m \in DOMAIN kept : kept[m] = Schema[s][m] \/ <<r, m>> \in unextracted
      BY <1>1 DEF Fits
    <2>2. \A m \in DOMAIN out : out[m] = Schema[s][m] \/ <<r, m>> \in unextracted'
      BY <1>f, <1>m, <1>1, <1>2, <2>1
    <2>3. ASSUME NEW m \in DOMAIN old \ DOMAIN out PROVE <<r, m>> \in unextracted'
      BY <1>0, <1>u, <1>2
    <2>4. QED
      BY <1>g, <1>3, <2>2, <2>3
  <1>9. RecordOK(r, c)'
    <2>1. ResultsFit(r, c.batches)
      BY <1>4, <1>u DEF RecordOK
    <2>2. RecordOK(r, c)
      BY <1>3, <1>4, <1>u, <2>1 DEF RecordOK
    <2>3. QED
      BY <1>m, <2>2, Later
  <1>10. StepInv' /\ FilesInv' /\ CopyInv'
    <2>1. c.preprocessed = (exec.state.checkpoint.preprocessed \/ stage = "preprocessing")
      BY <1>0, <1>4, <1>u DEF CheckpointRecords
    <2>2. Fits(r, s, c.features)'
      BY <1>4, <1>8
    <2>3. QED
      BY <1>0, <1>4, <1>5, <1>9, <1>m, <1>a, <1>b, <1>u, <2>1, <2>2, ProceedInv
  <1>11. ResumeInv'
    BY <1>0, <1>6, <1>m, <1>a, <1>b, ResumeStays
  <1>12. ComputedInv'
    BY <1>0, <1>6, <1>8, <1>m, <1>a, <1>b, Later DEF IInv, ComputedInv
  <1>13. ExtractingInv'
    BY <1>0, <1>6, <1>a DEF IInv, ExtractingInv, LeavesRunning
  <1>14. FeaturesFit'
    BY <1>0, <1>m, FeaturesFitStays
  <1>15. QED
    BY <1>7, <1>10, <1>11, <1>12, <1>13, <1>14 DEF IInv

(* An execution that is refused by start_stage leaves the files alone. *)
LEMMA RefuseExtractIInv ==
  ASSUME IInv, RefuseExtract PROVE IInv'
  <1>0. /\ stage = "runtime_feature" /\ at = "work" /\ stage' = "idle" /\ exec' = NoExec
        /\ UNCHANGED <<active, checkpoint, run, manifest, staged, at, registered, unextracted, split, executions, updates>>
    BY DEF RefuseExtract, files, hist, count
  <1>1. NoExec \in Execution
    <2>1. NoCheckpoint \in Checkpoint
      BY DEF Checkpoint
    <2>2. QED
      BY <2>1, NoFeatures DEF NoExec, NoRun, Execution, RunState
  <1>2. TypeOK'
    BY <1>0, <1>1 DEF IInv, TypeOK
  <1>3. StepInv' /\ CopyInv' /\ ResumeInv' /\ ComputedInv' /\ ExtractingInv'
    BY <1>0 DEF StepInv, CopyInv, ResumeInv, ComputedInv, ExtractingInv
  <1>4. FilesInv'
    BY <1>0, FilesFrame DEF IInv, Lagging
  <1>5. FeaturesFit'
    BY <1>0, FeaturesFitStays
  <1>6. QED
    BY <1>2, <1>3, <1>4, <1>5 DEF IInv

(* The record of a stage behind the features keeps them. *)
LEMMA LateRecord ==
  ASSUME IInv, stage \in Late,
         NEW r \in Runs, r = exec.run, NEW s \in ModelSets, s = exec.pinned,
         NEW e \in Execution, e.run = r, e.pinned = s, e.state.status = exec.state.status,
         NEW c \in CheckpointRecords, c.set = s,
         c.preprocessed = exec.state.checkpoint.preprocessed,
         c.features = exec.state.checkpoint.features,
         ResultsFit(r, c.batches),
         Proceed(c, e), UNCHANGED <<checkpoint, run, stage, unextracted, split>>
  PROVE  StepInv' /\ FilesInv' /\ CopyInv'
  <1>0. stage \notin {"idle", "cleanup", "source_validated", "preprocessing"}
    BY DEF Late
  <1>1. Fits(r, s, c.features)
    BY <1>0 DEF IInv, CopyInv, Extracted, Late
  <1>2. RecordOK(r, c)
    <2>1. DOMAIN c.features \subseteq Members(s)
      BY <1>0, UnderWay DEF RecordOK
    <2>2. QED
      BY <2>1 DEF RecordOK
  <1>3. RecordOK(r, c)' /\ Fits(r, s, c.features)'
    BY <1>1, <1>2, Later
  <1>4. c.preprocessed = (exec.state.checkpoint.preprocessed \/ stage = "preprocessing")
    BY <1>0 DEF CheckpointRecords
  <1>5. QED
    BY <1>0, <1>3, <1>4, ProceedInv

(* Predictions are made of the execution's features, or reused. *)
LEMMA PredictIInv ==
  ASSUME IInv, Predict PROVE IInv'
  <1>0. /\ stage = "runtime_prediction" /\ at = "work"
        /\ UNCHANGED <<active, checkpoint, run, manifest, staged, registered, unextracted, split, executions, updates>>
    BY DEF Predict, files, hist, count
  <1>a. PICK r : r = exec.run
    OBVIOUS
  <1>b. PICK s : s = exec.pinned
    OBVIOUS
  <1>u. /\ exec \in Execution /\ r \in Runs /\ s \in ModelSets /\ exec.state \in RunState
        /\ exec.features \in Features /\ exec.state.results \in Results \cup {NoResults}
        /\ exec.state.checkpoint \in CheckpointRecords /\ RecordOK(r, exec.state.checkpoint)
    <2>1. /\ exec \in Execution /\ r \in Runs /\ s \in ModelSets /\ exec.state \in RunState
          /\ exec.state.checkpoint \in CheckpointRecords /\ RecordOK(r, exec.state.checkpoint)
      BY <1>0, <1>a, <1>b, UnderWay
    <2>2. QED
      BY <2>1, RunStateFields DEF Execution
  <1>m. split \subseteq split' /\ unextracted \subseteq unextracted'
    BY <1>0
  <1>f. FeaturesFit'
    BY <1>0, <1>m, FeaturesFitStays
  <1>1. CASE ReusesResults
    <2>1. /\ exec' = [exec EXCEPT !.results = exec.state.results]
          /\ stage' = "batch_building" /\ at' = "work"
      BY <1>1 DEF Predict
    <2>2. /\ exec' \in Execution /\ exec'.run = r /\ exec'.pinned = s /\ exec'.from = exec.from
          /\ exec'.changed = exec.changed /\ exec'.resume = exec.resume /\ exec'.state = exec.state
          /\ exec'.features = exec.features /\ exec'.results = exec.state.results
      BY <2>1, <1>a, <1>b, <1>u DEF Execution
    <2>3. TypeOK'
      BY <1>0, <2>1, <2>2, StageNames DEF IInv, TypeOK
    <2>4. StepInv'
      BY <2>1 DEF StepInv
    <2>5. FilesInv'
      <3>1. \A q \in Runs : Lagging(q) => Lagging(q)'
        BY <1>0, <2>1 DEF Lagging
      <3>2. QED
        BY <1>0, <1>m, <3>1, FilesFrame DEF IInv
    <2>6. CopyInv'
      <3>1. Extracted /\ Preprocessed /\ Extracted' /\ Preprocessed'
        BY <1>0, <2>1 DEF Extracted, Preprocessed, Late
      <3>2. /\ exec.state.status # "none" /\ run[r].status # "none"
            /\ Members(exec.state.checkpoint.set) = Members(s)
            /\ Members(checkpoint[r].set) = Members(s)
            /\ exec.state.checkpoint.set = s /\ Fits(r, s, exec.state.checkpoint.features)
            /\ \/ r \in split
               \/ exec.state.checkpoint.preprocessed /\ checkpoint[r].preprocessed /\ run[r].checkpoint.preprocessed
        BY <1>0, <1>a, <1>b, <3>1 DEF IInv, CopyInv
      <3>3. RecordOK(r, exec.state.checkpoint)' /\ Fits(r, s, exec.state.checkpoint.features)'
        BY <1>m, <1>u, <2>2, <3>2, Later
      <3>4. QED
        BY <1>0, <1>u, <2>1, <2>2, <3>2, <3>3 DEF CopyInv
    <2>7. ResumeInv'
      BY <1>0, <1>m, <1>a, <1>b, <2>2, ResumeStays
    <2>8. ComputedInv'
      <3>1. Extracted
        BY <1>0 DEF Extracted, Late
      <3>2. ResultsFit(r, exec.state.results) /\ Fits(r, s, exec.features)
        BY <1>0, <1>a, <1>b, <3>1 DEF IInv, ComputedInv
      <3>3. ResultsFit(r, exec.state.results)' /\ Fits(r, s, exec.features)'
        BY <1>m, <2>2, <3>2, Later
      <3>4. QED
        BY <2>1, <2>2, <3>3 DEF ComputedInv
    <2>9. ExtractingInv'
      BY <1>0, <1>a, <2>2 DEF IInv, ExtractingInv
    <2>10. QED
      BY <1>f, <2>3, <2>4, <2>5, <2>6, <2>7, <2>8, <2>9 DEF IInv
  <1>2. CASE ~ ReusesResults
    <2>a. PICK c : c = Recorded("runtime_prediction", "resumable")
      OBVIOUS
    <2>b. PICK results : results = [set |-> s, features |-> exec.features]
      OBVIOUS
    <2>c. PICK e : e = [exec EXCEPT !.results = results]
      OBVIOUS
    <2>1. Proceed(c, e) /\ stage' = stage
      BY <1>2, <1>b, <2>a, <2>b, <2>c DEF Predict
    <2>2. /\ c \in CheckpointRecords /\ c.set = s
          /\ c.preprocessed = exec.state.checkpoint.preprocessed
          /\ c.features = exec.state.checkpoint.features /\ c.batches = exec.state.checkpoint.batches
      BY <1>b, <1>u, <2>a, StageNames, RecordedFields
    <2>3. /\ e \in Execution /\ e.run = r /\ e.pinned = s /\ e.from = exec.from
          /\ e.changed = exec.changed /\ e.resume = exec.resume /\ e.state = exec.state
          /\ e.features = exec.features /\ e.results = results
      BY <1>a, <1>b, <1>u, <2>b, <2>c DEF Execution, Results
    <2>4. /\ exec' \in Execution /\ at' = "checkpoint"
          /\ exec'.run = r /\ exec'.pinned = s /\ exec'.from = exec.from /\ exec'.changed = exec.changed
          /\ exec'.resume = exec.resume /\ exec'.features = exec.features /\ exec'.results = results
          /\ exec'.state.results = exec.state.results
          /\ exec'.state.resumedFrom = exec.state.resumedFrom
          /\ exec'.state.extracting = exec.state.extracting
      BY <2>1, <2>2, <2>3, InMemory, RecordsAreCheckpoints DEF Proceed
    <2>5. TypeOK'
      BY <1>0, <2>1, <2>4 DEF IInv, TypeOK
    <2>6. StepInv' /\ FilesInv' /\ CopyInv'
      <3>1. stage \in Late /\ ResultsFit(r, c.batches)
        BY <1>0, <1>u, <2>2 DEF Late, RecordOK
      <3>2. QED
        BY <1>0, <1>a, <1>b, <1>u, <2>1, <2>2, <2>3, <3>1, LateRecord
    <2>7. ResumeInv'
      BY <1>0, <1>m, <1>a, <1>b, <2>4, ResumeStays
    <2>8. ComputedInv'
      <3>1. Extracted
        BY <1>0 DEF Extracted, Late
      <3>2. ResultsFit(r, exec.state.results) /\ Fits(r, s, exec.features)
        BY <1>0, <1>a, <1>b, <3>1 DEF IInv, ComputedInv
      <3>3. ResultsFit(r, exec.state.results)' /\ Fits(r, s, exec.features)' /\ ResultsFit(r, results)'
        <4>1. ResultsFit(r, results)
          BY <2>b, <3>2 DEF ResultsFit
        <4>2. \A x : ResultsFit(r, x) => ResultsFit(r, x)'
          BY <1>m, Later
        <4>3. \A f : Fits(r, s, f) => Fits(r, s, f)'
          BY <1>m, Later
        <4>4. QED
          BY <2>4, <3>2, <4>1, <4>2, <4>3
      <3>4. QED
        BY <1>0, <2>1, <2>4, <3>3 DEF ComputedInv
    <2>9. ExtractingInv'
      BY <1>0, <1>a, <2>4 DEF IInv, ExtractingInv
    <2>10. QED
      BY <1>f, <2>5, <2>6, <2>7, <2>8, <2>9 DEF IInv
  <1>3. QED
    BY <1>1, <1>2

(* The batches named by the checkpoint that was resumed from. *)
LEMMA LoadBatchesIInv ==
  ASSUME IInv, LoadBatches PROVE IInv'
  <1>0. /\ stage = "batch_building" /\ at = "work" /\ exec.resume.batches # NoResults
        /\ UNCHANGED <<active, checkpoint, run, manifest, staged, stage, registered, unextracted, split, executions, updates>>
    BY DEF LoadBatches, StagedInCheckpoint, files, hist, count
  <1>a. PICK r : r = exec.run
    OBVIOUS
  <1>b. PICK s : s = exec.pinned
    OBVIOUS
  <1>c. PICK batches : batches = exec.resume.batches
    OBVIOUS
  <1>d. PICK c : c = [Recorded("batch_building", "resumable") EXCEPT !.batches = batches]
    OBVIOUS
  <1>e. PICK e : e = [exec EXCEPT !.results = batches]
    OBVIOUS
  <1>m. split \subseteq split' /\ unextracted \subseteq unextracted'
    BY <1>0
  <1>u. /\ exec \in Execution /\ r \in Runs /\ s \in ModelSets /\ exec.state \in RunState
        /\ exec.resume \in Checkpoint /\ batches \in Results
        /\ exec.state.checkpoint \in CheckpointRecords
    <2>1. /\ exec \in Execution /\ r \in Runs /\ s \in ModelSets /\ exec.state \in RunState
          /\ exec.state.checkpoint \in CheckpointRecords
      BY <1>0, <1>a, <1>b, UnderWay
    <2>2. exec.resume \in Checkpoint
      BY <2>1 DEF Execution
    <2>3. QED
      BY <1>0, <1>c, <2>1, <2>2, CheckpointFields
  <1>1. ResultsFit(r, batches)
    <2>1. exec.from # "none"
      BY <1>0 DEF IInv, ResumeInv, NoCheckpoint
    <2>2. RecordOK(exec.run, exec.resume)
      BY <1>0, <2>1 DEF IInv, ResumeInv
    <2>3. QED
      BY <1>a, <1>c, <2>2 DEF RecordOK
  <1>2. /\ c \in CheckpointRecords /\ c.set = s
        /\ c.preprocessed = exec.state.checkpoint.preprocessed
        /\ c.features = exec.state.checkpoint.features /\ c.batches = batches
    BY <1>b, <1>d, <1>u, StageNames, RecordedFields DEF CheckpointRecords
  <1>3. /\ e \in Execution /\ e.run = r /\ e.pinned = s /\ e.from = exec.from
        /\ e.changed = exec.changed /\ e.resume = exec.resume /\ e.state = exec.state
        /\ e.features = exec.features /\ e.results = batches
    BY <1>a, <1>b, <1>e, <1>u DEF Execution
  <1>4. Proceed(c, e)
    BY <1>c, <1>d, <1>e DEF LoadBatches
  <1>5. /\ exec' \in Execution /\ at' = "checkpoint"
        /\ exec'.run = r /\ exec'.pinned = s /\ exec'.from = exec.from /\ exec'.changed = exec.changed
        /\ exec'.resume = exec.resume /\ exec'.features = exec.features /\ exec'.results = batches
        /\ exec'.state.results = exec.state.results
        /\ exec'.state.resumedFrom = exec.state.resumedFrom
        /\ exec'.state.extracting = exec.state.extracting
    BY <1>2, <1>3, <1>4, InMemory, RecordsAreCheckpoints DEF Proceed
  <1>6. TypeOK'
    BY <1>0, <1>5 DEF IInv, TypeOK
  <1>7. StepInv' /\ FilesInv' /\ CopyInv'
    <2>1. stage \in Late /\ ResultsFit(r, c.batches)
      BY <1>0, <1>1, <1>2 DEF Late
    <2>2. QED
      BY <1>0, <1>a, <1>b, <1>u, <1>2, <1>3, <1>4, <2>1, LateRecord
  <1>8. ResumeInv'
    BY <1>0, <1>m, <1>a, <1>b, <1>5, ResumeStays
  <1>9. ComputedInv'
    <2>1. Extracted
      BY <1>0 DEF Extracted, Late
    <2>2. ResultsFit(r, exec.state.results) /\ Fits(r, s, exec.features)
      BY <1>0, <1>a, <1>b, <2>1 DEF IInv, ComputedInv
    <2>3. ResultsFit(r, exec.state.results)' /\ Fits(r, s, exec.features)' /\ ResultsFit(r, batches)'
      <3>1. \A x : ResultsFit(r, x) => ResultsFit(r, x)'
        BY <1>m, Later
      <3>2. \A f : Fits(r, s, f) => Fits(r, s, f)'
        BY <1>m, Later
      <3>3. QED
        BY <1>1, <1>5, <2>2, <3>1, <3>2
    <2>4. QED
      BY <1>0, <1>c, <1>5, <2>3 DEF ComputedInv
  <1>10. ExtractingInv'
    BY <1>0, <1>a, <1>5 DEF IInv, ExtractingInv
  <1>11. FeaturesFit'
    BY <1>0, <1>m, FeaturesFitStays
  <1>12. QED
    BY <1>6, <1>7, <1>8, <1>9, <1>10, <1>11 DEF IInv

(* Results of the execution's own set are staged. *)
LEMMA StageBatchesIInv ==
  ASSUME IInv, StageBatches PROVE IInv'
  <1>0. /\ stage = "batch_building" /\ at = "work" /\ at' = "write"
        /\ exec.results.set = exec.pinned
        /\ staged' = [staged EXCEPT ![exec.run] = NoResults]
        /\ UNCHANGED <<active, checkpoint, run, manifest, stage, registered, unextracted, split, executions, updates>>
    BY DEF StageBatches, hist, count
  <1>a. PICK r : r = exec.run
    OBVIOUS
  <1>b. PICK s : s = exec.pinned
    OBVIOUS
  <1>c. PICK st : st = [exec.state EXCEPT !.results = exec.results]
    OBVIOUS
  <1>m. split \subseteq split' /\ unextracted \subseteq unextracted'
    BY <1>0
  <1>u. /\ exec \in Execution /\ r \in Runs /\ s \in ModelSets /\ exec.state \in RunState
        /\ exec.results \in Results \cup {NoResults}
        /\ RecordOK(r, exec.state.checkpoint)
    <2>1. /\ exec \in Execution /\ r \in Runs /\ s \in ModelSets /\ exec.state \in RunState
          /\ RecordOK(r, exec.state.checkpoint)
      BY <1>0, <1>a, <1>b, UnderWay
    <2>2. QED
      BY <2>1 DEF Execution
  <1>1. /\ st \in RunState /\ st.status = exec.state.status /\ st.results = exec.results
        /\ st.extracting = exec.state.extracting /\ st.resumedFrom = exec.state.resumedFrom
        /\ st.checkpoint = exec.state.checkpoint
    BY <1>c, <1>u DEF RunState
  <1>2. /\ exec' \in Execution /\ exec'.run = r /\ exec'.pinned = s /\ exec'.from = exec.from
        /\ exec'.changed = exec.changed /\ exec'.resume = exec.resume /\ exec'.state = st
        /\ exec'.features = exec.features /\ exec'.results = exec.results
    <2>1. exec' = [exec EXCEPT !.state.results = exec.results]
      BY DEF StageBatches
    <2>2. exec' = [exec EXCEPT !.state = st]
      BY <1>c, <1>u, <2>1 DEF Execution
    <2>3. QED
      BY <1>a, <1>b, <1>u, <1>1, <2>2 DEF Execution
  <1>3. TypeOK'
    BY <1>0, <1>2 DEF IInv, TypeOK
  <1>4. StepInv'
    BY <1>0 DEF StepInv
  <1>5. FilesInv'
    <2>1. \A q \in Runs : Lagging(q) => Lagging(q)'
      BY <1>0 DEF Lagging
    <2>2. QED
      BY <1>0, <1>m, <2>1, FilesFrame DEF IInv
  <1>6. CopyInv'
    <2>1. Extracted /\ Preprocessed /\ Extracted' /\ Preprocessed'
      BY <1>0 DEF Extracted, Preprocessed, Late
    <2>2. /\ exec.state.status # "none" /\ run[r].status # "none"
          /\ Members(exec.state.checkpoint.set) = Members(s)
          /\ Members(checkpoint[r].set) = Members(s)
          /\ exec.state.checkpoint.set = s /\ Fits(r, s, exec.state.checkpoint.features)
          /\ \/ r \in split
             \/ exec.state.checkpoint.preprocessed /\ checkpoint[r].preprocessed /\ run[r].checkpoint.preprocessed
      BY <1>0, <1>a, <1>b, <2>1 DEF IInv, CopyInv
    <2>3. RecordOK(r, exec.state.checkpoint)' /\ Fits(r, s, exec.state.checkpoint.features)'
      BY <1>m, <1>u, <1>1, <1>2, <2>2, Later
    <2>4. QED
      BY <1>0, <1>u, <1>1, <1>2, <2>2, <2>3 DEF CopyInv
  <1>7. ResumeInv'
    BY <1>0, <1>m, <1>a, <1>b, <1>2, ResumeStays
  <1>8. ComputedInv'
    <2>1. Extracted
      BY <1>0 DEF Extracted, Late
    <2>2. ResultsFit(r, exec.results) /\ Fits(r, s, exec.features)
      BY <1>0, <1>a, <1>b, <2>1 DEF IInv, ComputedInv
    <2>3. ResultsFit(r, exec.results)' /\ Fits(r, s, exec.features)'
      BY <1>m, <1>2, <2>2, Later
    <2>4. QED
      BY <1>0, <1>b, <1>1, <1>2, <2>3 DEF ComputedInv
  <1>9. ExtractingInv'
    BY <1>0, <1>a, <1>1, <1>2 DEF IInv, ExtractingInv
  <1>10. FeaturesFit'
    BY <1>0, <1>m, FeaturesFitStays
  <1>11. QED
    BY <1>3, <1>4, <1>5, <1>6, <1>7, <1>8, <1>9, <1>10 DEF IInv

(* The manifest names the results that were staged. *)
LEMMA WriteManifestIInv ==
  ASSUME IInv, WriteManifest PROVE IInv'
  <1>0. /\ stage = "batch_building" /\ at = "write"
        /\ staged' = [staged EXCEPT ![exec.run] = exec.results]
        /\ manifest' = [manifest EXCEPT ![exec.run] = exec.results]
        /\ UNCHANGED <<active, checkpoint, run, stage, registered, unextracted, split, executions, updates>>
    BY DEF WriteManifest, hist, count
  <1>a. PICK r : r = exec.run
    OBVIOUS
  <1>b. PICK s : s = exec.pinned
    OBVIOUS
  <1>c. PICK c : c = [Recorded("batch_building", "resumable") EXCEPT !.batches = exec.results]
    OBVIOUS
  <1>d. PICK e : e = exec
    OBVIOUS
  <1>m. split \subseteq split' /\ unextracted \subseteq unextracted'
    BY <1>0
  <1>u. /\ exec \in Execution /\ r \in Runs /\ s \in ModelSets /\ exec.state \in RunState
        /\ exec.results \in Results \cup {NoResults}
    <2>1. exec \in Execution /\ r \in Runs /\ s \in ModelSets /\ exec.state \in RunState
      BY <1>0, <1>a, <1>b, UnderWay
    <2>2. QED
      BY <2>1 DEF Execution
  <1>1. exec.results.set = s /\ ResultsFit(r, exec.results) /\ ResultsFit(r, exec.state.results)
        /\ Fits(r, s, exec.features)
    BY <1>0, <1>a, <1>b DEF IInv, ComputedInv, Extracted, Late
  <1>2. /\ c \in CheckpointRecords /\ c.set = s
        /\ c.preprocessed = exec.state.checkpoint.preprocessed
        /\ c.features = exec.state.checkpoint.features /\ c.batches = exec.results
    BY <1>b, <1>c, <1>u, StageNames, RecordedFields DEF CheckpointRecords
  <1>3. Proceed(c, e)
    BY <1>c, <1>d DEF WriteManifest
  <1>4. /\ exec' \in Execution /\ at' = "checkpoint"
        /\ exec'.run = r /\ exec'.pinned = s /\ exec'.from = exec.from /\ exec'.changed = exec.changed
        /\ exec'.resume = exec.resume /\ exec'.features = exec.features /\ exec'.results = exec.results
        /\ exec'.state.results = exec.state.results
        /\ exec'.state.resumedFrom = exec.state.resumedFrom
        /\ exec'.state.extracting = exec.state.extracting
    BY <1>2, <1>3, <1>a, <1>b, <1>d, <1>u, InMemory, RecordsAreCheckpoints DEF Proceed
  <1>5. TypeOK'
    BY <1>0, <1>4, <1>u DEF IInv, TypeOK
  <1>6. StepInv' /\ FilesInv' /\ CopyInv'
    <2>1. stage \in Late /\ ResultsFit(r, c.batches)
      BY <1>0, <1>1, <1>2 DEF Late
    <2>2. e \in Execution /\ e.run = r /\ e.pinned = s /\ e.state.status = exec.state.status
      BY <1>a, <1>b, <1>d, <1>u
    <2>3. QED
      BY <1>0, <1>a, <1>b, <1>u, <1>2, <1>3, <2>1, <2>2, LateRecord
  <1>7. ResumeInv'
    BY <1>0, <1>m, <1>a, <1>b, <1>4, ResumeStays
  <1>8. ComputedInv'
    <2>1. ResultsFit(r, exec.state.results)' /\ Fits(r, s, exec.features)' /\ ResultsFit(r, exec.results)'
      <3>1. \A x : ResultsFit(r, x) => ResultsFit(r, x)'
        BY <1>m, Later
      <3>2. \A f : Fits(r, s, f) => Fits(r, s, f)'
        BY <1>m, Later
      <3>3. QED
        BY <1>1, <1>4, <3>1, <3>2
    <2>2. QED
      BY <1>0, <1>1, <1>4, <2>1 DEF ComputedInv
  <1>9. ExtractingInv'
    BY <1>0, <1>a, <1>4 DEF IInv, ExtractingInv
  <1>10. FeaturesFit'
    BY <1>0, <1>m, FeaturesFitStays
  <1>11. QED
    BY <1>5, <1>6, <1>7, <1>8, <1>9, <1>10 DEF IInv

(* What is registered fits. *)
LEMMA DeliverIInv ==
  ASSUME IInv, Deliver PROVE IInv'
  <1>a. PICK r : r = exec.run
    OBVIOUS
  <1>b. PICK s : s = exec.pinned
    OBVIOUS
  <1>c. PICK c : c = Recorded("prediction_delivery", "completed")
    OBVIOUS
  <1>d. PICK e : e = exec
    OBVIOUS
  <1>0. /\ stage = "prediction_delivery" /\ at = "work"
        /\ registered' = registered \cup {[run |-> r, pinned |-> s, results |-> exec.results]}
        /\ Proceed(c, e)
        /\ UNCHANGED <<active, checkpoint, run, manifest, staged, stage, unextracted, split, executions, updates>>
    BY <1>a, <1>b, <1>c, <1>d DEF Deliver, files, count
  <1>m. split \subseteq split' /\ unextracted \subseteq unextracted'
    BY <1>0
  <1>u. /\ exec \in Execution /\ r \in Runs /\ s \in ModelSets /\ exec.state \in RunState
        /\ exec.results \in Results \cup {NoResults} /\ exec.resume \in Checkpoint
        /\ exec.state.checkpoint \in CheckpointRecords /\ RecordOK(r, exec.state.checkpoint)
    <2>1. /\ exec \in Execution /\ r \in Runs /\ s \in ModelSets /\ exec.state \in RunState
          /\ exec.state.checkpoint \in CheckpointRecords /\ RecordOK(r, exec.state.checkpoint)
      BY <1>0, <1>a, <1>b, UnderWay
    <2>2. QED
      BY <2>1 DEF Execution
  <1>1. /\ ResultsFit(r, exec.results) /\ ResultsFit(r, exec.state.results)
        /\ Fits(r, s, exec.features)
        /\ \/ exec.results.set = s
           \/ exec.results = exec.resume.batches /\ exec.resume.batches # NoResults
    BY <1>0, <1>a, <1>b DEF IInv, ComputedInv, Extracted, Late
  <1>r. exec.results \in Results
    <2>1. CASE exec.results.set = s
      <3>1. NoResults.set = NoSet
        BY DEF NoResults
      <3>2. QED
        BY <1>u, <2>1, <3>1
    <2>2. CASE exec.results = exec.resume.batches /\ exec.resume.batches # NoResults
      BY <1>u, <2>2
    <2>3. QED
      BY <1>1, <2>1, <2>2
  <1>2. /\ c \in CheckpointRecords /\ c.set = s
        /\ c.preprocessed = exec.state.checkpoint.preprocessed
        /\ c.features = exec.state.checkpoint.features /\ c.batches = exec.state.checkpoint.batches
    BY <1>b, <1>c, <1>u, StageNames, RecordedFields
  <1>4. /\ exec' \in Execution /\ at' = "checkpoint"
        /\ exec'.run = r /\ exec'.pinned = s /\ exec'.from = exec.from /\ exec'.changed = exec.changed
        /\ exec'.resume = exec.resume /\ exec'.features = exec.features /\ exec'.results = exec.results
        /\ exec'.state.results = exec.state.results
        /\ exec'.state.resumedFrom = exec.state.resumedFrom
        /\ exec'.state.extracting = exec.state.extracting
    BY <1>0, <1>2, <1>a, <1>b, <1>d, <1>u, InMemory, RecordsAreCheckpoints DEF Proceed
  <1>5. TypeOK'
    BY <1>0, <1>4, <1>u, <1>r DEF IInv, TypeOK
  <1>6. StepInv' /\ FilesInv' /\ CopyInv'
    <2>1. stage \in Late /\ ResultsFit(r, c.batches)
      BY <1>0, <1>2, <1>u DEF Late, RecordOK
    <2>2. e \in Execution /\ e.run = r /\ e.pinned = s /\ e.state.status = exec.state.status
      BY <1>a, <1>b, <1>d, <1>u
    <2>3. QED
      BY <1>0, <1>a, <1>b, <1>u, <1>2, <2>1, <2>2, LateRecord
  <1>7. ResumeInv'
    BY <1>0, <1>m, <1>a, <1>b, <1>4, ResumeStays
  <1>8. ComputedInv'
    <2>1. ResultsFit(r, exec.state.results)' /\ Fits(r, s, exec.features)' /\ ResultsFit(r, exec.results)'
      <3>1. \A x : ResultsFit(r, x) => ResultsFit(r, x)'
        BY <1>m, Later
      <3>2. \A f : Fits(r, s, f) => Fits(r, s, f)'
        BY <1>m, Later
      <3>3. QED
        BY <1>1, <1>4, <3>1, <3>2
    <2>2. QED
      BY <1>0, <1>1, <1>4, <2>1 DEF ComputedInv
  <1>9. ExtractingInv'
    BY <1>0, <1>a, <1>4 DEF IInv, ExtractingInv
  <1>10. FeaturesFit'
    <2> SUFFICES ASSUME NEW g \in registered', NEW m \in DOMAIN g.results.features
                 PROVE  \/ g.results.features[m] = Schema[g.results.set][m]
                        \/ <<g.run, m>> \in unextracted
                        \/ g.run \in split
      BY <1>0 DEF FeaturesFit
    <2>1. CASE g \in registered
      BY <2>1 DEF IInv, FeaturesFit
    <2>2. CASE g = [run |-> r, pinned |-> s, results |-> exec.results]
      BY <1>1, <2>2 DEF ResultsFit, Fits
    <2>3. QED
      BY <1>0, <2>1, <2>2
  <1>11. QED
    BY <1>5, <1>6, <1>7, <1>8, <1>9, <1>10 DEF IInv

-----------------------------------------------------------------------------
(* The first of the two saves: the checkpoint runs ahead of the run state.  *)
LEMMA SaveCheckpointIInv ==
  ASSUME IInv, SaveCheckpoint PROVE IInv'
  <1>a. PICK r : r = exec.run
    OBVIOUS
  <1>b. PICK s : s = exec.pinned
    OBVIOUS
  <1>c. PICK c : c = exec.state.checkpoint
    OBVIOUS
  <1>0. /\ at = "checkpoint" /\ at' = "state" /\ stage \notin {"idle", "cleanup"}
        /\ checkpoint' = [checkpoint EXCEPT ![r] = c]
        /\ UNCHANGED <<active, run, manifest, staged, stage, exec, registered, unextracted, split, executions, updates>>
    BY <1>a, <1>c DEF SaveCheckpoint, hist, count, IInv, StepInv
  <1>m. split \subseteq split' /\ unextracted \subseteq unextracted'
    BY <1>0
  <1>u. /\ r \in Runs /\ s \in ModelSets /\ c \in Checkpoint /\ RecordOK(r, c)
        /\ exec.state \in RunState /\ Members(c.set) = Members(s)
    BY <1>0, <1>a, <1>b, <1>c, UnderWay
  <1>1. c.set = s /\ Fits(r, s, c.features)
    BY <1>0, <1>a, <1>b, <1>c DEF IInv, CopyInv
  <1>2. checkpoint'[r] = c /\ \A q \in Runs : q # r => checkpoint'[q] = checkpoint[q]
    BY <1>0, <1>u DEF IInv, TypeOK
  <1>3. TypeOK'
    BY <1>0, <1>u DEF IInv, TypeOK
  <1>4. StepInv'
    BY <1>0 DEF IInv, StepInv
  <1>5. FilesInv'
    <2> SUFFICES ASSUME NEW q \in Runs, run'[q].status # "none" PROVE FilesOK(q)'
      BY DEF FilesInv
    <2>1. FilesOK(q) /\ run'[q] = run[q]
      BY <1>0 DEF IInv, FilesInv
    <2>2. /\ RecordOK(q, run[q].checkpoint)' /\ ResultsFit(q, run[q].results)'
      BY <1>m, <2>1, Later DEF FilesOK
    <2>3. CASE q # r
      <3>1. RecordOK(q, checkpoint[q])' /\ Fits(q, checkpoint[q].set, checkpoint[q].features)'
        BY <1>m, <1>2, <2>1, <2>3, Later DEF FilesOK
      <3>2. Lagging(q)' <=> Lagging(q)
        BY <1>0, <1>a, <2>3 DEF Lagging
      <3>3. QED
        BY <1>0, <1>2, <2>1, <2>2, <2>3, <3>1, <3>2 DEF FilesOK
    <2>4. CASE q = r
      <3>1. stage # "source_validated"
        BY <1>0, <1>a, <2>1, <2>4 DEF IInv, CopyInv
      <3>2. Members(c.set) = Members(run[r].checkpoint.set)
        BY <1>0, <1>a, <1>b, <1>u, <2>1, <2>4, <3>1 DEF IInv, CopyInv, FilesOK
      <3>3. RecordOK(r, c)' /\ Fits(r, c.set, c.features)'
        BY <1>m, <1>u, <1>1, Later
      <3>4. r \in split \/ c.preprocessed
        BY <1>0, <1>a, <1>c, <3>1 DEF IInv, CopyInv, Preprocessed, Late, TypeOK, Stages
      <3>5. Lagging(r)' \/ (c.preprocessed => run[r].checkpoint.preprocessed)
        BY <1>0, <1>a, <1>c, <3>1 DEF IInv, CopyInv, Preprocessed, Late, TypeOK, Stages, Lagging
      <3>6. QED
        BY <1>0, <1>2, <2>1, <2>2, <2>4, <3>2, <3>3, <3>4, <3>5 DEF FilesOK
    <2>5. QED
      BY <2>3, <2>4
  <1>6. CopyInv'
    <2>1. RecordOK(r, c)' /\ Fits(r, s, c.features)'
      BY <1>m, <1>u, <1>1, Later
    <2>2. /\ exec.state.status # "none"
          /\ stage = "source_validated" => run[r].status = "none" /\ c.features = <<>>
          /\ stage # "source_validated" => run[r].status # "none"
      BY <1>0, <1>a, <1>b, <1>c DEF IInv, CopyInv
    <2>3. /\ stage = "preprocessing" => r \in split \/ (c.features = <<>> /\ c.preprocessed)
          /\ Preprocessed => r \in split \/ (c.preprocessed /\ run[r].checkpoint.preprocessed)
      <3>1. stage = "preprocessing" => r \in split \/ (c.features = <<>> /\ c.preprocessed)
        BY <1>0, <1>a, <1>c DEF IInv, CopyInv
      <3>2. Preprocessed => r \in split \/ (c.preprocessed /\ run[r].checkpoint.preprocessed)
        BY <1>0, <1>a, <1>c DEF IInv, CopyInv
      <3>3. QED
        BY <3>1, <3>2
    <2>4. Preprocessed' <=> Preprocessed
      BY <1>0 DEF Preprocessed
    <2>5. QED
      BY <1>0, <1>a, <1>b, <1>c, <1>u, <1>1, <1>2, <2>1, <2>2, <2>3, <2>4 DEF CopyInv
  <1>7. ResumeInv'
    BY <1>0, <1>m, ResumeStays
  <1>8. ComputedInv'
    <2>1. Extracted' <=> Extracted
      BY <1>0 DEF Extracted
    <2>2. QED
      BY <1>0, <1>m, <2>1, Later DEF IInv, ComputedInv
  <1>9. ExtractingInv'
    BY <1>0 DEF IInv, ExtractingInv
  <1>10. FeaturesFit'
    BY <1>0, <1>m, FeaturesFitStays
  <1>11. QED
    BY <1>3, <1>4, <1>5, <1>6, <1>7, <1>8, <1>9, <1>10 DEF IInv

(* The run state r is saved as x, whose copy is of the execution's set and  *)
(* lags behind the checkpoint only where preprocessing got split.           *)
LEMMA SavedFiles ==
  ASSUME IInv, NEW r \in Runs, NEW x \in RunState,
         run' = [run EXCEPT ![r] = x], UNCHANGED <<checkpoint, unextracted, split>>,
         r = exec.run,
         RecordOK(r, checkpoint[r]), RecordOK(r, x.checkpoint),
         Members(checkpoint[r].set) = Members(x.checkpoint.set),
         Fits(r, checkpoint[r].set, checkpoint[r].features), ResultsFit(r, x.results),
         r \in split \/ checkpoint[r].preprocessed \/ x.checkpoint.features = <<>>,
         r \in split \/ (checkpoint[r].preprocessed => x.checkpoint.preprocessed)
  PROVE  FilesInv'
  <1>0. run'[r] = x /\ \A q \in Runs : q # r => run'[q] = run[q]
    BY DEF IInv, TypeOK
  <1>m. split \subseteq split' /\ unextracted \subseteq unextracted'
    OBVIOUS
  <1> SUFFICES ASSUME NEW q \in Runs, run'[q].status # "none" PROVE FilesOK(q)'
    BY DEF FilesInv
  <1>1. CASE q = r
    <2>1. RecordOK(r, checkpoint[r])' /\ RecordOK(r, x.checkpoint)'
          /\ Fits(r, checkpoint[r].set, checkpoint[r].features)' /\ ResultsFit(r, x.results)'
      BY <1>m, Later
    <2>2. QED
      BY <1>0, <1>1, <2>1 DEF FilesOK, Lagging
  <1>2. CASE q # r
    <2>1. FilesOK(q) /\ run'[q] = run[q]
      BY <1>0, <1>2 DEF IInv, FilesInv
    <2>2. /\ RecordOK(q, checkpoint[q])' /\ RecordOK(q, run[q].checkpoint)'
          /\ Fits(q, checkpoint[q].set, checkpoint[q].features)' /\ ResultsFit(q, run[q].results)'
      BY <1>m, <2>1, Later DEF FilesOK
    <2>3. Lagging(q) => q \in split
      BY <1>2 DEF Lagging
    <2>4. QED
      BY <2>1, <2>2, <2>3 DEF FilesOK, Lagging
  <1>3. QED
    BY <1>1, <1>2

(* The second save: both files have the record. *)
LEMMA SaveRunStateIInv ==
  ASSUME IInv, SaveRunState PROVE IInv'
  <1>a. PICK r : r = exec.run
    OBVIOUS
  <1>b. PICK s : s = exec.pinned
    OBVIOUS
  <1>c. PICK c : c = exec.state.checkpoint
    OBVIOUS
  <1>d. PICK x : x = exec.state
    OBVIOUS
  <1>0. /\ at = "state" /\ at' = "work" /\ stage \in {Stages[i] : i \in 1..6}
        /\ run' = [run EXCEPT ![r] = x] /\ stage' = StageAfter(stage)
        /\ UNCHANGED <<active, checkpoint, manifest, staged, exec, registered, unextracted, split, executions, updates>>
    BY <1>a, <1>d DEF SaveRunState, hist, count, IInv, StepInv, TypeOK
  <1>1. \/ stage = "source_validated" /\ stage' = "preprocessing"
        \/ stage = "preprocessing" /\ stage' = "runtime_feature"
        \/ stage = "runtime_feature" /\ stage' = "runtime_prediction"
        \/ stage = "runtime_prediction" /\ stage' = "batch_building"
        \/ stage = "batch_building" /\ stage' = "prediction_delivery"
        \/ stage = "prediction_delivery" /\ stage' = "cleanup"
    BY <1>0, StageNames, StageOrder
  <1>n. stage # "idle" /\ stage' # "idle"
    BY <1>1
  <1>m. split \subseteq split' /\ unextracted \subseteq unextracted'
    BY <1>0
  <1>u. /\ r \in Runs /\ s \in ModelSets /\ RecordOK(r, c) /\ x \in RunState
        /\ c \in CheckpointRecords /\ Members(c.set) = Members(s) /\ x.checkpoint = c
    BY <1>n, <1>a, <1>b, <1>c, <1>d, UnderWay
  <1>2. /\ checkpoint[r] = c /\ c.set = s /\ Fits(r, s, c.features) /\ x.status # "none"
    BY <1>0, <1>n, <1>a, <1>b, <1>c, <1>d DEF IInv, CopyInv
  <1>3. /\ stage = "source_validated" => c.features = <<>>
        /\ stage # "source_validated" => r \in split \/ c.preprocessed
    <2>1. stage = "source_validated" => c.features = <<>>
      BY <1>n, <1>c DEF IInv, CopyInv
    <2>2. stage = "preprocessing" => r \in split \/ c.preprocessed
      BY <1>0, <1>a, <1>c DEF IInv, CopyInv
    <2>3. Preprocessed => r \in split \/ c.preprocessed
      BY <1>n, <1>a, <1>c DEF IInv, CopyInv
    <2>4. QED
      BY <1>1, <2>1, <2>2, <2>3 DEF Preprocessed, Late
  <1>4. run'[r] = x
    BY <1>0, <1>u DEF IInv, TypeOK
  <1>5. TypeOK'
    BY <1>0, <1>1, <1>u, StageNames DEF IInv, TypeOK
  <1>6. StepInv'
    BY <1>0, <1>1 DEF StepInv
  <1>7. FilesInv'
    <2>1. ResultsFit(r, x.results)
      BY <1>n, <1>a, <1>d DEF IInv, ComputedInv
    <2>2. r \in split \/ checkpoint[r].preprocessed \/ x.checkpoint.features = <<>>
      BY <1>2, <1>3, <1>u
    <2>3. QED
      BY <1>0, <1>2, <1>a, <1>u, <2>1, <2>2, SavedFiles
  <1>8. CopyInv'
    <2>1. RecordOK(r, c)' /\ Fits(r, s, c.features)'
      BY <1>m, <1>u, <1>2, Later
    <2>2. /\ exec'.run = r /\ exec'.pinned = s /\ exec'.state = x /\ x.checkpoint = c
          /\ checkpoint'[r] = c
      BY <1>0, <1>2, <1>a, <1>b, <1>d, <1>u
    <2>3. stage' = "preprocessing" => c.features = <<>>
      BY <1>1, <1>3
    <2>4. Preprocessed' => r \in split' \/ c.preprocessed
      BY <1>0, <1>1, <1>3 DEF Preprocessed, Late
    <2>5. stage' # "source_validated"
      BY <1>1
    <2>6. QED
      BY <1>0, <1>2, <1>4, <1>u, <2>1, <2>2, <2>3, <2>4, <2>5 DEF CopyInv
  <1>9. ResumeInv'
    BY <1>0, <1>n, <1>m, ResumeStays
  <1>10. ComputedInv'
    <2>1. Extracted' => Extracted
      BY <1>0, <1>1 DEF Extracted, Late
    <2>2. stage' \in {"prediction_delivery", "cleanup"} =>
            \/ stage = "batch_building" /\ at \in {"checkpoint", "state"}
            \/ stage \in {"prediction_delivery", "cleanup"}
      BY <1>0, <1>1
    <2>3. /\ ResultsFit(exec.run, exec.state.results)' /\ ResultsFit(exec.run, exec.results)'
          /\ Extracted => Fits(exec.run, exec.pinned, exec.features)'
      BY <1>0, <1>n, <1>m, Later DEF IInv, ComputedInv
    <2>4. QED
      BY <1>0, <1>n, <2>1, <2>2, <2>3 DEF IInv, ComputedInv
  <1>11. ExtractingInv'
    BY <1>0, <1>n, <1>4, <1>a, <1>d DEF IInv, ExtractingInv
  <1>12. FeaturesFit'
    BY <1>0, <1>m, FeaturesFitStays
  <1>13. QED
    BY <1>5, <1>6, <1>7, <1>8, <1>9, <1>10, <1>11, <1>12 DEF IInv

(* The execution is over. *)
LEMMA OverInv ==
  ASSUME stage' = "idle", at' = "work", exec' = NoExec
  PROVE  /\ StepInv' /\ CopyInv' /\ ResumeInv' /\ ComputedInv' /\ ExtractingInv'
         /\ exec' \in Execution
  <1>1. NoExec \in Execution
    <2>1. NoCheckpoint \in Checkpoint
      BY DEF Checkpoint
    <2>2. QED
      BY <2>1, NoFeatures DEF NoExec, NoRun, Execution, RunState
  <1>2. QED
    BY <1>1 DEF StepInv, CopyInv, ResumeInv, ComputedInv, ExtractingInv

LEMMA FinishIInv ==
  ASSUME IInv, Finish PROVE IInv'
  <1>a. PICK r : r = exec.run
    OBVIOUS
  <1>b. PICK s : s = exec.pinned
    OBVIOUS
  <1>c. PICK c : c = exec.state.checkpoint
    OBVIOUS
  <1>d. PICK x : x = [exec.state EXCEPT !.status = "finished"]
    OBVIOUS
  <1>0. /\ stage = "cleanup" /\ at = "work" /\ stage' = "idle" /\ at' = "work" /\ exec' = NoExec
        /\ manifest' = [manifest EXCEPT ![r] = NoResults]
        /\ staged' = [staged EXCEPT ![r] = NoResults]
        /\ run' = [run EXCEPT ![r] = x]
        /\ UNCHANGED <<active, checkpoint, registered, unextracted, split, executions, updates>>
    BY <1>a, <1>d DEF Finish, hist, count, IInv, StepInv
  <1>m. split \subseteq split' /\ unextracted \subseteq unextracted'
    BY <1>0
  <1>u. /\ r \in Runs /\ s \in ModelSets /\ RecordOK(r, c) /\ exec.state \in RunState
        /\ x \in RunState /\ x.checkpoint = c /\ x.results = exec.state.results
    <2>1. r \in Runs /\ s \in ModelSets /\ RecordOK(r, c) /\ exec.state \in RunState
      BY <1>0, <1>a, <1>b, <1>c, UnderWay
    <2>2. QED
      BY <2>1, <1>c, <1>d DEF RunState
  <1>1. checkpoint[r] = c /\ c.set = s /\ Fits(r, s, c.features)
    BY <1>0, <1>a, <1>b, <1>c DEF IInv, CopyInv, Extracted
  <1>2. r \in split \/ c.preprocessed
    BY <1>0, <1>a, <1>c DEF IInv, CopyInv, Preprocessed
  <1>3. TypeOK'
    BY <1>0, <1>u, OverInv DEF IInv, TypeOK
  <1>4. FilesInv'
    <2>1. ResultsFit(r, x.results)
      BY <1>0, <1>a, <1>u DEF IInv, ComputedInv
    <2>2. QED
      BY <1>0, <1>1, <1>2, <1>a, <1>u, <2>1, SavedFiles
  <1>5. FeaturesFit'
    BY <1>0, <1>m, FeaturesFitStays
  <1>6. QED
    BY <1>0, <1>3, <1>4, <1>5, OverInv DEF IInv

(* What a stage that fails has in memory is saved as the run state. *)
LEMMA StageFailsIInv ==
  ASSUME IInv, StageFails PROVE IInv'
  <1>a. PICK r : r = exec.run
    OBVIOUS
  <1>b. PICK s : s = exec.pinned
    OBVIOUS
  <1>c. PICK c : c = exec.state.checkpoint
    OBVIOUS
  <1>d. PICK x : x = [exec.state EXCEPT !.status = "failed",
                        !.extracting = IF stage = "runtime_feature" THEN FALSE ELSE exec.state.extracting]
    OBVIOUS
  <1>0. /\ stage \in {"preprocessing", "runtime_feature", "runtime_prediction", "batch_building"}
        /\ stage' = "idle" /\ at' = "work" /\ exec' = NoExec
        /\ run' = [run EXCEPT ![r] = x]
        /\ UNCHANGED <<active, checkpoint, manifest, staged, registered, unextracted, split, executions, updates>>
    BY <1>a, <1>d, StageNames DEF StageFails, hist, count
  <1>m. split \subseteq split' /\ unextracted \subseteq unextracted'
    BY <1>0
  <1>u. /\ r \in Runs /\ s \in ModelSets /\ RecordOK(r, c) /\ exec.state \in RunState
        /\ Members(c.set) = Members(s)
        /\ x \in RunState /\ x.checkpoint = c /\ x.results = exec.state.results
    <2>1. r \in Runs /\ s \in ModelSets /\ RecordOK(r, c) /\ exec.state \in RunState /\ Members(c.set) = Members(s)
      BY <1>0, <1>a, <1>b, <1>c, UnderWay
    <2>2. QED
      BY <2>1, <1>c, <1>d DEF RunState
  <1>1. run[r].status # "none" /\ Members(checkpoint[r].set) = Members(s)
    BY <1>0, <1>a, <1>b DEF IInv, CopyInv
  <1>2. FilesOK(r)
    BY <1>1, <1>u DEF IInv, FilesInv
  <1>3. /\ r \in split \/ checkpoint[r].preprocessed \/ c.features = <<>>
        /\ r \in split \/ (checkpoint[r].preprocessed => c.preprocessed)
    <2>1. CASE stage = "preprocessing"
      BY <1>a, <1>c, <2>1 DEF IInv, CopyInv
    <2>2. CASE stage # "preprocessing"
      <3>1. Preprocessed
        BY <1>0, <2>2 DEF Preprocessed, Late
      <3>2. QED
        BY <1>0, <1>a, <1>c, <3>1 DEF IInv, CopyInv
    <2>3. QED
      BY <2>1, <2>2
  <1>4. TypeOK'
    BY <1>0, <1>u, OverInv DEF IInv, TypeOK
  <1>5. FilesInv'
    <2>1. ResultsFit(r, x.results)
      BY <1>0, <1>a, <1>u DEF IInv, ComputedInv
    <2>2. QED
      BY <1>0, <1>1, <1>2, <1>3, <1>a, <1>u, <2>1, SavedFiles DEF FilesOK
  <1>6. FeaturesFit'
    BY <1>0, <1>m, FeaturesFitStays
  <1>7. QED
    BY <1>0, <1>4, <1>5, <1>6, OverInv DEF IInv

(* A process that dies leaves the files as they are. *)
LEMMA InterruptIInv ==
  ASSUME IInv, Interrupt PROVE IInv'
  <1>0. /\ stage # "idle" /\ stage' = "idle" /\ at' = "work" /\ exec' = NoExec
        /\ split' = IF stage = "preprocessing" /\ at = "state" THEN split \cup {exec.run} ELSE split
        /\ UNCHANGED <<active, checkpoint, run, manifest, staged, registered, unextracted, executions, updates>>
    BY DEF Interrupt, files, count
  <1>m. split \subseteq split' /\ unextracted \subseteq unextracted'
    BY <1>0
  <1>1. exec.run \in Runs
    BY <1>0, UnderWay
  <1>2. TypeOK'
    BY <1>0, <1>1, OverInv DEF IInv, TypeOK
  <1>3. FilesInv'
    <2>1. \A q \in Runs : Lagging(q) => Lagging(q)'
      BY <1>0 DEF Lagging
    <2>2. QED
      BY <1>0, <1>m, <2>1, FilesFrame DEF IInv
  <1>4. FeaturesFit'
    BY <1>0, <1>m, FeaturesFitStays
  <1>5. QED
    BY <1>0, <1>2, <1>3, <1>4, OverInv DEF IInv

-----------------------------------------------------------------------------
LEMMA NextIInv == IInv /\ [Next]_vars => IInv'
  <1> SUFFICES ASSUME IInv, [Next]_vars PROVE IInv'
    OBVIOUS
  <1>1. ASSUME NEW s \in ModelSets, UpdateModelSet(s) PROVE IInv'
    BY <1>1, UpdateIInv
  <1>2. ASSUME NEW r \in Runs, StartFresh(r) \/ Resume(r) \/ RefuseMembership(r) PROVE IInv'
    BY <1>2, StartFreshIInv, ResumeIInv, RefuseMembershipIInv
  <1>3. ASSUME NEW failing \in SUBSET Models, Extract(failing) PROVE IInv'
    BY <1>3, ExtractIInv
  <1>4. CASE Preprocess \/ RefuseExtract \/ Predict
    BY <1>4, PreprocessIInv, RefuseExtractIInv, PredictIInv
  <1>5. CASE LoadBatches \/ StageBatches \/ WriteManifest \/ Deliver
    BY <1>5, LoadBatchesIInv, StageBatchesIInv, WriteManifestIInv, DeliverIInv
  <1>6. CASE SaveCheckpoint \/ SaveRunState \/ Finish
    BY <1>6, SaveCheckpointIInv, SaveRunStateIInv, FinishIInv
  <1>7. CASE StageFails \/ Interrupt
    BY <1>7, StageFailsIInv, InterruptIInv
  <1>8. CASE UNCHANGED vars
    BY <1>8, StutterIInv
  <1>9. QED
    BY <1>1, <1>2, <1>3, <1>4, <1>5, <1>6, <1>7, <1>8 DEF Next

LEMMA InvariantIInv == Spec => []IInv
  BY InitIInv, NextIInv, PTL DEF Spec

(* The files, the execution and what it registers keep their types: a       *)
(* record of a run names a model set unless the run has none.               *)
THEOREM TypeCorrect == Spec => []TypeOK
  <1>1. IInv => TypeOK
    BY DEF IInv
  <1>2. QED
    BY <1>1, InvariantIInv, PTL

(* Whatever is registered was predicted from features of the schema that    *)
(* its model set asks for, through any number of interruptions, failures,   *)
(* resumptions and changes of the set, but for the two exceptions.          *)
THEOREM RegisteredFeaturesFit == Spec => []FeaturesFit
  <1>1. IInv => FeaturesFit
    BY DEF IInv
  <1>2. QED
    BY <1>1, InvariantIInv, PTL

(* An execution that meets a change of the model set registers results of   *)
(* its own set; another one those of its set or the batches it resumed.     *)
THEOREM ChangedSetIsRecalculated == Spec => ChangeRecalculated
  <1> DEFINE Changed ==
        \A g \in registered' \ registered :
           \/ g.results.set = g.pinned
           \/ /\ ~ exec.changed
              /\ exec.resume.set = g.pinned
              /\ exec.resume.batches = g.results
  <1>1. ASSUME IInv, [Next]_vars PROVE Changed
    <2>1. CASE Deliver
      <3> SUFFICES ASSUME NEW g \in registered' \ registered, g.results.set # g.pinned
                   PROVE  ~ exec.changed /\ exec.resume.set = g.pinned /\ exec.resume.batches = g.results
        OBVIOUS
      <3>1. g.pinned = exec.pinned /\ g.results = exec.results /\ stage = "prediction_delivery"
        BY <2>1 DEF Deliver
      <3>2. exec.results = exec.resume.batches /\ exec.resume.batches # NoResults
        BY <1>1, <3>1 DEF IInv, ComputedInv
      <3>3. exec.from # "none"
        BY <1>1, <3>1, <3>2 DEF IInv, ResumeInv, NoCheckpoint
      <3>4. exec.resume.set = exec.pinned /\ (exec.changed => exec.resume.batches = NoResults)
        BY <1>1, <3>1, <3>3 DEF IInv, ResumeInv
      <3>5. QED
        BY <3>1, <3>2, <3>4
    <2>2. CASE ~ Deliver
      <3>1. registered' = registered
        BY <1>1, <2>2 DEF Next, UpdateModelSet, StartFresh, Resume, RefuseMembership, Preprocess, Extract,
           RefuseExtract, Predict, LoadBatches, StageBatches, WriteManifest, SaveCheckpoint, SaveRunState,
           Finish, StageFails, Interrupt, vars, hist
      <3>2. QED
        BY <3>1
    <2>3. QED
      BY <2>1, <2>2
  <1>2. IInv /\ [Next]_vars => [Changed]_vars
    BY <1>1
  <1>3. QED
    BY <1>2, InvariantIInv, PTL DEF Spec, ChangeRecalculated

(* Only an execution that resumed at prediction or later leaves its run     *)
(* with the feature stage running.                                          *)
THEOREM OnlyLateResumeIsRefused == Spec => RefusedOnlyAfterLateResume
  <1> DEFINE OnlyLate == \A r \in Runs : run'[r].extracting =>
                            run[r].extracting \/ run'[r].resumedFrom \in Late
  <1>1. ASSUME IInv, [Next]_vars PROVE OnlyLate
    <2>1. ASSUME stage # "idle", NEW x \in RunState, run' = [run EXCEPT ![exec.run] = x],
                 x.extracting => exec.state.extracting, x.resumedFrom = exec.state.resumedFrom
          PROVE  OnlyLate
      <3>1. exec.run \in Runs
        BY <1>1, <2>1, UnderWay
      <3>2. exec.state.extracting => run[exec.run].extracting \/ exec.state.resumedFrom \in Late
        BY <1>1, <2>1 DEF IInv, ExtractingInv
      <3>3. QED
        BY <1>1, <2>1, <3>1, <3>2 DEF IInv, TypeOK
    <2>2. CASE SaveRunState
      <3>1. stage # "idle"
        BY <1>1, <2>2 DEF SaveRunState, IInv, StepInv
      <3>2. QED
        BY <1>1, <2>1, <2>2, <3>1, UnderWay DEF SaveRunState
    <2>3. CASE Finish
      <3>1. stage # "idle" /\ exec.state \in RunState
        BY <1>1, <2>3, UnderWay DEF Finish
      <3>2. PICK x : x = [exec.state EXCEPT !.status = "finished"]
        OBVIOUS
      <3>3. x \in RunState /\ x.extracting = exec.state.extracting /\ x.resumedFrom = exec.state.resumedFrom
        BY <3>1, <3>2 DEF RunState
      <3>4. QED
        BY <2>1, <2>3, <3>1, <3>2, <3>3 DEF Finish
    <2>4. CASE StageFails
      <3>1. stage # "idle" /\ exec.state \in RunState
        BY <1>1, <2>4, UnderWay, StageNames DEF StageFails
      <3>2. PICK x : x = [exec.state EXCEPT !.status = "failed",
                            !.extracting = IF stage = "runtime_feature" THEN FALSE ELSE exec.state.extracting]
        OBVIOUS
      <3>3. x \in RunState /\ (x.extracting => exec.state.extracting) /\ x.resumedFrom = exec.state.resumedFrom
        BY <3>1, <3>2 DEF RunState
      <3>4. QED
        BY <2>1, <2>4, <3>1, <3>2, <3>3 DEF StageFails
    <2>5. CASE ~ SaveRunState /\ ~ Finish /\ ~ StageFails
      <3>1. run' = run
        BY <1>1, <2>5 DEF Next, UpdateModelSet, StartFresh, Resume, RefuseMembership, Preprocess, Extract,
           RefuseExtract, Predict, LoadBatches, StageBatches, WriteManifest, Deliver, SaveCheckpoint,
           Interrupt, vars, files
      <3>2. QED
        BY <3>1
    <2>6. QED
      BY <2>2, <2>3, <2>4, <2>5
  <1>2. IInv /\ [Next]_vars => [OnlyLate]_vars
    BY <1>1
  <1>3. QED
    BY <1>2, InvariantIInv, PTL DEF Spec, RefusedOnlyAfterLateResume
=============================================================================
