----------------------------- MODULE PipelineRun -----------------------------
(***************************************************************************)
(* The stages of a pipeline run and its resumption under an active model   *)
(* set that may have changed: PipelineService.execute_queue_item with the  *)
(* state of PipelineStateManager and the files of PipelineRepository.      *)
(*                                                                         *)
(* One source is executed again and again by the worker thread.  A run has *)
(* two files: its checkpoint, and its run state, which embeds a copy of    *)
(* the checkpoint.  They are saved one after the other, each atomically.   *)
(* What a stage computes is named by what it was computed from: features   *)
(* by the schema of their model, results and batches by the model set and  *)
(* the features (Results).  Artifacts are removed by the cleanup of a      *)
(* completed run only, so a reference to one is valid.  Left out: a        *)
(* checkpoint without mandatory fields or of another source context, which *)
(* neither its schema nor the search by source identity lets through, and  *)
(* what PredictionDelivery has of the delivery stage.                      *)
(***************************************************************************)
EXTENDS Naturals, Sequences

CONSTANTS
  Models,         \* model ids
  ModelSets,      \* contents that active-model-set.json may have
  Schema,         \* feature schema and history requirement of each model of a set
  Runs,           \* run ids
  NoSet, NoId,    \* not a model set, not a run id
  MaxExecutions,  \* bound on the executions of the source
  MaxUpdates      \* bound on the changes of the active model set

Members(s) == DOMAIN Schema[s]
Schemas    == UNION {{Schema[s][m] : m \in Members(s)} : s \in ModelSets}

ASSUME PipelineRunAssumption ==
  /\ \A s \in ModelSets : Members(s) \subseteq Models /\ Members(s) # {}
  /\ NoSet \notin ModelSets /\ NoId \notin Runs
  /\ MaxExecutions \in Nat /\ MaxUpdates \in Nat

VARIABLES
  active,      \* active-model-set.json
  checkpoint,  \* pipeline_checkpoints/<run>.json
  run,         \* pipeline_runs/<run>.json
  manifest,    \* the results batch-manifest.json of a run was made of
  staged,      \* and those its batch files hold
  stage, at,   \* the stage of the execution under way, and how far it is
  exec,        \* its local variables
  registered,  \* batches in the outbox: run, model set pinned, results
  unextracted, \* history: run and model whose features could not be extracted
  split,       \* history: runs whose preprocessing got into the checkpoint only
  executions, updates

files == <<checkpoint, run, manifest, staged>>
hist  == <<registered, unextracted, split>>
count == <<executions, updates>>
vars  == <<active, files, stage, at, exec, hist, count>>

Stages == <<"source_validated", "preprocessing", "runtime_feature",
            "runtime_prediction", "batch_building", "prediction_delivery">>
Late   == {"runtime_prediction", "batch_building", "prediction_delivery"}

(* Results of a prediction: the model set that made them, and for each     *)
(* model that had features the schema they were extracted under.           *)
Features  == UNION {[ms -> Schemas] : ms \in SUBSET Models}
Results   == [set : ModelSets, features : Features]
NoResults == [set |-> NoSet, features |-> <<>>]

NoCheckpoint == [status |-> "none", set |-> NoSet, last |-> "none",
  preprocessed |-> FALSE, extracted |-> FALSE, features |-> <<>>, batches |-> NoResults]
NoRun == [status |-> "none", extracting |-> FALSE, resumedFrom |-> "none",
  results |-> NoResults, checkpoint |-> NoCheckpoint]
NoExec == [run |-> NoId, pinned |-> NoSet, from |-> "none",
  changed |-> FALSE, resume |-> NoCheckpoint, state |-> NoRun,
  features |-> <<>>, results |-> NoResults]

Checkpoint ==
  [status : {"resumable", "completed"}, set : ModelSets, last : {Stages[i] : i \in 1..6},
   preprocessed : BOOLEAN, extracted : BOOLEAN, features : Features,
   batches : Results \cup {NoResults}] \cup {NoCheckpoint}
RunState ==
  [status : {"none", "running", "failed", "finished"}, extracting : BOOLEAN,
   resumedFrom : {"none"} \cup {Stages[i] : i \in 2..6},
   results : Results \cup {NoResults}, checkpoint : Checkpoint]
Execution ==
  [run : Runs \cup {NoId}, pinned : ModelSets \cup {NoSet},
   from : {"none"} \cup {Stages[i] : i \in 2..6}, changed : BOOLEAN,
   resume : Checkpoint, state : RunState, features : Features,
   results : Results \cup {NoResults}]

TypeOK ==
  /\ active \in ModelSets
  /\ checkpoint \in [Runs -> Checkpoint]
  /\ run \in [Runs -> RunState]
  /\ manifest \in [Runs -> Results \cup {NoResults}]
  /\ staged \in [Runs -> Results \cup {NoResults}]
  /\ stage \in {"idle", "cleanup"} \cup {Stages[i] : i \in 1..6}
  /\ at \in {"work", "write", "checkpoint", "state"}
  /\ exec \in Execution
  /\ registered \subseteq [run : Runs, pinned : ModelSets, results : Results]
  /\ unextracted \subseteq Runs \X Models
  /\ split \subseteq Runs
  /\ executions \in Nat /\ updates \in Nat

Init ==
  /\ active \in ModelSets
  /\ checkpoint = [r \in Runs |-> NoCheckpoint]
  /\ run = [r \in Runs |-> NoRun]
  /\ manifest = [r \in Runs |-> NoResults]
  /\ staged = [r \in Runs |-> NoResults]
  /\ stage = "idle" /\ at = "work" /\ exec = NoExec
  /\ registered = {} /\ unextracted = {} /\ split = {}
  /\ executions = 0 /\ updates = 0

-----------------------------------------------------------------------------
(* The active model set changes: update_active_model_set replaces the      *)
(* pointer atomically.                                                     *)
UpdateModelSet(s) ==
  /\ updates < MaxUpdates /\ s # active
  /\ active' = s
  /\ updates' = updates + 1
  /\ UNCHANGED <<files, stage, at, exec, hist, executions>>

(* A record that record_checkpoint makes: it starts from the copy in the   *)
(* run state in memory and keeps of it whatever the stage does not give.   *)
Recorded(name, status) ==
  [exec.state.checkpoint EXCEPT !.status = status, !.set = exec.pinned, !.last = name]

(* The execution goes on, with record c in memory, to save the two files.  *)
Proceed(c, e) ==
  /\ exec' = [e EXCEPT !.state.checkpoint = c]
  /\ at' = "checkpoint"

-----------------------------------------------------------------------------
Resumable(r) ==
  /\ run[r].status \in {"running", "failed"}
  /\ checkpoint[r].status = "resumable"

(* No run to resume: a new one, its first checkpoint before the run state. *)
StartFresh(r) ==
  /\ stage = "idle" /\ executions < MaxExecutions
  /\ \A q \in Runs : ~Resumable(q)
  /\ checkpoint[r] = NoCheckpoint
  /\ exec' = [NoExec EXCEPT !.run = r, !.pinned = active,
       !.state = [NoRun EXCEPT !.status = "running",
                    !.checkpoint = [NoCheckpoint EXCEPT !.status = "resumable",
                                      !.set = active, !.last = "source_validated"]]]
  /\ stage' = "source_validated" /\ at' = "checkpoint"
  /\ executions' = executions + 1
  /\ UNCHANGED <<active, files, hist, updates>>

(* The checkpoint as it is resumed from under model set s: under another   *)
(* set it loses its batches, and its features if a schema has changed.     *)
AdaptedKeepingBatches(c, s) == \* mutant
  IF c.set = s THEN c
  ELSE [c EXCEPT !.set = s,
          !.last = IF c.last \in Late THEN "runtime_feature" ELSE c.last]
AdaptedKeepingFeatures(c, s) == \* mutant
  IF c.set = s THEN c
  ELSE [c EXCEPT !.set = s, !.batches = NoResults,
          !.last = IF c.last \in Late THEN "runtime_feature" ELSE c.last]
Adapted(c, s) ==
  LET adapted == [c EXCEPT !.set = s, !.batches = NoResults] IN
  IF c.set = s THEN c
  ELSE IF Schema[c.set] # Schema[s]
  THEN [adapted EXCEPT !.extracted = FALSE, !.features = <<>>, !.last = "preprocessing"]
  ELSE [adapted EXCEPT !.last = IF c.last \in Late THEN "runtime_feature" ELSE c.last]

(* The stage to resume from: the first whose output is missing.            *)
ResumeStage(c, results, onDisk) ==
  LET predicted == c.extracted /\ results # NoResults /\ c.last \in Late
      built     == predicted /\ c.batches # NoResults /\ c.batches = onDisk
  IN IF ~c.preprocessed THEN "preprocessing"
     ELSE IF ~c.extracted THEN "runtime_feature"
     ELSE IF ~predicted THEN "runtime_prediction"
     ELSE IF built /\ c.last \in {"batch_building", "prediction_delivery"}
          THEN "prediction_delivery"
     ELSE "batch_building"

Resume(r) ==
  LET changed == checkpoint[r].set # active
      c       == Adapted(checkpoint[r], active)
      results == IF changed THEN NoResults ELSE run[r].results
      from    == ResumeStage(c, results, manifest[r])
  IN
  /\ stage = "idle" /\ executions < MaxExecutions
  /\ Resumable(r)
  /\ Members(checkpoint[r].set) = Members(active)
  /\ exec' = [NoExec EXCEPT !.run = r, !.pinned = active, !.from = from,
       !.changed = changed, !.resume = c,
       !.state = [run[r] EXCEPT !.status = "running", !.resumedFrom = from,
                                !.results = results]]
  /\ stage' = IF from = "preprocessing" THEN from ELSE "runtime_feature"
  /\ at' = "work"
  /\ executions' = executions + 1
  /\ UNCHANGED <<active, files, hist, updates>>

(* A set of other models: the execution is refused, the run stays as it is. *)
RefuseMembership(r) ==
  /\ stage = "idle" /\ executions < MaxExecutions
  /\ Resumable(r)
  /\ Members(checkpoint[r].set) # Members(active)
  /\ executions' = executions + 1
  /\ UNCHANGED <<active, files, stage, at, exec, hist, updates>>

-----------------------------------------------------------------------------
Preprocess ==
  /\ stage = "preprocessing" /\ at = "work"
  /\ Proceed([Recorded("preprocessing", "resumable") EXCEPT !.preprocessed = TRUE], exec)
  /\ UNCHANGED <<active, files, stage, hist, count>>

(* Features the checkpoint has, under the schemas it names.                *)
Reusable ==
  {m \in DOMAIN exec.resume.features \cap Members(exec.pinned) :
     Schema[exec.resume.set][m] = Schema[exec.pinned][m]}

(* Each model's features are loaded from the checkpoint or extracted, which *)
(* may fail for some.  The record updates those it has.  An execution that  *)
(* resumes at a later stage leaves this one running in the run state.       *)
LeavesRunningAlways == TRUE  \* mutant
LeavesRunning == exec.from \in Late
Extract(failing) ==
  LET kept == exec.resume.features
      out  == [m \in Members(exec.pinned) \ failing |->
                 IF m \in Reusable THEN kept[m] ELSE Schema[exec.pinned][m]]
      old  == exec.state.checkpoint.features
      c    == [Recorded("runtime_feature", "resumable") EXCEPT
                 !.extracted = TRUE,
                 !.features = [m \in DOMAIN out \cup DOMAIN old |->
                                 IF m \in DOMAIN out THEN out[m] ELSE old[m]]]
  IN
  /\ stage = "runtime_feature" /\ at = "work" /\ ~exec.state.extracting
  /\ failing \subseteq Members(exec.pinned) \ Reusable
  /\ failing # Members(exec.pinned)
  /\ Proceed(c, [exec EXCEPT !.features = out, !.state.extracting = LeavesRunning])
  /\ unextracted' = unextracted \cup ({exec.run} \X failing)
  /\ UNCHANGED <<active, files, stage, registered, split, count>>

(* start_stage refuses a stage that the run state has as running, outside  *)
(* the stage's own error handling: the execution fails and saves nothing.  *)
RefuseExtract ==
  /\ stage = "runtime_feature" /\ at = "work" /\ exec.state.extracting
  /\ stage' = "idle" /\ exec' = NoExec
  /\ UNCHANGED <<active, files, at, hist, count>>

ReusesResults ==
  exec.from \in {"batch_building", "prediction_delivery"} /\ exec.state.results # NoResults

Predict ==
  /\ stage = "runtime_prediction" /\ at = "work"
  /\ IF ReusesResults
     THEN /\ exec' = [exec EXCEPT !.results = exec.state.results]
          /\ stage' = "batch_building" /\ at' = "work"
     ELSE /\ Proceed(Recorded("runtime_prediction", "resumable"),
               [exec EXCEPT !.results = [set |-> exec.pinned, features |-> exec.features]])
          /\ UNCHANGED stage
  /\ UNCHANGED <<active, files, hist, count>>

(* The batches named by the checkpoint that is resumed from, if the files  *)
(* still hold them.                                                        *)
StagedInCheckpoint ==
  /\ exec.resume.batches # NoResults
  /\ manifest[exec.run] = exec.resume.batches
  /\ staged[exec.run] = exec.resume.batches

LoadBatches ==
  /\ stage = "batch_building" /\ at = "work"
  /\ StagedInCheckpoint
  /\ Proceed([Recorded("batch_building", "resumable") EXCEPT !.batches = exec.resume.batches],
       [exec EXCEPT !.results = exec.resume.batches])
  /\ UNCHANGED <<active, files, stage, hist, count>>

(* stage_batches refuses results of another model set, writes the batch    *)
(* files in place, and then the manifest.                                  *)
StageBatches ==
  /\ stage = "batch_building" /\ at = "work"
  /\ ~StagedInCheckpoint
  /\ exec.results.set = exec.pinned
  /\ staged' = [staged EXCEPT ![exec.run] = NoResults]
  /\ exec' = [exec EXCEPT !.state.results = exec.results]
  /\ at' = "write"
  /\ UNCHANGED <<active, checkpoint, run, manifest, stage, hist, count>>

WriteManifest ==
  /\ stage = "batch_building" /\ at = "write"
  /\ staged' = [staged EXCEPT ![exec.run] = exec.results]
  /\ manifest' = [manifest EXCEPT ![exec.run] = exec.results]
  /\ Proceed([Recorded("batch_building", "resumable") EXCEPT !.batches = exec.results], exec)
  /\ UNCHANGED <<active, checkpoint, run, stage, hist, count>>

(* Every batch is registered in the outbox.                                *)
Deliver ==
  /\ stage = "prediction_delivery" /\ at = "work"
  /\ registered' = registered \cup
       {[run |-> exec.run, pinned |-> exec.pinned, results |-> exec.results]}
  /\ Proceed(Recorded("prediction_delivery", "completed"), exec)
  /\ UNCHANGED <<active, files, stage, unextracted, split, count>>

-----------------------------------------------------------------------------
SaveCheckpoint ==
  /\ at = "checkpoint"
  /\ checkpoint' = [checkpoint EXCEPT ![exec.run] = exec.state.checkpoint]
  /\ at' = "state"
  /\ UNCHANGED <<active, run, manifest, staged, stage, exec, hist, count>>

StageAfter(name) ==
  IF name = "prediction_delivery" THEN "cleanup"
  ELSE Stages[1 + CHOOSE i \in 1..5 : Stages[i] = name]

SaveRunState ==
  /\ at = "state"
  /\ run' = [run EXCEPT ![exec.run] = exec.state]
  /\ stage' = StageAfter(stage)
  /\ at' = "work"
  /\ UNCHANGED <<active, checkpoint, manifest, staged, exec, hist, count>>

(* The cleanup of a completed run and its last save.                       *)
Finish ==
  /\ stage = "cleanup"
  /\ manifest' = [manifest EXCEPT ![exec.run] = NoResults]
  /\ staged' = [staged EXCEPT ![exec.run] = NoResults]
  /\ run' = [run EXCEPT ![exec.run] = [exec.state EXCEPT !.status = "finished"]]
  /\ stage' = "idle" /\ exec' = NoExec
  /\ UNCHANGED <<active, checkpoint, at, hist, count>>

(* A stage raises, or one of its saves: the run state is saved as failed   *)
(* with whatever it has in memory.                                         *)
StageFails ==
  /\ stage \in {Stages[i] : i \in 2..5}
  /\ ~(stage = "runtime_feature" /\ at = "work" /\ exec.state.extracting)
  /\ ~(stage = "runtime_prediction" /\ at = "work" /\ ReusesResults)
  /\ run' = [run EXCEPT ![exec.run] =
       [exec.state EXCEPT !.status = "failed",
          !.extracting = IF stage = "runtime_feature" THEN FALSE ELSE exec.state.extracting]]
  /\ stage' = "idle" /\ at' = "work" /\ exec' = NoExec
  /\ UNCHANGED <<active, checkpoint, manifest, staged, hist, count>>

(* The process dies, or an error is raised outside the stages' handlers:   *)
(* at the first save, in the delivery stage, in the cleanup.  Between the  *)
(* two saves of preprocessing the run state's copy stays without it.       *)
Interrupt ==
  /\ stage # "idle"
  /\ stage' = "idle" /\ at' = "work" /\ exec' = NoExec
  /\ split' = IF stage = "preprocessing" /\ at = "state" THEN split \cup {exec.run} ELSE split
  /\ UNCHANGED <<active, files, registered, unextracted, count>>

Next ==
  \/ \E s \in ModelSets : UpdateModelSet(s)
  \/ \E r \in Runs : StartFresh(r) \/ Resume(r) \/ RefuseMembership(r)
  \/ Preprocess
  \/ \E failing \in SUBSET Models : Extract(failing)
  \/ RefuseExtract
  \/ Predict
  \/ LoadBatches \/ StageBatches \/ WriteManifest
  \/ Deliver
  \/ SaveCheckpoint \/ SaveRunState \/ Finish
  \/ StageFails \/ Interrupt

Spec == Init /\ [][Next]_vars

-----------------------------------------------------------------------------
(* Properties                                                              *)

(* "When Model Set changes during run resumption, previous checkpoint is   *)
(* invalidated and predictions are recalculated"                           *)
(* (test_generator_runtime_pipeline.py): the execution that meets the      *)
(* change registers results of its own model set.  Results of another set  *)
(* get out in one way only: by an execution that resumes a checkpoint of   *)
(* its own set, in which one that stopped short of its batches has left    *)
(* the batches of the old.                                                 *)
ChangeRecalculated ==
  [][\A g \in registered' \ registered :
       \/ g.results.set = g.pinned
       \/ /\ ~exec.changed
          /\ exec.resume.set = g.pinned
          /\ exec.resume.batches = g.results]_vars

(* Only an execution resumed at prediction or later leaves its run with    *)
(* the feature stage running in its file, and start_stage refuses the run  *)
(* from then on.                                                           *)
RefusedOnlyAfterLateResume ==
  [][\A r \in Runs : run'[r].extracting =>
       run[r].extracting \/ run'[r].resumedFrom \in Late]_vars

(* "When feature schema sha256 differs in snapshot, feature matrix is      *)
(* re-extracted for that model" (test_generator_runtime_pipeline.py): what *)
(* is delivered was predicted from features of the schema that its model   *)
(* set asks for, across interruptions and changes of the set, with two     *)
(* exceptions.  A model whose extraction has failed keeps features of an   *)
(* older schema in the checkpoint; and a run that died between the two     *)
(* saves of preprocessing repeats it later, which puts whatever features   *)
(* the run state has under the new model set (record_checkpoint).          *)
FeaturesFit ==
  \A g \in registered : \A m \in DOMAIN g.results.features :
    \/ g.results.features[m] = Schema[g.results.set][m]
    \/ <<g.run, m>> \in unextracted
    \/ g.run \in split

=============================================================================
