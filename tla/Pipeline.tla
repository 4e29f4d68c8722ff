------------------------------- MODULE Pipeline -------------------------------
(***************************************************************************)
(* The realtime pipeline (pipeline.py, management/commands/_polling.py):   *)
(* ingestion, decoding and evaluation over the tables they share.          *)
(*                                                                         *)
(* A ticker is a run_pipeline process: tick after tick it calls the three  *)
(* stages in order.  A failed ingestion does not stop its tick; a failed   *)
(* decoding or evaluation does, and the next tick starts over.  The        *)
(* decode_transactions and evaluate_rules commands may run beside it, as   *)
(* processes that know one stage only.                                     *)
(***************************************************************************)
EXTENDS Ingestion, Decoding, Evaluation

CONSTANTS
  Tickers,     \* processes that run run_pipeline
  FaultyStages \* the stages in which failures are considered

ASSUME TickersAssumption == Tickers \subseteq Ingesters \cap Decoders \cap Evaluators
ASSUME StagesAssumption == FaultyStages \subseteq {"ingest", "decode", "evaluate"}

VARIABLE stage  \* the stage of its tick each ticker is in

pipelineVars ==
  <<tables, faults, nodeVars, ingestVars, decodeVars, evaluateVars, stage>>

InStage(w, s) == w \in Tickers => stage[w] = s

(* A mistake for GoTo: each tick ends with its ingestion. *)
NextTick(w, s) ==
  IF w \in Tickers THEN stage' = [stage EXCEPT ![w] = "ingest"] ELSE UNCHANGED stage

(* The tick goes on to stage s, or the next tick starts. *)
GoTo(w, s) ==
  IF w \in Tickers THEN stage' = [stage EXCEPT ![w] = s] ELSE UNCHANGED stage

(***************************************************************************)
(* One step of a stage, the other stages' processes standing still.  An    *)
(* upsert of a block waits for the evaluation that has marked it.          *)
(***************************************************************************)
Ingesting(w) ==
  /\ InStage(w, "ingest")
  /\ ipc[w] = "store" => ~Locked(fetched[w])
  /\ IngestStep(w)
  /\ UNCHANGED <<decodeVars, evaluateVars, stage>>

Decoding_(w) ==
  /\ InStage(w, "decode")
  /\ DecodeStep(w)
  /\ UNCHANGED <<nodeVars, ingestVars, evaluateVars, stage>>

Evaluating(w) ==
  /\ InStage(w, "evaluate")
  /\ EvaluateStep(w)
  /\ UNCHANGED <<nodeVars, ingestVars, decodeVars, stage>>

(***************************************************************************)
(* run_tick's order.  A stage that ended hands over to the next one.  An   *)
(* ingestion that raised hands over too, with the error kept; one whose    *)
(* process died does not, and the process starts with a new tick.          *)
(***************************************************************************)
IngestEnds(w) ==
  /\ InStage(w, "ingest")
  /\ IngestAgain(w)
  /\ \/ GoTo(w, "decode")
     \/ ipc[w] = "failed" /\ GoTo(w, "ingest")
  /\ UNCHANGED <<decodeVars, evaluateVars>>

DecodeEnds(w) ==
  /\ InStage(w, "decode")
  /\ DecodeAgain(w)
  /\ GoTo(w, IF dpc[w] = "done" THEN "evaluate" ELSE "ingest")
  /\ UNCHANGED <<nodeVars, ingestVars, evaluateVars>>

EvaluateEnds(w) ==
  /\ InStage(w, "evaluate")
  /\ EvaluateAgain(w)
  /\ GoTo(w, "ingest")
  /\ UNCHANGED <<nodeVars, ingestVars, decodeVars>>

(* A stage raises or its process dies. *)
StageFails(w) ==
  /\ \/ /\ w \in Ingesters
        /\ "ingest" \in FaultyStages
        /\ InStage(w, "ingest")
        /\ IngestFails(w)
        /\ UNCHANGED <<decodeVars, evaluateVars>>
     \/ /\ w \in Decoders
        /\ "decode" \in FaultyStages
        /\ InStage(w, "decode")
        /\ DecodeFails(w)
        /\ UNCHANGED <<nodeVars, ingestVars, evaluateVars>>
     \/ /\ w \in Evaluators
        /\ "evaluate" \in FaultyStages
        /\ InStage(w, "evaluate")
        /\ EvaluateFails(w)
        /\ UNCHANGED <<nodeVars, ingestVars, decodeVars>>
  /\ UNCHANGED stage

Environment ==
  /\ NodeStep
  /\ UNCHANGED <<decodeVars, evaluateVars, stage>>

Processes == Ingesters \cup Decoders \cup Evaluators

(* What a process does of itself. *)
ProcessStep(w) ==
  \/ w \in Ingesters /\ (Ingesting(w) \/ IngestEnds(w))
  \/ w \in Decoders /\ (Decoding_(w) \/ DecodeEnds(w))
  \/ w \in Evaluators /\ (Evaluating(w) \/ EvaluateEnds(w))

PipelineInit ==
  /\ StoreInit
  /\ IngestInit
  /\ DecodeInit
  /\ EvaluateInit
  /\ stage = [w \in Tickers |-> "ingest"]

PipelineNext ==
  \/ Environment
  \/ \E w \in Processes : ProcessStep(w) \/ StageFails(w)

PipelineSpec == PipelineInit /\ [][PipelineNext]_pipelineVars

(* Every process keeps running; nothing else is promised.                  *)
FairPipelineSpec ==
  PipelineSpec /\ \A w \in Processes : WF_pipelineVars(ProcessStep(w))

(***************************************************************************)
(* Properties                                                              *)
(***************************************************************************)

(* Every stored block is evaluated by some later tick, whichever stage     *)
(* failed (the module docstring of pipeline.py), but for one holding a     *)
(* transaction whose decode run failed after claiming it.                  *)
OnlyAbandonedHoldUp ==
  \A b \in Blocks :
    b \in stored ~> b \in evaluated \/ \E t \in InBlock(b) : Abandoned(t)
=============================================================================
