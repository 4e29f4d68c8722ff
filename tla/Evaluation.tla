------------------------------ MODULE Evaluation ------------------------------
(***************************************************************************)
(* Evaluating the enabled rules against each stored block                  *)
(* (rules/services.py evaluate_blocks and _evaluate, with the rows         *)
(* rules/onchain.py reads), by any number of runs at once.                 *)
(*                                                                         *)
(* A run lists the unevaluated blocks once, then takes them one by one:    *)
(* one transaction marks the block, reads its transactions, reads their    *)
(* transfers and records the matches.  Postgres' read committed isolation  *)
(* gives each statement of it a view of its own, so decoding, ingestion    *)
(* and other runs may commit between two statements.  The mark locks the   *)
(* block's row until the transaction ends.                                 *)
(*                                                                         *)
(* A rule is kept to what decides its matches: one that reads transfers    *)
(* matches a transaction that has one, a plain one matches every           *)
(* transaction.  The rules do not change here.                             *)
(***************************************************************************)
EXTENDS Store

CONSTANT
  Evaluators    \* processes that run evaluate_blocks

VARIABLES
  epc,      \* where each run is in evaluate_blocks
  todo,     \* the blocks it listed and has not come to yet
  current,  \* the block its open transaction has marked, None outside one
  seen      \* the transactions it read of that block (BlockRows.transactions)

evaluateVars == <<epc, todo, current, seen>>
evaluationVars == <<tables, faults, evaluateVars>>

EvaluatePcs == {"idle", "next", "marked", "read", "done", "failed"}

EvaluateTypeOK ==
  /\ epc \in [Evaluators -> EvaluatePcs]
  /\ todo \in [Evaluators -> SUBSET Blocks]
  /\ current \in [Evaluators -> Blocks \cup {None}]
  /\ seen \in [Evaluators -> SUBSET Txs]

EvaluateInit ==
  /\ epc = [w \in Evaluators |-> "idle"]
  /\ todo = [w \in Evaluators |-> {}]
  /\ current = [w \in Evaluators |-> None]
  /\ seen = [w \in Evaluators |-> {}]

(* A mistake for Locked: the mark is read and set with no lock. *)
NeverLocked(b) == FALSE

(* A run's uncommitted mark holds the block's row against other writers. *)
Locked(b) == \E w \in Evaluators : current[w] = b

(* The blocks not evaluated yet, listed by one query at the start. *)
ListBlocks(w) ==
  /\ epc[w] = "idle"
  /\ todo' = [todo EXCEPT ![w] = stored \ evaluated]
  /\ epc' = [epc EXCEPT ![w] = "next"]
  /\ UNCHANGED <<tables, faults, current, seen>>

(* The listed block that comes first, by number. *)
IsNext(w, b) ==
  /\ b \in todo[w]
  /\ \A c \in todo[w] : Number[b] <= Number[c]

(* _evaluate's conditional UPDATE, when no run has marked the block.       *)
MarkBlock(w, b) ==
  /\ epc[w] = "next"
  /\ IsNext(w, b)
  /\ ~Locked(b)
  /\ b \notin evaluated
  /\ todo' = [todo EXCEPT ![w] = @ \ {b}]
  /\ current' = [current EXCEPT ![w] = b]
  /\ epc' = [epc EXCEPT ![w] = "marked"]
  /\ UNCHANGED <<tables, faults, seen>>

(* The UPDATE finds it marked: another run was first, so it is passed over. *)
PassOver(w, b) ==
  /\ epc[w] = "next"
  /\ IsNext(w, b)
  /\ ~Locked(b)
  /\ b \in evaluated
  /\ todo' = [todo EXCEPT ![w] = @ \ {b}]
  /\ UNCHANGED <<tables, faults, epc, current, seen>>

(* Mistakes for NotDecoded: a claimed transaction passes for decoded, or   *)
(* one that makes no transfer never does.                                  *)
NotClaimed(b) == TransferRules # {} /\ \E t \in InBlock(b) : status[t] = "INGESTED"
NotAllDecoded(b) == TransferRules # {} /\ \E t \in InBlock(b) : status[t] # "DECODED"

(* A rule reads transfers and decoding has not finished with the block.    *)
NotDecoded(b) == TransferRules # {} /\ \E t \in InBlock(b) : status[t] \in Undecoded

(* The block's transactions are read, and NotDecodedError rolls the mark   *)
(* back: the block is left for a later run.                                *)
RefuseUndecoded(w) ==
  /\ epc[w] = "marked"
  /\ NotDecoded(current[w])
  /\ current' = [current EXCEPT ![w] = None]
  /\ epc' = [epc EXCEPT ![w] = "next"]
  /\ UNCHANGED <<tables, faults, todo, seen>>

ReadTransactions(w) ==
  /\ epc[w] = "marked"
  /\ ~NotDecoded(current[w])
  /\ seen' = [seen EXCEPT ![w] = InBlock(current[w])]
  /\ epc' = [epc EXCEPT ![w] = "read"]
  /\ UNCHANGED <<tables, faults, todo, current>>

(* The transfers of the block's transactions, by a later statement that    *)
(* selects the block's transactions again.                                 *)
TransfersRead(b, t) == IF t \in InBlock(b) THEN transfers[t] ELSE <<>>

(* Whether rule r matches transaction t of block b. *)
Holds(r, b, t) == r \in PlainRules \/ TransfersRead(b, t) # <<>>

(* The transfers are read, the matches recorded and the mark committed. *)
RecordMatches(w) ==
  LET b == current[w] IN
  /\ epc[w] = "read"
  /\ evaluated' = evaluated \cup {b}
  /\ matches' = [m \in Rules \X Blocks \X Txs |->
       IF m[2] = b /\ m[3] \in seen[w] /\ Holds(m[1], b, m[3])
       THEN matches[m] + 1 ELSE matches[m]]
  /\ current' = [current EXCEPT ![w] = None]
  /\ seen' = [seen EXCEPT ![w] = {}]
  /\ epc' = [epc EXCEPT ![w] = "next"]
  /\ UNCHANGED <<chainTables, status, transfers, faults, todo>>

(* The listed blocks are all dealt with. *)
EndRun(w) ==
  /\ epc[w] = "next"
  /\ todo[w] = {}
  /\ epc' = [epc EXCEPT ![w] = "done"]
  /\ UNCHANGED <<tables, faults, todo, current, seen>>

EvaluateForgets(w) ==
  /\ todo' = [todo EXCEPT ![w] = {}]
  /\ current' = [current EXCEPT ![w] = None]
  /\ seen' = [seen EXCEPT ![w] = {}]

(* The run raises or its process dies: the open transaction is rolled back *)
(* with its mark, and the blocks committed before it stay evaluated.       *)
EvaluateFails(w) ==
  /\ epc[w] \notin {"idle", "done", "failed"}
  /\ Fault
  /\ epc' = [epc EXCEPT ![w] = "failed"]
  /\ EvaluateForgets(w)

EvaluateAgain(w) ==
  /\ epc[w] \in {"done", "failed"}
  /\ epc' = [epc EXCEPT ![w] = "idle"]
  /\ EvaluateForgets(w)
  /\ UNCHANGED <<tables, faults>>

EvaluateStep(w) ==
  \/ ListBlocks(w)
  \/ \E b \in Blocks : MarkBlock(w, b) \/ PassOver(w, b)
  \/ RefuseUndecoded(w)
  \/ ReadTransactions(w)
  \/ RecordMatches(w)
  \/ EndRun(w)

(***************************************************************************)
(* What the other stages do to the tables evaluation reads, with one       *)
(* process ingesting: blocks are stored once, in the order of their        *)
(* numbers, a fork's block included when the node reorganised above the    *)
(* cursor; decoding claims a transaction, then stores what it makes.       *)
(***************************************************************************)
BlockStored(b) ==
  /\ \A c \in stored : Number[c] < Number[b]
  /\ StoreBlock(b)
  /\ StoreReceipts(b)
  /\ cursor' = Number[b]
  /\ UNCHANGED <<transfers, matches, faults, evaluateVars>>

Decoded(t) ==
  /\ \/ /\ status[t] = "INGESTED"
        /\ status' = [status EXCEPT ![t] = "PROCESSING"]
        /\ UNCHANGED transfers
     \/ /\ status[t] = "PROCESSING"
        /\ MakesTransfer(txBlock[t], t, TRUE)
        /\ status' = [status EXCEPT ![t] = "DECODED"]
        /\ transfers' = [transfers EXCEPT ![t] =
             Append(@, [block |-> txBlock[t], logged |-> TRUE])]
     \/ /\ status[t] = "PROCESSING"
        /\ ~MakesTransfer(txBlock[t], t, TRUE)
        /\ status' = [status EXCEPT ![t] = "UNABLE_TO_DECODE"]
        /\ UNCHANGED transfers
  /\ UNCHANGED <<chainTables, evaluated, matches, faults, evaluateVars>>

EvaluationInit == StoreInit /\ EvaluateInit

EvaluationNext ==
  \/ \E b \in Blocks : BlockStored(b)
  \/ \E t \in Txs : Decoded(t)
  \/ \E w \in Evaluators : EvaluateStep(w) \/ EvaluateFails(w) \/ EvaluateAgain(w)

EvaluationSpec == EvaluationInit /\ [][EvaluationNext]_evaluationVars

(* Runs keep taking steps and are called again, and decoding, which runs   *)
(* before every evaluation of a tick, gets to every transaction.           *)
FairEvaluationSpec ==
  /\ EvaluationSpec
  /\ \A w \in Evaluators :
       WF_evaluationVars(EvaluateStep(w)) /\ WF_evaluationVars(EvaluateAgain(w))
  /\ \A t \in Txs : WF_evaluationVars(Decoded(t))

(***************************************************************************)
(* Properties                                                              *)
(***************************************************************************)

(* Type invariant of the tables and of evaluation's own state. *)
EvaluationTypeOK == StoreTypeOK /\ EvaluateTypeOK

(* A block's evaluation leaves nothing out and nothing in: each plain rule *)
(* has one match of each transaction still in it, and each rule reading    *)
(* transfers has one exactly of those whose decoding, finished by then,    *)
(* stored a transfer, whatever was decoded while the block was evaluated.  *)
(* A block not evaluated has no match at all.                              *)
MatchesComplete ==
  \A b \in Blocks, t \in Txs :
    /\ b \in evaluated /\ txBlock[t] = b =>
         /\ \A r \in PlainRules : matches[<<r, b, t>>] = 1
         /\ \A r \in TransferRules :
              /\ status[t] \in Final
              /\ matches[<<r, b, t>>] = IF transfers[t] # <<>> THEN 1 ELSE 0
    /\ b \notin evaluated => \A r \in Rules : matches[<<r, b, t>>] = 0

(* The runs together, with their locks, rollbacks and failures, evaluate   *)
(* each block in one step, once, recording each of its matches once.       *)
Promise == INSTANCE EvaluateOnce WITH
  Block <- Blocks, Row <- Rules \X Blocks \X Txs,
  waiting <- stored \ evaluated, finished <- evaluated, recorded <- matches

EvaluatesOnce == Promise!Spec

(* Every stored block is evaluated in the end, failed and repeated         *)
(* evaluations notwithstanding, when decoding gets to its transactions.    *)
EveryBlockEvaluated ==
  \A b \in Blocks : b \in stored ~> b \in evaluated
=============================================================================
