-------------------------------- MODULE Store --------------------------------
(***************************************************************************)
(* The chain a node serves, as far as the pipeline can tell it apart, and  *)
(* the database tables the pipeline's stages share.                        *)
(*                                                                         *)
(* A block hash names its content, so what a block holds is a constant:    *)
(* its number, its parent, its transactions, and which of them emit a      *)
(* Transfer event when executed in it.  Two blocks may have one number (a  *)
(* fork) and one transaction may be in several blocks (re-included after a *)
(* reorg), with a different outcome in each.  Hashes, addresses, amounts   *)
(* and calldata are left out: no property below tells them apart.          *)
(*                                                                         *)
(* Every stage resumes from what the tables hold and never from what       *)
(* another stage handed it, so they are the only state that survives a     *)
(* crash.                                                                  *)
(*                                                                         *)
(* One atomic step of a module that extends this one is one database       *)
(* transaction, or one autocommitted statement, of the code.               *)
(***************************************************************************)
EXTENDS Integers, FiniteSets, Sequences

CONSTANTS
  Blocks,      \* block hashes
  Txs,         \* transaction hashes
  None,        \* no row, no value
  Number,      \* Number[b]: the height of block b
  Parent,      \* Parent[b]: the block b extends, None for a first one
  TxsOf,       \* TxsOf[b]: the transactions block b holds
  Emitting,    \* <<b, t>>: t, executed in b, succeeds and emits a Transfer event
  CallsTransfer \* transactions whose calldata is a transfer or transferFrom call

ASSUME NoneAssumption == None \notin Blocks /\ None \notin Nat
ASSUME NumberAssumption == Number \in [Blocks -> Nat \ {0}]
ASSUME ParentAssumption ==
  /\ Parent \in [Blocks -> Blocks \cup {None}]
  /\ \A b \in Blocks : Parent[b] # None => Number[b] = Number[Parent[b]] + 1
ASSUME TxsOfAssumption == TxsOf \in [Blocks -> SUBSET Txs]
ASSUME EmittingAssumption == Emitting \subseteq Blocks \X Txs
ASSUME CallsAssumption == CallsTransfer \subseteq Txs

(* The block and everything it extends. *)
Ancestry[b \in Blocks] ==
  IF Parent[b] = None THEN {b} ELSE {b} \cup Ancestry[Parent[b]]

(* A mistake for BlockAt: the node is asked for its latest block instead.  *)
LatestBlock(tip, n) == tip

(* What eth_getBlockByNumber answers for height n at a node whose tip is   *)
(* the given block: the block at that height on the tip's chain, or null.  *)
BlockAt(tip, n) ==
  LET there == {b \in Blocks : Number[b] = n /\ b \in Ancestry[tip]}
  IN  IF there = {} THEN None ELSE CHOOSE b \in there : TRUE

(* A transaction's transfers in a block, read from its receipt's logs when *)
(* that receipt is used, and from its calldata when it is not.             *)
MakesTransfer(b, t, receipted) ==
  IF receipted THEN <<b, t>> \in Emitting ELSE t \in CallsTransfer

------------------------------------------------------------------------------
(* The tables. *)

CONSTANTS
  TransferRules, \* enabled rules whose tree reads token transfers
  PlainRules,    \* enabled rules whose tree reads transactions alone
  MaxFaults      \* bound: how many stage failures and crashes a behaviour has

ASSUME RulesAssumption == TransferRules \cap PlainRules = {}
ASSUME MaxFaultsAssumption == MaxFaults \in Nat

VARIABLES
  stored,       \* Block rows, by hash
  txBlock,      \* Transaction.block_hash, None for a transaction not stored
  status,       \* Transaction.decode_status, None for a transaction not stored
  receiptBlock, \* Receipt.block_hash, None for a receipt not stored
  cursor,       \* IngestCursor.last_indexed_block, None with no row
  transfers,    \* per transaction, the rows each decode run that stored some left
  evaluated,    \* blocks whose evaluated_at is set
  matches,      \* MatchedRule rows: how many per rule, block and transaction
  faults        \* how many failures there were; only bounds the model

chainTables == <<stored, txBlock, receiptBlock, cursor>>
tables == <<chainTables, status, transfers, evaluated, matches>>

Rules == TransferRules \cup PlainRules

(* DecodeStatus, and None for a transaction not stored. *)
DecodeStatus == {"INGESTED", "PROCESSING", "DECODED", "UNABLE_TO_DECODE"}
Undecoded == {"INGESTED", "PROCESSING"}
Final == {"DECODED", "UNABLE_TO_DECODE"}

ASSUME NoneIsNoStatus == None \notin DecodeStatus

(* A decode run's rows for one transaction: the block hash copied from the *)
(* transaction, and whether they have a log index (read from its receipt). *)
TransferRows == [block : Blocks \cup {None}, logged : BOOLEAN]

StoreTypeOK ==
  /\ stored \in SUBSET Blocks
  /\ txBlock \in [Txs -> Blocks \cup {None}]
  /\ status \in [Txs -> DecodeStatus \cup {None}]
  /\ receiptBlock \in [Txs -> Blocks \cup {None}]
  /\ cursor \in Nat \cup {None}
  /\ transfers \in [Txs -> Seq(TransferRows)]
  /\ evaluated \in SUBSET Blocks
  /\ matches \in [Rules \X Blocks \X Txs -> Nat]
  /\ faults \in 0 .. MaxFaults

StoreInit ==
  /\ stored = {}
  /\ txBlock = [t \in Txs |-> None]
  /\ status = [t \in Txs |-> None]
  /\ receiptBlock = [t \in Txs |-> None]
  /\ cursor = None
  /\ transfers = [t \in Txs |-> <<>>]
  /\ evaluated = {}
  /\ matches = [m \in Rules \X Blocks \X Txs |-> 0]
  /\ faults = 0

(* A mistake for StoreBlock: the upsert sets decode_status as well.        *)
StoreBlockAfresh(b) ==
  /\ stored' = stored \cup {b}
  /\ txBlock' = [t \in Txs |-> IF t \in TxsOf[b] THEN b ELSE txBlock[t]]
  /\ status' = [t \in Txs |-> IF t \in TxsOf[b] THEN "INGESTED" ELSE status[t]]
  /\ UNCHANGED evaluated

(* store_blocks of block b.  An upsert gives a stored row its update       *)
(* schema's fields, which leave out evaluated_at and decode_status.        *)
StoreBlock(b) ==
  /\ stored' = stored \cup {b}
  /\ txBlock' = [t \in Txs |-> IF t \in TxsOf[b] THEN b ELSE txBlock[t]]
  /\ status' = [t \in Txs |-> IF t \in TxsOf[b] /\ status[t] = None
                                THEN "INGESTED" ELSE status[t]]
  /\ UNCHANGED evaluated

(* store_receipts of the receipts of block r. A receipt is keyed by its    *)
(* transaction alone, so one stored from another block is overwritten.     *)
StoreReceipts(r) ==
  receiptBlock' = [t \in Txs |-> IF t \in TxsOf[r] THEN r ELSE receiptBlock[t]]

(* The stored transactions of block b, named by its hash. *)
InBlock(b) == {t \in Txs : txBlock[t] = b}

(* A failure of any kind: an RPC error or a timeout, a database error, the *)
(* process killed.  What the open transaction wrote is rolled back, so the *)
(* tables are as they were; what was committed before it stays.            *)
Fault ==
  /\ faults < MaxFaults
  /\ faults' = faults + 1
  /\ UNCHANGED tables
=============================================================================
