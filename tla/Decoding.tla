------------------------------ MODULE Decoding ------------------------------
(***************************************************************************)
(* Decoding stored transactions into the token transfers they make         *)
(* (evm/decoding.py), by any number of runs at once.                       *)
(*                                                                         *)
(* A run claims a batch in one transaction, reads the batch's rows again   *)
(* after that transaction has ended, reads their receipts, and stores the  *)
(* transfers with the final statuses in another transaction; then it       *)
(* claims the next batch, until nothing is left to claim.  Other runs, and *)
(* ingestion storing a transaction again under another block, may come in  *)
(* between any two of these, and a run that dies in between leaves its     *)
(* batch PROCESSING.                                                       *)
(***************************************************************************)
EXTENDS Store

CONSTANTS
  Decoders,   \* processes that run decode_transactions
  BatchSize   \* its batch_size

ASSUME BatchSizeAssumption == BatchSize \in Nat \ {0}

VARIABLES
  dpc,       \* where each run is in decode_transactions
  batch,     \* the transactions it has claimed and not stored yet
  rows,      \* the block hash of each of them, as its batch was read
  receipted  \* those whose receipt it found and uses

decodeVars == <<dpc, batch, rows, receipted>>
decodingVars == <<tables, faults, decodeVars>>

DecodePcs == {"idle", "claim", "rows", "receipts", "store", "done", "failed"}

DecodeTypeOK ==
  /\ dpc \in [Decoders -> DecodePcs]
  /\ batch \in [Decoders -> SUBSET Txs]
  /\ rows \in [Decoders -> [Txs -> Blocks \cup {None}]]
  /\ receipted \in [Decoders -> SUBSET Txs]

NoRows == [t \in Txs |-> None]

DecodeInit ==
  /\ dpc = [w \in Decoders |-> "idle"]
  /\ batch = [w \in Decoders |-> {}]
  /\ rows = [w \in Decoders |-> NoRows]
  /\ receipted = [w \in Decoders |-> {}]

(* Mistakes for Ingested: what another run claimed is taken as well, or    *)
(* only what has the receipt of its own block.                             *)
IngestedOrClaimed == {t \in Txs : status[t] \in Undecoded}
IngestedWithReceipt == {t \in Txs : status[t] = "INGESTED" /\ receiptBlock[t] = txBlock[t]}

(* What a run may claim. *)
Ingested == {t \in Txs : status[t] = "INGESTED"}

(* decode_transactions is called. *)
StartDecoding(w) ==
  /\ dpc[w] = "idle"
  /\ dpc' = [dpc EXCEPT ![w] = "claim"]
  /\ UNCHANGED <<tables, faults, batch, rows, receipted>>

(* _claim's transaction: as many INGESTED transactions as a batch holds,   *)
(* moved to PROCESSING while locked, so no other run can claim them.       *)
(* Which ones come first is left open: their order decides nothing here.   *)
Claim(w) ==
  /\ dpc[w] = "claim"
  /\ \E S \in SUBSET Ingested :
       /\ S # {}
       /\ Cardinality(S) <= BatchSize
       /\ S # Ingested => Cardinality(S) = BatchSize
       /\ status' = [t \in Txs |-> IF t \in S THEN "PROCESSING" ELSE status[t]]
       /\ batch' = [batch EXCEPT ![w] = S]
  /\ dpc' = [dpc EXCEPT ![w] = "rows"]
  /\ UNCHANGED <<chainTables, transfers, evaluated, matches, faults, rows, receipted>>

(* Nothing left to claim: the run answers its counts. *)
ClaimNothing(w) ==
  /\ dpc[w] = "claim"
  /\ Ingested = {}
  /\ dpc' = [dpc EXCEPT ![w] = "done"]
  /\ UNCHANGED <<tables, faults, batch, rows, receipted>>

(* The claimed rows are read again outside the claiming transaction, so a  *)
(* transaction may name another block than when it was claimed.            *)
ReadRows(w) ==
  /\ dpc[w] = "rows"
  /\ rows' = [rows EXCEPT ![w] = [t \in Txs |-> IF t \in batch[w] THEN txBlock[t] ELSE None]]
  /\ dpc' = [dpc EXCEPT ![w] = "receipts"]
  /\ UNCHANGED <<tables, faults, batch, receipted>>

(* _receipts: a stored receipt is a transaction's only when it is from the *)
(* block the transaction's row, as read above, names.                      *)
ReadReceipts(w) ==
  /\ dpc[w] = "receipts"
  /\ receipted' = [receipted EXCEPT ![w] =
       {t \in batch[w] : receiptBlock[t] # None /\ receiptBlock[t] = rows[w][t]}]
  /\ dpc' = [dpc EXCEPT ![w] = "store"]
  /\ UNCHANGED <<tables, faults, batch, rows>>

(* Those of the batch that make a transfer (_transfers): by its logs with  *)
(* its receipt, by its calldata without.                                   *)
Transferring(w) ==
  {t \in batch[w] : MakesTransfer(rows[w][t], t, t \in receipted[w])}

(* _store's transaction: the transfer rows, with the block the run read,   *)
(* and each transaction's final status; then the next batch.               *)
StoreTransfers(w) ==
  /\ dpc[w] = "store"
  /\ transfers' = [t \in Txs |->
       IF t \in Transferring(w)
       THEN Append(transfers[t], [block |-> rows[w][t], logged |-> t \in receipted[w]])
       ELSE transfers[t]]
  /\ status' = [t \in Txs |->
       IF t \in Transferring(w) THEN "DECODED"
       ELSE IF t \in batch[w] THEN "UNABLE_TO_DECODE" ELSE status[t]]
  /\ dpc' = [dpc EXCEPT ![w] = "claim"]
  /\ batch' = [batch EXCEPT ![w] = {}]
  /\ rows' = [rows EXCEPT ![w] = NoRows]
  /\ receipted' = [receipted EXCEPT ![w] = {}]
  /\ UNCHANGED <<chainTables, evaluated, matches, faults>>

DecodeForgets(w) ==
  /\ batch' = [batch EXCEPT ![w] = {}]
  /\ rows' = [rows EXCEPT ![w] = NoRows]
  /\ receipted' = [receipted EXCEPT ![w] = {}]

(* The run raises or its process dies: its claim stands, its batch is      *)
(* forgotten, and nothing moves a transaction back from PROCESSING.        *)
DecodeFails(w) ==
  /\ dpc[w] \notin {"idle", "done", "failed"}
  /\ Fault
  /\ dpc' = [dpc EXCEPT ![w] = "failed"]
  /\ DecodeForgets(w)

(* The next tick, or the operator, calls decode_transactions again. *)
DecodeAgain(w) ==
  /\ dpc[w] \in {"done", "failed"}
  /\ dpc' = [dpc EXCEPT ![w] = "idle"]
  /\ DecodeForgets(w)
  /\ UNCHANGED <<tables, faults>>

DecodeStep(w) ==
  \/ StartDecoding(w)
  \/ Claim(w)
  \/ ClaimNothing(w)
  \/ ReadRows(w)
  \/ ReadReceipts(w)
  \/ StoreTransfers(w)

(* What ingestion does to the tables decoding reads: it stores a block, or *)
(* stores one again, with the receipts of a block at the same height.      *)
BlockArrives(b, r) ==
  /\ Number[r] = Number[b]
  /\ StoreBlock(b)
  /\ StoreReceipts(r)
  /\ cursor' = Number[b]
  /\ UNCHANGED <<transfers, matches, faults, decodeVars>>

DecodingInit == StoreInit /\ DecodeInit

DecodingNext ==
  \/ \E b, r \in Blocks : BlockArrives(b, r)
  \/ \E w \in Decoders : DecodeStep(w) \/ DecodeFails(w) \/ DecodeAgain(w)

DecodingSpec == DecodingInit /\ [][DecodingNext]_decodingVars

(* A run keeps taking steps and is called again; blocks and faults owe     *)
(* nothing.                                                                *)
FairDecodingSpec ==
  /\ DecodingSpec
  /\ \A w \in Decoders : WF_decodingVars(DecodeStep(w)) /\ WF_decodingVars(DecodeAgain(w))

(***************************************************************************)
(* Properties                                                              *)
(***************************************************************************)

(* Type invariant of the tables and of decoding's own state. *)
DecodingTypeOK == StoreTypeOK /\ DecodeTypeOK

(* Two runs never hold one transaction, and what a run holds is still      *)
(* PROCESSING, so no other can take it (decode_transactions' docstring).   *)
ClaimedByOne ==
  /\ \A v, w \in Decoders : v # w => batch[v] \cap batch[w] = {}
  /\ \A w \in Decoders : \A t \in batch[w] : status[t] = "PROCESSING"

(* A transaction's transfers are stored by one run at most, and they are   *)
(* there exactly when its status says so: a calldata transfer, which no    *)
(* constraint holds to one row, is held to one by decode_status alone.     *)
DecodedOnce ==
  \A t \in Txs :
    /\ Len(transfers[t]) <= 1
    /\ transfers[t] # <<>> <=> status[t] = "DECODED"

(* A status only moves forward, one stage at a time, whatever storing the  *)
(* block again, a second run or a crash does.                              *)
Forward(old, new) ==
  \/ new = old
  \/ old = None /\ new = "INGESTED"
  \/ old = "INGESTED" /\ new = "PROCESSING"
  \/ old = "PROCESSING" /\ new \in Final

StatusMovesForward ==
  [][\A t \in Txs : Forward(status[t], status'[t])]_decodingVars

(* Claimed, and the run that claimed it has died or raised since.          *)
Abandoned(t) == status[t] = "PROCESSING" /\ \A w \in Decoders : t \notin batch[w]

(* Every stored transaction is decoded in the end, however many batches    *)
(* and runs it takes, but for those whose run failed after claiming them:  *)
(* no other is held up by them, or by another run's claims.                *)
EveryTransactionDecoded ==
  \A t \in Txs : status[t] = "INGESTED" ~> status[t] \in Final \/ Abandoned(t)
=============================================================================
