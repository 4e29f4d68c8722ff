---------------------------- MODULE PipelineProofs ----------------------------
(***************************************************************************)
(* What the pipeline's stages guarantee, each beside whatever its own      *)
(* specification leaves the others to do, and what they still guarantee    *)
(* when they are composed, proved for any chain, any number of processes,  *)
(* any rules and any number of failures.                                   *)
(***************************************************************************)
EXTENDS Pipeline, SequenceTheorems, TLAPS

(***************************************************************************)
(* Ingestion.                                                              *)
(*                                                                         *)
(* Type correctness is not inductive alone: the loop's transaction stores  *)
(* its locals, so it takes that they are set by then.  The cursor's        *)
(* invariant takes more: that what is fetched, or cached, for a height is  *)
(* a block of that height.                                                 *)
(***************************************************************************)

(* What is fetched or cached under a height is a block at that height.     *)
CachedAtHeight ==
  \A n \in Heights :
    /\ blockCache[n] # None => Number[blockCache[n]] = n
    /\ receiptsCache[n] # None => Number[receiptsCache[n]] = n

FetchedAtHeight ==
  \A w \in Ingesters :
    /\ ipc[w] \in {"receipts", "store"} => fetched[w] # None /\ Number[fetched[w]] = next[w]
    /\ ipc[w] = "store" => fetchedReceipts[w] # None /\ Number[fetchedReceipts[w]] = next[w]

IngestionInv ==
  /\ IngestionTypeOK
  /\ CachedAtHeight
  /\ FetchedAtHeight
  /\ CursorNamesStoredBlock

(* The node's answer for a height is null, or a block at that height.      *)
LEMMA BlockAtHeight ==
  ASSUME NEW t \in Blocks, NEW n \in Nat
  PROVE  /\ BlockAt(t, n) \in Blocks \cup {None}
         /\ BlockAt(t, n) # None => Number[BlockAt(t, n)] = n
<1> DEFINE there == {b \in Blocks : Number[b] = n /\ b \in Ancestry[t]}
<1>1. CASE there = {}
  BY <1>1 DEF BlockAt
<1>2. CASE there # {}
  <2>1. (CHOOSE b \in there : TRUE) \in there
    BY <1>2
  <2>2. BlockAt(t, n) \in there
    BY <1>2, <2>1 DEF BlockAt
  <2> QED
    BY <2>2
<1> QED
  BY <1>1, <1>2

(* So is what the cache answers, the node behind it. *)
LEMMA CachedHeight ==
  ASSUME NEW cache \in [Heights -> Blocks \cup {None}], NEW n \in Nat, tip \in Blocks,
         \A k \in Heights : cache[k] # None => Number[cache[k]] = k
  PROVE  /\ Cached(cache, n) \in Blocks \cup {None}
         /\ Cached(cache, n) # None => Number[Cached(cache, n)] = n
BY BlockAtHeight DEF Cached

LEMMA IngestionInitial == IngestionInit => IngestionInv
BY NoneAssumption, MaxFaultsAssumption
DEF IngestionInit, StoreInit, IngestInit, IngestionInv, IngestionTypeOK, StoreTypeOK,
    IngestTypeOK, CachedAtHeight, FetchedAtHeight, CursorNamesStoredBlock, IngestPcs, Heights

(* A step of the node or of the cache. *)
LEMMA NodePreserves == IngestionInv /\ NodeStep => IngestionInv'
<1> SUFFICES ASSUME IngestionInv, NodeStep PROVE IngestionInv'
  OBVIOUS
<1> USE DEF IngestionInv, IngestionTypeOK, StoreTypeOK, IngestTypeOK, tables, chainTables,
            ingestVars, CachedAtHeight, FetchedAtHeight, CursorNamesStoredBlock
<1>1. CASE \E b \in Blocks : NodeMoves(b)
  BY <1>1 DEF NodeMoves
<1>2. CASE \E n \in Heights : CacheExpires(n)
  <2>1. PICK n \in Heights : CacheExpires(n)
    BY <1>2
  <2>2. UNCHANGED <<tables, faults, tip, ingestVars>>
    BY <2>1 DEF CacheExpires
  <2>3. \A k \in Heights : /\ blockCache'[k] \in {blockCache[k], None}
                           /\ receiptsCache'[k] \in {receiptsCache[k], None}
    BY <2>1 DEF CacheExpires
  <2>4. /\ blockCache' \in [Heights -> Blocks \cup {None}]
        /\ receiptsCache' \in [Heights -> Blocks \cup {None}]
    BY <2>1 DEF CacheExpires
  <2>5. CachedAtHeight'
    BY <2>3
  <2>6. IngestionTypeOK' /\ FetchedAtHeight' /\ CursorNamesStoredBlock'
    BY <2>2, <2>4
  <2> QED
    BY <2>5, <2>6
<1> QED
  BY <1>1, <1>2 DEF NodeStep

(* A step of a process that stores nothing: it moves between the steps of  *)
(* its call, or forgets what it had.                                       *)
LEMMA IngestForgettingPreserves ==
  ASSUME NEW w \in Ingesters, IngestionInv, IngestForgets(w),
         NEW pc \in {"idle", "failed"}, ipc' = [ipc EXCEPT ![w] = pc],
         UNCHANGED <<tables, nodeVars>>, faults' \in 0 .. MaxFaults
  PROVE  IngestionInv'
<1> USE DEF IngestionInv, tables, chainTables, nodeVars
<1>1. IngestionTypeOK'
  BY DEF IngestionTypeOK, StoreTypeOK, IngestTypeOK, IngestPcs, IngestForgets
<1>2. CachedAtHeight'
  BY DEF CachedAtHeight
<1>3. FetchedAtHeight'
  BY DEF FetchedAtHeight, IngestionTypeOK, IngestTypeOK, IngestForgets
<1>4. CursorNamesStoredBlock'
  BY DEF CursorNamesStoredBlock
<1> QED
  BY <1>1, <1>2, <1>3, <1>4

LEMMA IngestStoringPreserves ==
  ASSUME NEW w \in Ingesters, IngestionInv, StoreFetched(w)
  PROVE  IngestionInv'
<1> DEFINE b == fetched[w]
<1>1. /\ b \in Blocks /\ Number[b] = next[w] /\ next[w] \in Nat
      /\ fetchedReceipts[w] \in Blocks
  BY DEF IngestionInv, IngestionTypeOK, IngestTypeOK, FetchedAtHeight, StoreFetched
<1>2. StoreTypeOK'
  <2>1. /\ stored' \in SUBSET Blocks
        /\ txBlock' \in [Txs -> Blocks \cup {None}]
        /\ status' \in [Txs -> DecodeStatus \cup {None}]
        /\ evaluated' \in SUBSET Blocks
    BY <1>1 DEF IngestionInv, IngestionTypeOK, StoreTypeOK, StoreFetched, StoreBlock, DecodeStatus
  <2>2. receiptBlock' \in [Txs -> Blocks \cup {None}]
    BY <1>1 DEF IngestionInv, IngestionTypeOK, StoreTypeOK, StoreFetched, StoreReceipts
  <2>3. cursor' \in Nat \cup {None}
    BY <1>1 DEF StoreFetched
  <2> QED
    BY <2>1, <2>2, <2>3 DEF IngestionInv, IngestionTypeOK, StoreTypeOK, StoreFetched
<1>3. IngestTypeOK'
  BY <1>1 DEF IngestionInv, IngestionTypeOK, IngestTypeOK, IngestPcs, StoreFetched, nodeVars
<1>4. CachedAtHeight'
  BY DEF IngestionInv, CachedAtHeight, StoreFetched, nodeVars
<1>5. FetchedAtHeight'
  BY DEF IngestionInv, IngestionTypeOK, IngestTypeOK, FetchedAtHeight, StoreFetched
<1>6. CursorNamesStoredBlock'
  BY <1>1 DEF CursorNamesStoredBlock, StoreFetched, StoreBlock
<1> QED
  BY <1>2, <1>3, <1>4, <1>5, <1>6 DEF IngestionInv, IngestionTypeOK

LEMMA IngestStepPreserves ==
  ASSUME NEW w \in Ingesters, IngestionInv, IngestStep(w)
  PROVE  IngestionInv'
<1> USE DEF IngestionInv, tables, chainTables, nodeVars
<1>h. \A b \in Blocks : Number[b] \in Nat
  BY NumberAssumption
<1>1. CASE ReadHead(w)
  BY <1>1, <1>h DEF ReadHead, IngestionTypeOK, StoreTypeOK, IngestTypeOK, IngestPcs,
     CachedAtHeight, FetchedAtHeight, CursorNamesStoredBlock
<1>2. CASE ReadCursor(w)
  <2>1. StartOf(w) \in Nat
    BY DEF StartOf, IngestionTypeOK, StoreTypeOK, IngestTypeOK
  <2> QED
    BY <1>2, <2>1 DEF ReadCursor, IngestionTypeOK, StoreTypeOK, IngestTypeOK, IngestPcs,
       CachedAtHeight, FetchedAtHeight, CursorNamesStoredBlock
<1>3. CASE FetchBlock(w)
  <2> DEFINE b == Cached(blockCache, next[w])
  <2>1. b \in Blocks /\ Number[b] = next[w]
    BY <1>3, CachedHeight DEF FetchBlock, IngestionTypeOK, IngestTypeOK, CachedAtHeight
  <2>2. IngestionTypeOK'
    BY <1>3, <2>1 DEF FetchBlock, IngestionTypeOK, StoreTypeOK, IngestTypeOK, IngestPcs
  <2>3. CachedAtHeight'
    BY <1>3, <2>1 DEF FetchBlock, IngestionTypeOK, IngestTypeOK, CachedAtHeight
  <2>4. FetchedAtHeight'
    BY <1>3, <2>1, NoneAssumption DEF FetchBlock, IngestionTypeOK, IngestTypeOK, FetchedAtHeight
  <2>5. CursorNamesStoredBlock'
    BY <1>3 DEF FetchBlock, CursorNamesStoredBlock
  <2> QED
    BY <2>2, <2>3, <2>4, <2>5
<1>4. CASE FetchReceipts(w)
  <2> DEFINE r == Cached(receiptsCache, next[w])
  <2>1. r \in Blocks /\ Number[r] = next[w]
    BY <1>4, CachedHeight DEF FetchReceipts, IngestionTypeOK, IngestTypeOK, CachedAtHeight
  <2>2. IngestionTypeOK'
    BY <1>4, <2>1 DEF FetchReceipts, IngestionTypeOK, StoreTypeOK, IngestTypeOK, IngestPcs
  <2>3. CachedAtHeight'
    BY <1>4, <2>1 DEF FetchReceipts, IngestionTypeOK, IngestTypeOK, CachedAtHeight
  <2>4. FetchedAtHeight'
    BY <1>4, <2>1, NoneAssumption DEF FetchReceipts, IngestionTypeOK, IngestTypeOK, FetchedAtHeight
  <2>5. CursorNamesStoredBlock'
    BY <1>4 DEF FetchReceipts, CursorNamesStoredBlock
  <2> QED
    BY <2>2, <2>3, <2>4, <2>5
<1>5. CASE FetchFindsNothing(w)
  BY <1>5, IngestForgettingPreserves DEF FetchFindsNothing, IngestionTypeOK, StoreTypeOK
<1>6. CASE StoreFetched(w)
  BY <1>6, IngestStoringPreserves
<1> QED
  BY <1>1, <1>2, <1>3, <1>4, <1>5, <1>6 DEF IngestStep

LEMMA IngestionInductive ==
  IngestionInv /\ [IngestionNext]_ingestionVars => IngestionInv'
<1> SUFFICES ASSUME IngestionInv, [IngestionNext]_ingestionVars PROVE IngestionInv'
  OBVIOUS
<1>1. CASE NodeStep
  BY <1>1, NodePreserves
<1>2. ASSUME NEW w \in Ingesters, IngestStep(w) PROVE IngestionInv'
  BY <1>2, IngestStepPreserves
<1>3. ASSUME NEW w \in Ingesters, IngestFails(w) PROVE IngestionInv'
  <2>1. faults' \in 0 .. MaxFaults
    BY <1>3, MaxFaultsAssumption
    DEF IngestFails, Fault, IngestionInv, IngestionTypeOK, StoreTypeOK
  <2> QED
    BY <1>3, <2>1, IngestForgettingPreserves DEF IngestFails, Fault
<1>4. ASSUME NEW w \in Ingesters, IngestAgain(w) PROVE IngestionInv'
  BY <1>4, IngestForgettingPreserves DEF IngestAgain, IngestionInv, IngestionTypeOK, StoreTypeOK
<1>5. CASE UNCHANGED ingestionVars
  BY <1>5 DEF ingestionVars, tables, chainTables, nodeVars, ingestVars, IngestionInv,
     IngestionTypeOK, StoreTypeOK, IngestTypeOK, CachedAtHeight, FetchedAtHeight,
     CursorNamesStoredBlock
<1> QED
  BY <1>1, <1>2, <1>3, <1>4, <1>5 DEF IngestionNext

LEMMA IngestionInvariant == IngestionSpec => []IngestionInv
BY IngestionInitial, IngestionInductive, PTL DEF IngestionSpec

(* Ingestion's state keeps its types. *)
THEOREM IngestionTypeCorrect == IngestionSpec => []IngestionTypeOK
<1>1. IngestionInv => IngestionTypeOK
  BY DEF IngestionInv
<1> QED
  BY <1>1, IngestionInvariant, PTL

(* However many processes ingest, and whatever the node, the cache and the *)
(* faults do, the block the cursor names is stored.                        *)
THEOREM CursorCorrect == IngestionSpec => []CursorNamesStoredBlock
<1>1. IngestionInv => CursorNamesStoredBlock
  BY DEF IngestionInv
<1> QED
  BY <1>1, IngestionInvariant, PTL

(***************************************************************************)
(* One process ingesting skips no height.  What makes it inductive: while  *)
(* that process is in its loop, the number it is at is the one the cursor, *)
(* which nobody else moves, would have it start from.                      *)
(***************************************************************************)
LoopFollowsCursor ==
  \A w \in Ingesters :
    ipc[w] \in {"block", "receipts", "store"} => next[w] = StartOf(w)

OneIngesterInv == NothingSkipped /\ LoopFollowsCursor

LEMMA OneIngesterInitial == IngestionInit => OneIngesterInv
BY DEF IngestionInit, StoreInit, IngestInit, OneIngesterInv, NothingSkipped, LoopFollowsCursor

(* Nothing skipped is about the tables that storing a block writes alone.  *)
LEMMA SkippedByStoringOnly ==
  ASSUME NothingSkipped, UNCHANGED <<stored, cursor>> PROVE NothingSkipped'
BY DEF NothingSkipped

LEMMA StoringSkipsNothing ==
  ASSUME NEW p, Ingesters = {p}, IngestionInv, OneIngesterInv, StoreFetched(p)
  PROVE  OneIngesterInv'
<1> DEFINE b == fetched[p]
<1> USE DEF IngestionInv, OneIngesterInv
<1>1. /\ b \in Blocks /\ Number[b] = next[p] /\ next[p] \in Nat
      /\ next[p] = StartOf(p)
      /\ cursor' = next[p] /\ stored' = stored \cup {b}
  BY DEF IngestionTypeOK, IngestTypeOK, FetchedAtHeight, LoopFollowsCursor, StoreFetched,
     StoreBlock
<1>2. cursor \in Nat \cup {None} /\ stored \subseteq Blocks
  BY DEF IngestionTypeOK, StoreTypeOK
<1>3. \A c \in Blocks : Number[c] \in Nat
  BY NumberAssumption
<1>4. NothingSkipped'
  <2>1. CASE cursor = None
    <3>1. stored = {}
      BY <2>1 DEF NothingSkipped
    <3> QED
      BY <1>1, <1>2, <3>1, NoneAssumption DEF NothingSkipped
  <2>2. CASE cursor # None
    <3>1. cursor' = cursor + 1
      BY <1>1, <2>2 DEF StartOf
    <3> SUFFICES ASSUME NEW c \in stored'
                 PROVE  /\ cursor' # None
                        /\ Number[c] <= cursor'
                        /\ \A n \in Number[c] .. cursor' : \E d \in stored' : Number[d] = n
      BY DEF NothingSkipped
    <3>2. cursor' # None /\ Number[c] <= cursor'
      BY <1>1, <1>2, <1>3, <2>2, <3>1, NoneAssumption DEF NothingSkipped
    <3>3. ASSUME NEW n \in Number[c] .. cursor'
          PROVE  \E d \in stored' : Number[d] = n
      <4>1. CASE n = cursor'
        BY <1>1, <4>1
      <4>2. CASE n # cursor'
        <5>1. c \in stored /\ n \in Number[c] .. cursor
          BY <1>1, <1>2, <1>3, <2>2, <3>1, <3>3, <4>2
        <5> QED
          BY <1>1, <5>1 DEF NothingSkipped
      <4> QED
        BY <4>1, <4>2
    <3> QED
      BY <3>2, <3>3
  <2> QED
    BY <2>1, <2>2
<1>5. LoopFollowsCursor'
  <2>1. next'[p] = cursor' + 1 /\ cursor' # None
    BY <1>1, NoneAssumption DEF StoreFetched, IngestionTypeOK, IngestTypeOK
  <2> QED
    BY <2>1 DEF LoopFollowsCursor, StartOf
<1> QED
  BY <1>4, <1>5

LEMMA OneIngesterInductive ==
  ASSUME NEW p, Ingesters = {p}, IngestionInv, OneIngesterInv,
         \/ IngestStep(p) \/ IngestFails(p) \/ IngestAgain(p)
         \/ NodeStep
         \/ UNCHANGED <<stored, cursor, ipc, head, next>>
  PROVE  OneIngesterInv'
<1> USE DEF OneIngesterInv
<1>1. CASE StoreFetched(p)
  BY <1>1, StoringSkipsNothing
<1>2. CASE UNCHANGED <<stored, cursor, ipc, head, next>>
  BY <1>2, SkippedByStoringOnly DEF LoopFollowsCursor, StartOf
<1>3. CASE ReadHead(p) \/ ReadCursor(p) \/ FetchBlock(p) \/ FetchReceipts(p)
  <2>1. UNCHANGED <<stored, cursor>>
    BY <1>3 DEF ReadHead, ReadCursor, FetchBlock, FetchReceipts, tables, chainTables
  <2>2. LoopFollowsCursor'
    BY <1>3, <2>1 DEF LoopFollowsCursor, StartOf, ReadHead, ReadCursor, FetchBlock,
       FetchReceipts, IngestionInv, IngestionTypeOK, IngestTypeOK
  <2> QED
    BY <2>1, <2>2, SkippedByStoringOnly
<1>4. CASE FetchFindsNothing(p) \/ IngestFails(p) \/ IngestAgain(p)
  <2>1. UNCHANGED <<stored, cursor>>
    BY <1>4 DEF FetchFindsNothing, IngestFails, IngestAgain, Fault, tables, chainTables
  <2>2. LoopFollowsCursor'
    BY <1>4 DEF LoopFollowsCursor, FetchFindsNothing, IngestFails, IngestAgain,
       IngestionInv, IngestionTypeOK, IngestTypeOK
  <2> QED
    BY <2>1, <2>2, SkippedByStoringOnly
<1>5. CASE NodeStep
  BY <1>2, <1>5 DEF NodeStep, NodeMoves, CacheExpires, tables, chainTables, ingestVars
<1> QED
  BY <1>1, <1>2, <1>3, <1>4, <1>5 DEF IngestStep

(* A single process, failing and resuming however often, leaves no height  *)
(* between the first block stored and the cursor without a block.          *)
THEOREM OneIngesterSkipsNothing ==
  ASSUME NEW p, Ingesters = {p}
  PROVE  IngestionSpec => []NothingSkipped
<1>1. IngestionInit => OneIngesterInv
  BY OneIngesterInitial
<1>2. IngestionInv /\ OneIngesterInv /\ [IngestionNext]_ingestionVars => OneIngesterInv'
  BY OneIngesterInductive DEF IngestionNext, ingestionVars, tables, chainTables, ingestVars
<1>3. OneIngesterInv => NothingSkipped
  BY DEF OneIngesterInv
<1> QED
  BY <1>1, <1>2, <1>3, IngestionInvariant, PTL DEF IngestionSpec

(***************************************************************************)
(* Decoding.                                                               *)
(*                                                                         *)
(* That a transaction is decoded once rests on the claim: what a run holds *)
(* is PROCESSING and held by no other run, and a transaction not DECODED   *)
(* has no transfers, so the run that stores its transfers is the first.    *)
(***************************************************************************)

DecodingInv == DecodingTypeOK /\ ClaimedByOne /\ DecodedOnce

LEMMA DecodingInitial == DecodingInit => DecodingInv
<1> SUFFICES ASSUME DecodingInit PROVE DecodingInv
  OBVIOUS
<1> USE DEF DecodingInit, StoreInit, DecodeInit
<1>1. <<>> \in Seq(TransferRows) /\ Len(<<>>) = 0
  OBVIOUS
<1>2. StoreTypeOK
  BY <1>1, NoneAssumption, MaxFaultsAssumption DEF StoreTypeOK, TransferRows, DecodeStatus
<1>3. DecodeTypeOK
  BY DEF DecodeTypeOK, DecodePcs, NoRows
<1>4. ClaimedByOne
  BY DEF ClaimedByOne
<1>5. DecodedOnce
  <2>1. None # "DECODED"
    BY NoneIsNoStatus DEF DecodeStatus
  <2> QED
    BY <1>1, <2>1 DEF DecodedOnce
<1> QED
  BY <1>2, <1>3, <1>4, <1>5 DEF DecodingInv, DecodingTypeOK

(* A step that leaves the statuses and the transfers alone, and holds no   *)
(* more than was held.                                                     *)
LEMMA HoldingNoMorePreserves ==
  ASSUME DecodingInv, UNCHANGED <<status, transfers>>,
         \A w \in Decoders : batch'[w] \subseteq batch[w]
  PROVE  ClaimedByOne' /\ DecodedOnce'
BY DEF DecodingInv, ClaimedByOne, DecodedOnce

(* A step of a run that stores nothing. *)
LEMMA ReadingPreserves ==
  ASSUME NEW w \in Decoders, DecodingInv, UNCHANGED <<tables, faults>>,
         StartDecoding(w) \/ ClaimNothing(w) \/ ReadRows(w) \/ ReadReceipts(w) \/ DecodeAgain(w)
  PROVE  DecodingInv'
<1> USE DEF tables, chainTables, DecodingInv
<1>1. StoreTypeOK'
  BY DEF DecodingTypeOK, StoreTypeOK
<1>2. DecodeTypeOK'
  <2> USE DEF DecodingTypeOK, DecodeTypeOK, DecodePcs
  <2>1. CASE StartDecoding(w) \/ ClaimNothing(w)
    BY <2>1 DEF StartDecoding, ClaimNothing
  <2>2. CASE ReadRows(w)
    BY <2>2 DEF ReadRows, StoreTypeOK
  <2>3. CASE ReadReceipts(w)
    BY <2>3 DEF ReadReceipts
  <2>4. CASE DecodeAgain(w)
    BY <2>4 DEF DecodeAgain, DecodeForgets, NoRows
  <2> QED
    BY <2>1, <2>2, <2>3, <2>4
<1>3. \A v \in Decoders : batch'[v] \subseteq batch[v]
  BY DEF DecodingTypeOK, DecodeTypeOK, StartDecoding, ClaimNothing, ReadRows, ReadReceipts,
     DecodeAgain, DecodeForgets
<1> QED
  BY <1>1, <1>2, <1>3, HoldingNoMorePreserves DEF DecodingTypeOK

LEMMA ClaimPreserves ==
  ASSUME NEW w \in Decoders, DecodingInv, Claim(w)
  PROVE  DecodingInv'
<1> USE DEF DecodingInv
<1>1. PICK S \in SUBSET Ingested :
        /\ status' = [t \in Txs |-> IF t \in S THEN "PROCESSING" ELSE status[t]]
        /\ batch' = [batch EXCEPT ![w] = S]
  BY DEF Claim
<1>2. /\ S \subseteq Txs
      /\ \A t \in S : status[t] = "INGESTED"
  BY DEF Ingested
<1>3. DecodingTypeOK'
  BY <1>1, <1>2 DEF DecodingTypeOK, StoreTypeOK, DecodeTypeOK, DecodePcs, DecodeStatus, Claim,
     chainTables
<1>4. ClaimedByOne'
  <2>1. \A v \in Decoders : v # w => batch[v] \cap S = {} /\ batch'[v] = batch[v]
    BY <1>1, <1>2 DEF ClaimedByOne, DecodingTypeOK, DecodeTypeOK
  <2>2. batch'[w] = S
    BY <1>1 DEF DecodingTypeOK, DecodeTypeOK
  <2>3. \A v \in Decoders : batch[v] \subseteq Txs
    BY DEF DecodingTypeOK, DecodeTypeOK
  <2> QED
    BY <1>1, <1>2, <2>1, <2>2, <2>3 DEF ClaimedByOne
<1>5. DecodedOnce'
  BY <1>1, <1>2 DEF DecodedOnce, Claim
<1> QED
  BY <1>3, <1>4, <1>5

LEMMA StorePreserves ==
  ASSUME NEW w \in Decoders, DecodingInv, StoreTransfers(w)
  PROVE  DecodingInv'
<1> USE DEF DecodingInv
<1> DEFINE row(t) == [block |-> rows[w][t], logged |-> t \in receipted[w]]
<1>1. /\ Transferring(w) \subseteq batch[w] /\ batch[w] \subseteq Txs
      /\ \A t \in batch[w] : status[t] = "PROCESSING"
  BY DEF Transferring, ClaimedByOne, DecodingTypeOK, DecodeTypeOK
<1>2. \A t \in Txs : row(t) \in TransferRows /\ transfers[t] \in Seq(TransferRows)
  <2>1. \A t \in Txs : (t \in receipted[w]) \in BOOLEAN
    OBVIOUS
  <2>2. \A t \in Txs : rows[w][t] \in Blocks \cup {None}
    BY DEF DecodingTypeOK, DecodeTypeOK
  <2>3. \A t \in Txs : row(t) \in TransferRows
    BY <2>1, <2>2, Zenon DEF TransferRows
  <2> QED
    BY <2>3 DEF DecodingTypeOK, StoreTypeOK
<1>3. \A t \in Txs :
        /\ Append(transfers[t], row(t)) \in Seq(TransferRows)
        /\ Len(Append(transfers[t], row(t))) = Len(transfers[t]) + 1
  <2> HIDE DEF row
  <2> QED
    BY <1>2, AppendProperties
<1>4. transfers' = [t \in Txs |-> IF t \in Transferring(w) THEN Append(transfers[t], row(t))
                                                           ELSE transfers[t]]
  BY DEF StoreTransfers
<1>5. StoreTypeOK'
  <2>1. transfers' \in [Txs -> Seq(TransferRows)]
    BY <1>2, <1>3, <1>4
  <2>2. status' \in [Txs -> DecodeStatus \cup {None}]
    BY DEF StoreTransfers, DecodingTypeOK, StoreTypeOK, DecodeStatus
  <2> QED
    BY <2>1, <2>2 DEF StoreTransfers, DecodingTypeOK, StoreTypeOK, chainTables
<1>6. DecodeTypeOK'
  BY NoneAssumption DEF StoreTransfers, DecodingTypeOK, DecodeTypeOK, DecodePcs, NoRows
<1>7. ClaimedByOne'
  <2>1. batch'[w] = {} /\ \A v \in Decoders : v # w => batch'[v] = batch[v]
    BY DEF StoreTransfers, DecodingTypeOK, DecodeTypeOK
  <2>2. ASSUME NEW v \in Decoders, v # w, NEW t \in batch[v]
        PROVE  t \in Txs /\ status'[t] = "PROCESSING"
    BY <1>1, <2>2 DEF StoreTransfers, ClaimedByOne, DecodingTypeOK, DecodeTypeOK
  <2> QED
    BY <2>1, <2>2 DEF ClaimedByOne
<1>8. DecodedOnce'
  <2> SUFFICES ASSUME NEW t \in Txs
               PROVE  /\ Len(transfers'[t]) <= 1
                      /\ transfers'[t] # <<>> <=> status'[t] = "DECODED"
    BY DEF DecodedOnce
  <2>1. CASE t \in Transferring(w)
    <3>1. transfers[t] = <<>> /\ status'[t] = "DECODED"
      BY <1>1, <2>1 DEF DecodedOnce, StoreTransfers
    <3>2. Len(transfers'[t]) = 1
      BY <1>3, <1>4, <2>1, <3>1
    <3>3. transfers'[t] # <<>>
      BY <3>2
    <3> QED
      BY <3>1, <3>2, <3>3
  <2>2. CASE t \notin Transferring(w)
    BY <1>1, <1>4, <2>2 DEF DecodedOnce, StoreTransfers
  <2> QED
    BY <2>1, <2>2
<1> QED
  BY <1>5, <1>6, <1>7, <1>8 DEF DecodingTypeOK

LEMMA DecodeFailsPreserves ==
  ASSUME NEW w \in Decoders, DecodingInv, DecodeFails(w)
  PROVE  DecodingInv'
<1> USE DEF DecodingInv, DecodeFails, Fault, DecodeForgets, tables, chainTables
<1>1. StoreTypeOK'
  BY MaxFaultsAssumption DEF DecodingTypeOK, StoreTypeOK
<1>2. DecodeTypeOK'
  BY DEF DecodingTypeOK, DecodeTypeOK, DecodePcs, NoRows
<1>3. \A v \in Decoders : batch'[v] \subseteq batch[v]
  BY DEF DecodingTypeOK, DecodeTypeOK
<1> QED
  BY <1>1, <1>2, <1>3, HoldingNoMorePreserves DEF DecodingTypeOK

(* Storing a block, again or for the first time, takes nothing from a run. *)
LEMMA ArrivingPreserves ==
  ASSUME NEW b \in Blocks, NEW r \in Blocks, DecodingInv, BlockArrives(b, r)
  PROVE  DecodingInv'
<1> USE DEF DecodingInv, BlockArrives, StoreBlock
<1>1. StoreTypeOK'
  BY NumberAssumption, TxsOfAssumption
  DEF DecodingTypeOK, StoreTypeOK, DecodeStatus, StoreReceipts
<1>2. DecodeTypeOK'
  BY DEF DecodingTypeOK, DecodeTypeOK, decodeVars
<1>3. \A t \in Txs : status[t] # None => status'[t] = status[t]
  BY DEF DecodingTypeOK, StoreTypeOK
<1>4. ClaimedByOne'
  <2>1. \A w \in Decoders : \A t \in batch[w] : t \in Txs /\ status[t] = "PROCESSING"
    BY DEF ClaimedByOne, DecodingTypeOK, DecodeTypeOK
  <2>2. None # "PROCESSING"
    BY NoneIsNoStatus DEF DecodeStatus
  <2> QED
    BY <1>3, <2>1, <2>2 DEF ClaimedByOne, decodeVars
<1>5. DecodedOnce'
  <2>1. \A t \in Txs : status[t] = None => status'[t] \in {None, "INGESTED"}
    BY DEF DecodingTypeOK, StoreTypeOK
  <2> QED
    BY <1>3, <2>1, NoneIsNoStatus DEF DecodedOnce, DecodeStatus
<1> QED
  BY <1>1, <1>2, <1>4, <1>5 DEF DecodingTypeOK

LEMMA DecodingInductive ==
  DecodingInv /\ [DecodingNext]_decodingVars => DecodingInv'
<1> SUFFICES ASSUME DecodingInv, [DecodingNext]_decodingVars PROVE DecodingInv'
  OBVIOUS
<1>1. ASSUME NEW b \in Blocks, NEW r \in Blocks, BlockArrives(b, r) PROVE DecodingInv'
  BY <1>1, ArrivingPreserves
<1>2. ASSUME NEW w \in Decoders, DecodeStep(w) PROVE DecodingInv'
  BY <1>2, ReadingPreserves, ClaimPreserves, StorePreserves
  DEF DecodeStep, StartDecoding, ClaimNothing, ReadRows, ReadReceipts
<1>3. ASSUME NEW w \in Decoders, DecodeFails(w) PROVE DecodingInv'
  BY <1>3, DecodeFailsPreserves
<1>4. ASSUME NEW w \in Decoders, DecodeAgain(w) PROVE DecodingInv'
  BY <1>4, ReadingPreserves DEF DecodeAgain
<1>5. CASE UNCHANGED decodingVars
  BY <1>5 DEF decodingVars, decodeVars, tables, chainTables, DecodingInv, DecodingTypeOK,
     StoreTypeOK, DecodeTypeOK, ClaimedByOne, DecodedOnce
<1> QED
  BY <1>1, <1>2, <1>3, <1>4, <1>5 DEF DecodingNext

LEMMA DecodingInvariant == DecodingSpec => []DecodingInv
BY DecodingInitial, DecodingInductive, PTL DEF DecodingSpec

(* Decoding's state keeps its types. *)
THEOREM DecodingTypeCorrect == DecodingSpec => []DecodingTypeOK
<1>1. DecodingInv => DecodingTypeOK
  BY DEF DecodingInv
<1> QED
  BY <1>1, DecodingInvariant, PTL

(* However many runs decode at once, no two hold one transaction.          *)
THEOREM ClaimsExclude == DecodingSpec => []ClaimedByOne
<1>1. DecodingInv => ClaimedByOne
  BY DEF DecodingInv
<1> QED
  BY <1>1, DecodingInvariant, PTL

(* No transaction's transfers are stored twice, or without its status.     *)
THEOREM DecodesOnce == DecodingSpec => []DecodedOnce
<1>1. DecodingInv => DecodedOnce
  BY DEF DecodingInv
<1> QED
  BY <1>1, DecodingInvariant, PTL

(* A run moves statuses that are not final, and transfers with them.       *)
Moved(t) ==
  \/ status'[t] = status[t] /\ transfers'[t] = transfers[t]
  \/ status[t] \in Undecoded /\ status'[t] # None /\ Forward(status[t], status'[t])

LEMMA RunsMoveForward ==
  ASSUME NEW w \in Decoders, DecodingInv, DecodeStep(w) \/ DecodeFails(w) \/ DecodeAgain(w)
  PROVE  UNCHANGED <<chainTables, evaluated, matches>> /\ \A t \in Txs : Moved(t)
<1>1. /\ \A t \in Ingested : t \in Txs /\ status[t] = "INGESTED"
      /\ \A t \in batch[w] : t \in Txs /\ status[t] = "PROCESSING"
  BY DEF Ingested, DecodingInv, ClaimedByOne, DecodingTypeOK, DecodeTypeOK
<1>2. None \notin {"INGESTED", "PROCESSING", "DECODED", "UNABLE_TO_DECODE"}
  BY NoneIsNoStatus DEF DecodeStatus
<1>3. CASE Claim(w)
  BY <1>1, <1>2, <1>3 DEF Claim, Moved, Forward, Undecoded
<1>4. CASE StoreTransfers(w)
  BY <1>1, <1>2, <1>4 DEF StoreTransfers, Transferring, Moved, Forward, Undecoded, Final
<1>5. CASE UNCHANGED tables
  BY <1>5 DEF tables, Moved
<1> QED
  BY <1>3, <1>4, <1>5
  DEF DecodeStep, DecodeFails, DecodeAgain, Fault, StartDecoding, ClaimNothing, ReadRows,
      ReadReceipts

(* No step, of a run or of ingestion, moves a status back or past a stage. *)
THEOREM StatusOrder == DecodingSpec => StatusMovesForward
<1> DEFINE Moves == \A t \in Txs : Forward(status[t], status'[t])
<1>1. DecodingInv /\ [DecodingNext]_decodingVars => [Moves]_decodingVars
  <2> SUFFICES ASSUME DecodingInv, DecodingNext PROVE Moves
    BY DEF decodingVars
  <2>1. ASSUME NEW b \in Blocks, NEW r \in Blocks, BlockArrives(b, r) PROVE Moves
    BY <2>1 DEF BlockArrives, StoreBlock, Forward
  <2>2. ASSUME NEW w \in Decoders, DecodeStep(w) \/ DecodeFails(w) \/ DecodeAgain(w) PROVE Moves
    BY <2>2, RunsMoveForward DEF Moved, Forward
  <2> QED
    BY <2>1, <2>2 DEF DecodingNext
<1> QED
  BY <1>1, DecodingInvariant, PTL DEF DecodingSpec, StatusMovesForward

(***************************************************************************)
(* Evaluation.                                                             *)
(*                                                                         *)
(* A block's matches are complete because of what a run knows between its  *)
(* two reads: it alone has marked the block, the transactions it read are  *)
(* all the block holds from then on, since a block once stored gains none, *)
(* and with a rule reading transfers all of them have final statuses, so   *)
(* no decode run stores a transfer of theirs any more.                     *)
(***************************************************************************)

(* A run outside a block's transaction holds none of it, and inside it has *)
(* marked a stored block that is not evaluated.                            *)
MarksHeld ==
  \A w \in Evaluators :
    /\ current[w] # None <=> epc[w] \in {"marked", "read"}
    /\ current[w] # None => current[w] \in stored \ evaluated

(* No two runs mark one block. *)
MarksExclude ==
  \A v, w \in Evaluators : v # w /\ current[v] # None => current[v] # current[w]

(* What a run read of its block is all the block holds, decoded for good.  *)
ReadsComplete ==
  \A w \in Evaluators : epc[w] = "read" =>
    /\ InBlock(current[w]) \subseteq seen[w]
    /\ TransferRules # {} => \A t \in InBlock(current[w]) : status[t] \in Final

(* The tables name stored blocks alone. *)
RowsStored ==
  /\ evaluated \subseteq stored
  /\ \A t \in Txs : txBlock[t] # None => txBlock[t] \in stored /\ status[t] # None
  /\ \A w \in Evaluators : todo[w] \subseteq stored

(* No match is recorded before its block is evaluated. *)
Unmatched ==
  \A b \in Blocks \ evaluated, t \in Txs : \A r \in Rules : matches[<<r, b, t>>] = 0

(* What holds of the runs whoever stores blocks, and as often: that each is *)
(* evaluated once.  That its matches are complete takes the rest.           *)
RunsInv ==
  /\ EvaluationTypeOK
  /\ MarksHeld
  /\ MarksExclude
  /\ RowsStored
  /\ Unmatched

EvaluationInv == RunsInv /\ ReadsComplete /\ MatchesComplete

LEMMA EvaluationInitial == EvaluationInit => EvaluationInv
<1> SUFFICES ASSUME EvaluationInit PROVE EvaluationInv
  OBVIOUS
<1> USE DEF EvaluationInit, StoreInit, EvaluateInit
<1>1. StoreTypeOK
  <2>1. <<>> \in Seq(TransferRows)
    OBVIOUS
  <2> QED
    BY <2>1, NoneAssumption, MaxFaultsAssumption DEF StoreTypeOK
<1>2. EvaluateTypeOK
  BY DEF EvaluateTypeOK, EvaluatePcs
<1>3. MarksHeld /\ MarksExclude /\ ReadsComplete /\ RowsStored
  BY DEF MarksHeld, MarksExclude, ReadsComplete, RowsStored
<1>4. Unmatched /\ MatchesComplete
  BY DEF Unmatched, MatchesComplete
<1> QED
  BY <1>1, <1>2, <1>3, <1>4 DEF EvaluationInv, RunsInv, EvaluationTypeOK

(* A run's step that changes no table, and leaves the other runs alone.    *)
LEMMA RunPreserves ==
  ASSUME NEW w \in Evaluators, RunsInv, UNCHANGED tables, faults' \in 0 .. MaxFaults,
         EvaluateTypeOK',
         \A v \in Evaluators : v # w =>
           epc'[v] = epc[v] /\ todo'[v] = todo[v] /\ current'[v] = current[v] /\ seen'[v] = seen[v],
         todo'[w] \subseteq stored,
         current'[w] # None <=> epc'[w] \in {"marked", "read"},
         current'[w] # None => current'[w] \in stored \ evaluated,
         \A v \in Evaluators : v # w /\ current'[w] # None => current[v] # current'[w],
         epc'[w] = "read" =>
           /\ InBlock(current'[w]) \subseteq seen'[w]
           /\ TransferRules # {} => \A t \in InBlock(current'[w]) : status[t] \in Final
  PROVE  RunsInv' /\ (EvaluationInv => EvaluationInv')
<1> USE DEF RunsInv, tables, chainTables
<1>1. EvaluationTypeOK'
  BY DEF EvaluationTypeOK, StoreTypeOK
<1>2. MarksHeld'
  BY DEF MarksHeld
<1>3. MarksExclude'
  BY DEF MarksExclude
<1>4. RowsStored' /\ Unmatched'
  BY DEF RowsStored, Unmatched, Rules
<1>5. ReadsComplete => ReadsComplete'
  BY DEF ReadsComplete, InBlock
<1>6. MatchesComplete => MatchesComplete'
  BY DEF MatchesComplete
<1> QED
  BY <1>1, <1>2, <1>3, <1>4, <1>5, <1>6 DEF EvaluationInv

(* A run that forgets where it was. *)
LEMMA EvaluateForgettingPreserves ==
  ASSUME NEW w \in Evaluators, RunsInv, EvaluateForgets(w), UNCHANGED tables,
         faults' \in 0 .. MaxFaults,
         NEW pc \in {"idle", "failed"}, epc' = [epc EXCEPT ![w] = pc]
  PROVE  RunsInv' /\ (EvaluationInv => EvaluationInv')
<1>1. EvaluateTypeOK'
  BY DEF RunsInv, EvaluationTypeOK, EvaluateTypeOK, EvaluateForgets, EvaluatePcs
<1>2. /\ todo'[w] = {} /\ current'[w] = None /\ epc'[w] = pc
      /\ \A v \in Evaluators : v # w =>
           epc'[v] = epc[v] /\ todo'[v] = todo[v] /\ current'[v] = current[v] /\ seen'[v] = seen[v]
  BY DEF RunsInv, EvaluationTypeOK, EvaluateTypeOK, EvaluateForgets
<1> QED
  BY <1>1, <1>2, RunPreserves

LEMMA ListPreserves ==
  ASSUME NEW w \in Evaluators, RunsInv, ListBlocks(w)
  PROVE  RunsInv' /\ (EvaluationInv => EvaluationInv')
<1> USE DEF ListBlocks
<1>1. EvaluateTypeOK'
  BY DEF RunsInv, EvaluationTypeOK, StoreTypeOK, EvaluateTypeOK, EvaluatePcs
<1>2. /\ todo'[w] \subseteq stored /\ current'[w] = current[w] /\ current[w] = None
      /\ epc'[w] = "next"
      /\ \A v \in Evaluators : v # w =>
           epc'[v] = epc[v] /\ todo'[v] = todo[v] /\ current'[v] = current[v] /\ seen'[v] = seen[v]
  BY DEF RunsInv, EvaluationTypeOK, EvaluateTypeOK, MarksHeld
<1>3. faults' \in 0 .. MaxFaults
  BY DEF RunsInv, EvaluationTypeOK, StoreTypeOK
<1> QED
  BY <1>1, <1>2, <1>3, RunPreserves

LEMMA MarkPreserves ==
  ASSUME NEW w \in Evaluators, NEW b \in Blocks, RunsInv, MarkBlock(w, b)
  PROVE  RunsInv' /\ (EvaluationInv => EvaluationInv')
<1> USE DEF MarkBlock
<1>1. EvaluateTypeOK'
  BY DEF RunsInv, EvaluationTypeOK, EvaluateTypeOK, EvaluatePcs
<1>2. /\ todo'[w] \subseteq todo[w] /\ current'[w] = b /\ epc'[w] = "marked"
      /\ \A v \in Evaluators : v # w =>
           epc'[v] = epc[v] /\ todo'[v] = todo[v] /\ current'[v] = current[v] /\ seen'[v] = seen[v]
  BY DEF RunsInv, EvaluationTypeOK, EvaluateTypeOK
<1>3. b # None /\ b \in stored \ evaluated /\ todo[w] \subseteq stored
  BY NoneAssumption DEF RunsInv, RowsStored, IsNext
<1>4. \A v \in Evaluators : current[v] # b
  BY DEF Locked
<1>5. faults' \in 0 .. MaxFaults
  BY DEF RunsInv, EvaluationTypeOK, StoreTypeOK
<1> QED
  BY <1>1, <1>2, <1>3, <1>4, <1>5, RunPreserves

(* The steps that leave a run outside any block: it passes one over, gives *)
(* one up as not decoded, or ends.                                         *)
LEMMA LeavingPreserves ==
  ASSUME NEW w \in Evaluators, RunsInv,
         (\E b \in Blocks : PassOver(w, b)) \/ RefuseUndecoded(w) \/ EndRun(w)
  PROVE  RunsInv' /\ (EvaluationInv => EvaluationInv')
<1> USE DEF PassOver, RefuseUndecoded, EndRun
<1>1. EvaluateTypeOK'
  BY DEF RunsInv, EvaluationTypeOK, EvaluateTypeOK, EvaluatePcs
<1>2. /\ todo'[w] \subseteq todo[w] /\ current'[w] = None /\ epc'[w] \in {"next", "done"}
      /\ \A v \in Evaluators : v # w =>
           epc'[v] = epc[v] /\ todo'[v] = todo[v] /\ current'[v] = current[v] /\ seen'[v] = seen[v]
  BY DEF RunsInv, EvaluationTypeOK, EvaluateTypeOK, MarksHeld
<1>3. todo[w] \subseteq stored
  BY DEF RunsInv, RowsStored
<1>4. faults' \in 0 .. MaxFaults /\ UNCHANGED tables
  BY DEF RunsInv, EvaluationTypeOK, StoreTypeOK
<1> QED
  BY <1>1, <1>2, <1>3, <1>4, RunPreserves

LEMMA ReadPreserves ==
  ASSUME NEW w \in Evaluators, RunsInv, ReadTransactions(w)
  PROVE  RunsInv' /\ (EvaluationInv => EvaluationInv')
<1> USE DEF ReadTransactions
<1>1. EvaluateTypeOK'
  BY DEF RunsInv, EvaluationTypeOK, EvaluateTypeOK, EvaluatePcs, InBlock
<1>2. /\ todo'[w] = todo[w] /\ current'[w] = current[w] /\ epc'[w] = "read"
      /\ seen'[w] = InBlock(current[w])
      /\ \A v \in Evaluators : v # w =>
           epc'[v] = epc[v] /\ todo'[v] = todo[v] /\ current'[v] = current[v] /\ seen'[v] = seen[v]
  BY DEF RunsInv, EvaluationTypeOK, EvaluateTypeOK
<1>3. /\ current[w] # None /\ current[w] \in stored \ evaluated
      /\ \A v \in Evaluators : v # w => current[v] # current[w]
      /\ todo[w] \subseteq stored
  BY DEF RunsInv, MarksHeld, MarksExclude, RowsStored
<1>4. TransferRules # {} => \A t \in InBlock(current[w]) : status[t] \in Final
  <2>1. \A t \in InBlock(current[w]) : status[t] \in DecodeStatus
    BY <1>3 DEF RunsInv, EvaluationTypeOK, StoreTypeOK, RowsStored, InBlock
  <2> QED
    BY <2>1 DEF NotDecoded, DecodeStatus, Undecoded, Final
<1>5. faults' \in 0 .. MaxFaults
  BY DEF RunsInv, EvaluationTypeOK, StoreTypeOK
<1> QED
  BY <1>1, <1>2, <1>3, <1>4, <1>5, RunPreserves

(* What recording does to the matches: those of the run's block become the *)
(* ones it found, and no other changes.                                    *)
LEMMA RecordedOnce ==
  ASSUME NEW w \in Evaluators, RunsInv, RecordMatches(w)
  PROVE  /\ current[w] \in stored \ evaluated
         /\ matches' = [m \in Rules \X Blocks \X Txs |->
              IF m[2] = current[w] /\ m[3] \in seen[w] /\ Holds(m[1], current[w], m[3])
              THEN 1 ELSE matches[m]]
<1>1. current[w] \in stored \ evaluated
  BY DEF RunsInv, MarksHeld, RecordMatches
<1>2. \A m \in Rules \X Blocks \X Txs : m[2] = current[w] => matches[m] = 0
  BY <1>1 DEF RunsInv, EvaluationTypeOK, StoreTypeOK, Unmatched
<1> QED
  BY <1>1, <1>2 DEF RecordMatches

LEMMA RecordPreserves ==
  ASSUME NEW w \in Evaluators, RunsInv, RecordMatches(w)
  PROVE  RunsInv'
<1> DEFINE b == current[w]
<1>1. /\ b \in stored \ evaluated /\ b \in Blocks
      /\ \A v \in Evaluators : v # w => current[v] # b
  BY DEF RunsInv, EvaluationTypeOK, StoreTypeOK, MarksHeld, MarksExclude, RecordMatches
<1>2. /\ current'[w] = None /\ epc'[w] = "next" /\ todo' = todo
      /\ \A v \in Evaluators : v # w =>
           epc'[v] = epc[v] /\ current'[v] = current[v] /\ seen'[v] = seen[v]
  BY DEF RunsInv, EvaluationTypeOK, EvaluateTypeOK, RecordMatches
<1>3. EvaluationTypeOK'
  <2>1. matches' \in [Rules \X Blocks \X Txs -> Nat]
    <3>1. matches \in [Rules \X Blocks \X Txs -> Nat]
      BY DEF RunsInv, EvaluationTypeOK, StoreTypeOK
    <3>2. matches' = [m \in Rules \X Blocks \X Txs |->
            IF m[2] = b /\ m[3] \in seen[w] /\ Holds(m[1], b, m[3])
            THEN 1 ELSE matches[m]]
      BY RecordedOnce
    <3> HIDE DEF b
    <3> QED
      BY <3>1, <3>2
  <2>2. StoreTypeOK'
    BY <1>1, <2>1 DEF RunsInv, EvaluationTypeOK, StoreTypeOK, RecordMatches, chainTables
  <2>3. EvaluateTypeOK'
    BY DEF RunsInv, EvaluationTypeOK, EvaluateTypeOK, EvaluatePcs, RecordMatches
  <2> QED
    BY <2>2, <2>3 DEF EvaluationTypeOK
<1>4. MarksHeld'
  BY <1>1, <1>2 DEF RunsInv, MarksHeld, RecordMatches, chainTables
<1>5. MarksExclude'
  BY <1>2 DEF RunsInv, MarksExclude
<1>6. RowsStored'
  BY <1>1, <1>2 DEF RunsInv, RowsStored, RecordMatches, chainTables
<1>7. Unmatched'
  <2>1. ASSUME NEW c \in Blocks \ evaluated', NEW t \in Txs, NEW r \in Rules
        PROVE  matches'[<<r, c, t>>] = 0
    <3>1. c # b /\ c \notin evaluated /\ <<r, c, t>> \in Rules \X Blocks \X Txs
      BY DEF RecordMatches
    <3>2. matches'[<<r, c, t>>] = matches[<<r, c, t>>]
      BY <3>1, RecordedOnce
    <3> QED
      BY <3>1, <3>2 DEF RunsInv, Unmatched
  <2> QED
    BY <2>1 DEF Unmatched
<1> QED
  BY <1>3, <1>4, <1>5, <1>6, <1>7 DEF RunsInv

(* With what the run knows of its block they are all there are.            *)
LEMMA RecordCompletes ==
  ASSUME NEW w \in Evaluators, EvaluationInv, RecordMatches(w)
  PROVE  ReadsComplete' /\ MatchesComplete'
<1> DEFINE b == current[w]
<1>0. RunsInv
  BY DEF EvaluationInv
<1>1. /\ b \in stored \ evaluated /\ b \in Blocks
      /\ InBlock(b) \subseteq seen[w]
      /\ TransferRules # {} => \A t \in InBlock(b) : status[t] \in Final
  BY DEF EvaluationInv, RunsInv, EvaluationTypeOK, StoreTypeOK, MarksHeld, ReadsComplete,
     RecordMatches
<1>2. /\ epc'[w] = "next"
      /\ \A v \in Evaluators : v # w =>
           epc'[v] = epc[v] /\ current'[v] = current[v] /\ seen'[v] = seen[v]
  BY DEF EvaluationInv, RunsInv, EvaluationTypeOK, EvaluateTypeOK, RecordMatches
<1>3. ReadsComplete'
  BY <1>2 DEF EvaluationInv, ReadsComplete, RecordMatches, chainTables, InBlock
<1>4. MatchesComplete'
  <2>1. /\ UNCHANGED <<txBlock, status, transfers>> /\ evaluated' = evaluated \cup {b}
    BY DEF RecordMatches, chainTables
  <2>2. ASSUME NEW c \in Blocks, NEW t \in Txs, NEW r \in Rules, c # b
        PROVE  matches'[<<r, c, t>>] = matches[<<r, c, t>>]
    <3>1. <<r, c, t>> \in Rules \X Blocks \X Txs
      OBVIOUS
    <3> QED
      BY <2>2, <3>1, <1>0, RecordedOnce
  <2>3. ASSUME NEW t \in Txs, NEW r \in Rules, txBlock[t] = b
        PROVE  matches'[<<r, b, t>>] = IF Holds(r, b, t) THEN 1 ELSE 0
    <3>1. <<r, b, t>> \in Rules \X Blocks \X Txs /\ t \in seen[w]
      BY <1>1, <2>3 DEF InBlock
    <3>2. matches[<<r, b, t>>] = 0
      BY <1>1 DEF EvaluationInv, RunsInv, EvaluationTypeOK, StoreTypeOK, Unmatched
    <3> QED
      BY <3>1, <3>2, <1>0, RecordedOnce
  <2>4. ASSUME NEW t \in Txs, txBlock[t] = b
        PROVE  /\ \A r \in PlainRules : Holds(r, b, t)
               /\ \A r \in TransferRules : Holds(r, b, t) <=> transfers[t] # <<>>
               /\ \A r \in TransferRules : status[t] \in Final
    <3>1. t \in InBlock(b)
      BY <2>4 DEF InBlock
    <3> QED
      BY <1>1, <3>1, RulesAssumption DEF Holds, TransfersRead
  <2> SUFFICES ASSUME NEW c \in Blocks, NEW t \in Txs
               PROVE  /\ c \in evaluated' /\ txBlock'[t] = c =>
                           /\ \A r \in PlainRules : matches'[<<r, c, t>>] = 1
                           /\ \A r \in TransferRules :
                                /\ status'[t] \in Final
                                /\ matches'[<<r, c, t>>] = IF transfers'[t] # <<>> THEN 1 ELSE 0
                      /\ c \notin evaluated' => \A r \in Rules : matches'[<<r, c, t>>] = 0
    BY DEF MatchesComplete
  <2>5. CASE c = b
    BY <2>1, <2>3, <2>4, <2>5 DEF Rules
  <2>6. CASE c # b
    <3>1. /\ c \in evaluated' <=> c \in evaluated
          /\ \A r \in Rules : matches'[<<r, c, t>>] = matches[<<r, c, t>>]
      BY <2>1, <2>2, <2>6
    <3> QED
      BY <2>1, <3>1 DEF EvaluationInv, MatchesComplete, Rules
  <2> QED
    BY <2>5, <2>6
<1> QED
  BY <1>3, <1>4

(* Storing a block, with whatever receipts, evaluates none. *)
LEMMA StoringPreserves ==
  ASSUME NEW b \in Blocks, NEW r \in Blocks, RunsInv, StoreBlock(b), StoreReceipts(r),
         cursor' \in Nat, UNCHANGED <<transfers, matches, faults, evaluateVars>>
  PROVE  RunsInv'
<1> USE DEF RunsInv, StoreBlock, StoreReceipts, evaluateVars
<1>1. EvaluationTypeOK'
  BY DEF EvaluationTypeOK, StoreTypeOK, EvaluateTypeOK, DecodeStatus
<1>2. MarksHeld' /\ MarksExclude' /\ Unmatched'
  BY DEF MarksHeld, MarksExclude, Unmatched
<1>3. RowsStored'
  <2> SUFFICES ASSUME NEW t \in Txs, txBlock'[t] # None
               PROVE  txBlock'[t] \in stored' /\ status'[t] # None
    BY DEF RowsStored
  <2>1. /\ txBlock'[t] = IF t \in TxsOf[b] THEN b ELSE txBlock[t]
        /\ status'[t] = IF t \in TxsOf[b] /\ status[t] = None THEN "INGESTED" ELSE status[t]
    OBVIOUS
  <2>2. "INGESTED" # None
    BY NoneIsNoStatus DEF DecodeStatus
  <2> QED
    BY <2>1, <2>2 DEF RowsStored
<1> QED
  BY <1>1, <1>2, <1>3

(* A new block takes transactions from stored ones, and gives them none.   *)
LEMMA StoringCompletes ==
  ASSUME NEW b \in Blocks \ stored, EvaluationInv, StoreBlock(b),
         UNCHANGED <<transfers, matches, evaluateVars>>
  PROVE  ReadsComplete' /\ MatchesComplete'
<1> USE DEF EvaluationInv, RunsInv, StoreBlock, evaluateVars
<1>1. b \notin stored /\ b \notin evaluated /\ stored' = stored \cup {b}
  BY DEF RowsStored
<1>2. \A t \in Txs : /\ txBlock'[t] \in {txBlock[t], b}
                     /\ status[t] # None => status'[t] = status[t]
  OBVIOUS
<1>3. ASSUME NEW c \in Blocks, c # b, NEW t \in Txs, txBlock'[t] = c
      PROVE  txBlock[t] = c /\ status'[t] = status[t]
  BY <1>2, <1>3, NoneAssumption DEF RowsStored
<1>4. ReadsComplete'
  <2> SUFFICES ASSUME NEW w \in Evaluators, epc[w] = "read"
               PROVE  /\ InBlock(current[w])' \subseteq seen[w]
                      /\ TransferRules # {} => \A t \in InBlock(current[w])' : status'[t] \in Final
    BY DEF ReadsComplete
  <2>1. current[w] \in Blocks /\ current[w] # b
    BY <1>1 DEF EvaluationTypeOK, StoreTypeOK, MarksHeld
  <2>2. \A t \in InBlock(current[w])' : t \in InBlock(current[w]) /\ status'[t] = status[t]
    BY <1>3, <2>1 DEF InBlock
  <2> QED
    BY <2>2 DEF ReadsComplete
<1>5. MatchesComplete'
  BY <1>1, <1>3 DEF MatchesComplete
<1> QED
  BY <1>4, <1>5

(* Decoding moves no final status and adds no transfer under one.          *)
LEMMA DecodingLeavesRuns ==
  ASSUME RunsInv, StoreTypeOK', UNCHANGED <<chainTables, evaluated, matches, evaluateVars>>,
         \A t \in Txs : \/ status[t] \in Undecoded /\ status'[t] # None
                        \/ status'[t] = status[t] /\ transfers'[t] = transfers[t]
  PROVE  RunsInv' /\ (EvaluationInv => EvaluationInv')
<1> USE DEF RunsInv, chainTables, evaluateVars
<1>1. EvaluationTypeOK'
  BY DEF EvaluationTypeOK, EvaluateTypeOK
<1>2. MarksHeld' /\ MarksExclude' /\ Unmatched' /\ RowsStored'
  BY DEF MarksHeld, MarksExclude, Unmatched, RowsStored
<1>3. ReadsComplete => ReadsComplete'
  BY DEF ReadsComplete, InBlock, Undecoded, Final
<1>4. MatchesComplete => MatchesComplete'
  BY DEF MatchesComplete, Undecoded, Final
<1> QED
  BY <1>1, <1>2, <1>3, <1>4 DEF EvaluationInv

LEMMA DecodedPreserves ==
  ASSUME NEW t \in Txs, RunsInv, Decoded(t)
  PROVE  RunsInv' /\ (EvaluationInv => EvaluationInv')
<1> USE DEF Decoded, chainTables
<1>1. status[t] \in Undecoded /\ txBlock[t] \in Blocks \cup {None}
  BY DEF Undecoded, RunsInv, EvaluationTypeOK, StoreTypeOK
<1>2. \A s \in Txs : s # t => status'[s] = status[s] /\ transfers'[s] = transfers[s]
  BY DEF RunsInv, EvaluationTypeOK, StoreTypeOK
<1>3. StoreTypeOK'
  <2> DEFINE row == [block |-> txBlock[t], logged |-> TRUE]
  <2>1. Append(transfers[t], row) \in Seq(TransferRows)
    <3>1. row \in TransferRows /\ transfers[t] \in Seq(TransferRows)
      BY <1>1 DEF TransferRows, RunsInv, EvaluationTypeOK, StoreTypeOK
    <3> HIDE DEF row
    <3> QED
      BY <3>1, AppendProperties
  <2>2. transfers' \in [Txs -> Seq(TransferRows)]
    BY <2>1 DEF RunsInv, EvaluationTypeOK, StoreTypeOK
  <2>3. status' \in [Txs -> DecodeStatus \cup {None}]
    BY DEF RunsInv, EvaluationTypeOK, StoreTypeOK, DecodeStatus
  <2> QED
    BY <2>2, <2>3 DEF RunsInv, EvaluationTypeOK, StoreTypeOK
<1>4. status'[t] # None
  BY NoneIsNoStatus DEF DecodeStatus, RunsInv, EvaluationTypeOK, StoreTypeOK
<1>5. UNCHANGED <<chainTables, evaluated, matches, evaluateVars>>
  OBVIOUS
<1>6. \A s \in Txs : \/ status[s] \in Undecoded /\ status'[s] # None
                     \/ status'[s] = status[s] /\ transfers'[s] = transfers[s]
  BY <1>1, <1>2, <1>4
<1> HIDE DEF Decoded, chainTables
<1> QED
  BY <1>3, <1>5, <1>6, DecodingLeavesRuns

(* A run's own steps, and how it ends. *)
LEMMA RunStepPreserves ==
  ASSUME NEW w \in Evaluators, RunsInv, EvaluateStep(w) \/ EvaluateFails(w) \/ EvaluateAgain(w)
  PROVE  RunsInv' /\ (EvaluationInv => EvaluationInv')
<1>1. CASE RecordMatches(w)
  BY <1>1, RecordPreserves, RecordCompletes DEF EvaluationInv
<1>2. CASE EvaluateFails(w)
  <2>1. faults' \in 0 .. MaxFaults
    BY <1>2, MaxFaultsAssumption DEF EvaluateFails, Fault, RunsInv, EvaluationTypeOK, StoreTypeOK
  <2> QED
    BY <1>2, <2>1, EvaluateForgettingPreserves DEF EvaluateFails, Fault
<1>3. CASE EvaluateAgain(w)
  <2>1. faults' \in 0 .. MaxFaults
    BY <1>3 DEF EvaluateAgain, RunsInv, EvaluationTypeOK, StoreTypeOK
  <2> QED
    BY <1>3, <2>1, EvaluateForgettingPreserves DEF EvaluateAgain
<1> QED
  BY <1>1, <1>2, <1>3, ListPreserves, MarkPreserves, LeavingPreserves, ReadPreserves
  DEF EvaluateStep

LEMMA EvaluationInductive ==
  EvaluationInv /\ [EvaluationNext]_evaluationVars => EvaluationInv'
<1> SUFFICES ASSUME EvaluationInv, [EvaluationNext]_evaluationVars PROVE EvaluationInv'
  OBVIOUS
<1>0. RunsInv
  BY DEF EvaluationInv
<1>1. ASSUME NEW b \in Blocks, BlockStored(b) PROVE EvaluationInv'
  <2>1. ~(Number[b] < Number[b]) /\ Number[b] \in Nat
    BY NumberAssumption
  <2>2. b \notin stored
    BY <1>1, <2>1 DEF BlockStored
  <2>3. RunsInv'
    BY <1>0, <1>1, <2>1, StoringPreserves DEF BlockStored
  <2>4. ReadsComplete' /\ MatchesComplete'
    BY <1>1, <2>2, StoringCompletes DEF BlockStored
  <2> QED
    BY <2>3, <2>4 DEF EvaluationInv
<1>2. ASSUME NEW t \in Txs, Decoded(t) PROVE EvaluationInv'
  BY <1>0, <1>2, DecodedPreserves
<1>3. ASSUME NEW w \in Evaluators, EvaluateStep(w) \/ EvaluateFails(w) \/ EvaluateAgain(w)
      PROVE  EvaluationInv'
  BY <1>0, <1>3, RunStepPreserves
<1>4. CASE UNCHANGED evaluationVars
  <2> USE <1>4 DEF evaluationVars, evaluateVars, tables, chainTables, EvaluationInv, RunsInv
  <2>1. EvaluationTypeOK'
    BY DEF EvaluationTypeOK, StoreTypeOK, EvaluateTypeOK
  <2>2. MarksHeld' /\ MarksExclude' /\ RowsStored' /\ Unmatched'
    BY DEF MarksHeld, MarksExclude, RowsStored, Unmatched
  <2>3. ReadsComplete'
    BY DEF ReadsComplete, InBlock
  <2>4. MatchesComplete'
    BY DEF MatchesComplete
  <2> QED
    BY <2>1, <2>2, <2>3, <2>4
<1> QED
  BY <1>1, <1>2, <1>3, <1>4 DEF EvaluationNext

LEMMA EvaluationInvariant == EvaluationSpec => []EvaluationInv
BY EvaluationInitial, EvaluationInductive, PTL DEF EvaluationSpec

(* Evaluation's state keeps its types. *)
THEOREM EvaluationTypeCorrect == EvaluationSpec => []EvaluationTypeOK
<1>1. EvaluationInv => EvaluationTypeOK
  BY DEF EvaluationInv, RunsInv
<1> QED
  BY <1>1, EvaluationInvariant, PTL

(* An evaluated block has exactly the matches its transactions and their   *)
(* finished decoding call for, and a block not evaluated has none.         *)
THEOREM EvaluationComplete == EvaluationSpec => []MatchesComplete
<1>1. EvaluationInv => MatchesComplete
  BY DEF EvaluationInv
<1> QED
  BY <1>1, EvaluationInvariant, PTL

(* Recording a block's matches is what the promise calls evaluating it.    *)
LEMMA RecordingEvaluates ==
  ASSUME NEW w \in Evaluators, RunsInv, RecordMatches(w)
  PROVE  Promise!Next
<1> DEFINE b == current[w]
<1> DEFINE found == {m \in Rules \X Blocks \X Txs :
                       m[2] = b /\ m[3] \in seen[w] /\ Holds(m[1], b, m[3])}
<1>1. /\ b \in stored \ evaluated /\ b \in Blocks
      /\ evaluated' = evaluated \cup {b} /\ stored' = stored
  BY RecordedOnce DEF RecordMatches, chainTables, RunsInv, EvaluationTypeOK, StoreTypeOK
<1>2. matches' = [m \in Rules \X Blocks \X Txs |-> IF m \in found THEN 1 ELSE matches[m]]
  BY RecordedOnce
<1>3. found \in SUBSET {m \in Rules \X Blocks \X Txs : m[2] = b}
  OBVIOUS
<1>4. Promise!Evaluate(b)
  <2> HIDE DEF found, b
  <2> QED
    BY <1>1, <1>2, <1>3 DEF Promise!Evaluate
<1> QED
  BY <1>1, <1>4 DEF Promise!Next

(* Storing a block is the promise's arrival, or nothing to it.             *)
LEMMA StoringArrives ==
  ASSUME NEW b \in Blocks, RunsInv, StoreBlock(b), UNCHANGED matches
  PROVE  Promise!Next \/ UNCHANGED <<stored, evaluated, matches>>
<1>1. CASE b \in stored
  <2>1. stored' = stored
    BY <1>1 DEF StoreBlock
  <2> QED
    BY <2>1 DEF StoreBlock
<1>2. CASE b \notin stored
  <2>1. Promise!Arrive(b) /\ b \in Blocks \ evaluated
    BY <1>2 DEF StoreBlock, Promise!Arrive, RunsInv, RowsStored
  <2> QED
    BY <2>1 DEF Promise!Next
<1> QED
  BY <1>1, <1>2

(* No other step of a run is seen by the promise. *)
LEMMA OtherStepsUnseen ==
  ASSUME NEW w \in Evaluators,
         EvaluateStep(w) \/ EvaluateFails(w) \/ EvaluateAgain(w), ~RecordMatches(w)
  PROVE  UNCHANGED <<stored, evaluated, matches>>
BY DEF EvaluateStep, EvaluateFails, EvaluateAgain, Fault, ListBlocks, MarkBlock, PassOver,
   RefuseUndecoded, ReadTransactions, EndRun, tables, chainTables

(* The runs implement the promise: each step of theirs evaluates one block *)
(* that waited, with all its matches, or changes nothing the promise sees. *)
THEOREM EvaluationImplementsPromise == EvaluationSpec => EvaluatesOnce
<1>1. EvaluationInit => Promise!Init
  BY DEF EvaluationInit, StoreInit, Promise!Init
<1>2. EvaluationInv /\ [EvaluationNext]_evaluationVars => [Promise!Next]_(Promise!vars)
  <2> SUFFICES ASSUME EvaluationInv, [EvaluationNext]_evaluationVars
               PROVE  Promise!Next \/ UNCHANGED <<stored, evaluated, matches>>
    BY DEF Promise!vars
  <2>0. RunsInv
    BY DEF EvaluationInv
  <2>1. CASE \E b \in Blocks : BlockStored(b)
    BY <2>0, <2>1, StoringArrives DEF BlockStored
  <2>2. CASE \E w \in Evaluators : EvaluateStep(w) \/ EvaluateFails(w) \/ EvaluateAgain(w)
    BY <2>0, <2>2, RecordingEvaluates, OtherStepsUnseen
  <2>3. CASE \E t \in Txs : Decoded(t)
    BY <2>3 DEF Decoded, chainTables
  <2>4. CASE UNCHANGED evaluationVars
    BY <2>4 DEF evaluationVars, tables, chainTables
  <2> QED
    BY <2>1, <2>2, <2>3, <2>4 DEF EvaluationNext
<1> QED
  BY <1>1, <1>2, EvaluationInvariant, PTL DEF EvaluationSpec, EvaluatesOnce, Promise!Spec

(***************************************************************************)
(* The composition.                                                        *)
(*                                                                         *)
(* A stage's own steps preserve its invariant as above; each of the other  *)
(* stages' leaves what it speaks of alone, or is one that the stage's own  *)
(* specification left to them.  The tick's order is not needed.            *)
(*                                                                         *)
(* Completeness is what several ingesters would break: one that is late    *)
(* stores a block again, which takes transactions back from a later one    *)
(* into a block that has been evaluated without them.                      *)
(***************************************************************************)

PipelineInv == IngestionInv /\ DecodingInv /\ RunsInv

(* What an ingester is about to store is not stored. *)
StoresNew == \A w \in Ingesters : ipc[w] = "store" => fetched[w] \notin stored

LEMMA PipelineInitial == PipelineInit => PipelineInv /\ EvaluationInv /\ OneIngesterInv
BY IngestionInitial, DecodingInitial, EvaluationInitial, OneIngesterInitial
DEF PipelineInit, IngestionInit, DecodingInit, EvaluationInit, EvaluationInv, PipelineInv

LEMMA IngestionLeftAlone ==
  ASSUME IngestionInv, StoreTypeOK', UNCHANGED <<stored, cursor, nodeVars, ingestVars>>
  PROVE  IngestionInv'
BY DEF IngestionInv, IngestionTypeOK, IngestTypeOK, CachedAtHeight, FetchedAtHeight,
   CursorNamesStoredBlock, nodeVars, ingestVars

LEMMA DecodingLeftAlone ==
  ASSUME DecodingInv, StoreTypeOK', UNCHANGED <<status, transfers, decodeVars>>
  PROVE  DecodingInv'
BY DEF DecodingInv, DecodingTypeOK, DecodeTypeOK, ClaimedByOne, DecodedOnce, decodeVars

(* A step of the node, or of an ingester that stores no block. *)
LEMMA TablesKeepPipeline ==
  ASSUME PipelineInv, IngestionInv', UNCHANGED <<tables, decodeVars, evaluateVars>>
  PROVE  PipelineInv' /\ (EvaluationInv => EvaluationInv')
<1>1. StoreTypeOK' /\ UNCHANGED <<chainTables, status, transfers, evaluated, matches>>
  BY DEF IngestionInv, IngestionTypeOK, tables
<1>2. DecodingInv'
  BY <1>1, DecodingLeftAlone DEF PipelineInv
<1>3. RunsInv' /\ (EvaluationInv => EvaluationInv')
  BY <1>1, DecodingLeavesRuns DEF PipelineInv
<1> QED
  BY <1>2, <1>3 DEF PipelineInv

LEMMA StoringKeepsPipeline ==
  ASSUME NEW w \in Ingesters, PipelineInv, StoreFetched(w), UNCHANGED <<decodeVars, evaluateVars>>
  PROVE  PipelineInv' /\ (EvaluationInv /\ StoresNew => EvaluationInv')
<1> DEFINE b == fetched[w]
           r == fetchedReceipts[w]
<1>1. /\ b \in Blocks /\ r \in Blocks /\ Number[b] = next[w] /\ Number[r] = next[w]
      /\ next[w] \in Nat
  BY DEF PipelineInv, IngestionInv, IngestionTypeOK, IngestTypeOK, FetchedAtHeight, StoreFetched
<1>2. /\ StoreBlock(b) /\ StoreReceipts(r) /\ cursor' = Number[b]
      /\ UNCHANGED <<transfers, matches, faults>>
  BY <1>1 DEF StoreFetched
<1>3. IngestionInv'
  BY IngestStoringPreserves DEF PipelineInv
<1>4. DecodingInv'
  BY <1>1, <1>2, ArrivingPreserves DEF PipelineInv, BlockArrives
<1>5. RunsInv'
  BY <1>1, <1>2, StoringPreserves DEF PipelineInv
<1>6. ASSUME EvaluationInv, StoresNew PROVE EvaluationInv'
  <2>1. b \notin stored
    BY <1>6 DEF StoresNew, StoreFetched
  <2> QED
    BY <1>1, <1>2, <1>5, <1>6, <2>1, StoringCompletes DEF EvaluationInv
<1> QED
  BY <1>3, <1>4, <1>5, <1>6 DEF PipelineInv

(* A decode run leaves the blocks alone, and final statuses. *)
LEMMA DecodingKeepsPipeline ==
  ASSUME NEW w \in Decoders, PipelineInv, DecodeStep(w) \/ DecodeFails(w) \/ DecodeAgain(w),
         UNCHANGED <<nodeVars, ingestVars, evaluateVars>>
  PROVE  PipelineInv' /\ (EvaluationInv => EvaluationInv')
<1>1. DecodingInv' /\ StoreTypeOK'
  BY DecodingInductive DEF PipelineInv, DecodingNext, DecodingInv, DecodingTypeOK
<1>2. UNCHANGED <<chainTables, evaluated, matches>> /\ \A t \in Txs : Moved(t)
  BY RunsMoveForward DEF PipelineInv
<1>3. IngestionInv'
  BY <1>1, <1>2, IngestionLeftAlone DEF PipelineInv, chainTables
<1>4. RunsInv' /\ (EvaluationInv => EvaluationInv')
  BY <1>1, <1>2, DecodingLeavesRuns DEF PipelineInv, Moved
<1> QED
  BY <1>1, <1>3, <1>4 DEF PipelineInv

(* An evaluating run reads what the others write, and writes no more than  *)
(* marks and matches.                                                      *)
LEMMA EvaluatingKeepsPipeline ==
  ASSUME NEW w \in Evaluators, PipelineInv,
         EvaluateStep(w) \/ EvaluateFails(w) \/ EvaluateAgain(w),
         UNCHANGED <<nodeVars, ingestVars, decodeVars>>
  PROVE  PipelineInv' /\ (EvaluationInv => EvaluationInv')
<1>1. RunsInv' /\ (EvaluationInv => EvaluationInv')
  BY RunStepPreserves DEF PipelineInv
<1>2. StoreTypeOK'
  BY <1>1 DEF RunsInv, EvaluationTypeOK
<1>3. UNCHANGED <<chainTables, status, transfers>>
  BY DEF EvaluateStep, EvaluateFails, EvaluateAgain, Fault, ListBlocks, MarkBlock, PassOver,
     RefuseUndecoded, ReadTransactions, RecordMatches, EndRun, tables
<1>4. IngestionInv'
  BY <1>2, <1>3, IngestionLeftAlone DEF PipelineInv, chainTables
<1>5. DecodingInv'
  BY <1>2, <1>3, DecodingLeftAlone DEF PipelineInv
<1> QED
  BY <1>1, <1>4, <1>5 DEF PipelineInv

(* Each step of the pipeline is one of a stage, or of the node. *)
StageStep ==
  \/ NodeStep /\ UNCHANGED <<decodeVars, evaluateVars>>
  \/ \E w \in Ingesters : /\ IngestStep(w) \/ IngestFails(w) \/ IngestAgain(w)
                          /\ UNCHANGED <<decodeVars, evaluateVars>>
  \/ \E w \in Decoders : /\ DecodeStep(w) \/ DecodeFails(w) \/ DecodeAgain(w)
                         /\ UNCHANGED <<nodeVars, ingestVars, evaluateVars>>
  \/ \E w \in Evaluators : /\ EvaluateStep(w) \/ EvaluateFails(w) \/ EvaluateAgain(w)
                           /\ UNCHANGED <<nodeVars, ingestVars, decodeVars>>
  \/ UNCHANGED <<tables, faults, nodeVars, ingestVars, decodeVars, evaluateVars>>

LEMMA StepsAreStages ==
  ASSUME [PipelineNext]_pipelineVars
  PROVE  StageStep
BY DEF PipelineNext, pipelineVars, Environment, ProcessStep, StageFails, Ingesting, IngestEnds,
   Decoding_, DecodeEnds, Evaluating, EvaluateEnds, StageStep

LEMMA PipelineInductive ==
  ASSUME PipelineInv, [PipelineNext]_pipelineVars
  PROVE  PipelineInv' /\ (EvaluationInv /\ StoresNew => EvaluationInv')
<1>1. StageStep
  BY StepsAreStages
<1>2. CASE NodeStep /\ UNCHANGED <<decodeVars, evaluateVars>>
  <2>1. UNCHANGED tables
    BY <1>2 DEF NodeStep, NodeMoves, CacheExpires
  <2> QED
    BY <1>2, <2>1, NodePreserves, TablesKeepPipeline DEF PipelineInv
<1>3. ASSUME NEW w \in Ingesters, IngestStep(w) \/ IngestFails(w) \/ IngestAgain(w),
             UNCHANGED <<decodeVars, evaluateVars>>
      PROVE  PipelineInv' /\ (EvaluationInv /\ StoresNew => EvaluationInv')
  <2>1. CASE StoreFetched(w)
    BY <1>3, <2>1, StoringKeepsPipeline
  <2>2. CASE ~StoreFetched(w)
    <3>1. UNCHANGED tables
      BY <1>3, <2>2 DEF IngestStep, IngestFails, IngestAgain, Fault, ReadHead, ReadCursor,
         FetchBlock, FetchReceipts, FetchFindsNothing
    <3>2. IngestionInv'
      BY <1>3, IngestionInductive DEF PipelineInv, IngestionNext
    <3> QED
      BY <1>3, <3>1, <3>2, TablesKeepPipeline
  <2> QED
    BY <2>1, <2>2
<1>4. ASSUME NEW w \in Decoders, DecodeStep(w) \/ DecodeFails(w) \/ DecodeAgain(w),
             UNCHANGED <<nodeVars, ingestVars, evaluateVars>>
      PROVE  PipelineInv' /\ (EvaluationInv /\ StoresNew => EvaluationInv')
  BY <1>4, DecodingKeepsPipeline
<1>5. ASSUME NEW w \in Evaluators, EvaluateStep(w) \/ EvaluateFails(w) \/ EvaluateAgain(w),
             UNCHANGED <<nodeVars, ingestVars, decodeVars>>
      PROVE  PipelineInv' /\ (EvaluationInv /\ StoresNew => EvaluationInv')
  BY <1>5, EvaluatingKeepsPipeline
<1>6. CASE UNCHANGED <<tables, faults, nodeVars, ingestVars, decodeVars, evaluateVars>>
  <2>1. IngestionInv'
    BY <1>6, IngestionInductive DEF PipelineInv, ingestionVars
  <2> QED
    BY <1>6, <2>1, TablesKeepPipeline
<1> QED
  BY <1>1, <1>2, <1>3, <1>4, <1>5, <1>6 DEF StageStep

LEMMA PipelineInvariant == PipelineSpec => []PipelineInv
<1>1. PipelineInv /\ [PipelineNext]_pipelineVars => PipelineInv'
  BY PipelineInductive
<1> QED
  BY <1>1, PipelineInitial, PTL DEF PipelineSpec

(* With the other stages running beside it, and any number of processes in *)
(* each, the block the cursor names is stored.                             *)
THEOREM PipelineCursorCorrect == PipelineSpec => []CursorNamesStoredBlock
<1>1. PipelineInv => CursorNamesStoredBlock
  BY DEF PipelineInv, IngestionInv
<1> QED
  BY <1>1, PipelineInvariant, PTL

(* No two decode runs hold one transaction, whatever ingestion stores and  *)
(* evaluation reads meanwhile.                                             *)
THEOREM PipelineClaimsExclude == PipelineSpec => []ClaimedByOne
<1>1. PipelineInv => ClaimedByOne
  BY DEF PipelineInv, DecodingInv
<1> QED
  BY <1>1, PipelineInvariant, PTL

(* No transaction's transfers are stored twice, or without its status, in  *)
(* the whole pipeline.                                                     *)
THEOREM PipelineDecodesOnce == PipelineSpec => []DecodedOnce
<1>1. PipelineInv => DecodedOnce
  BY DEF PipelineInv, DecodingInv
<1> QED
  BY <1>1, PipelineInvariant, PTL

(* No stage moves a decode status back or past a stage. *)
THEOREM PipelineStatusOrder == PipelineSpec => StatusMovesForward
<1> DEFINE Moves == \A t \in Txs : Forward(status[t], status'[t])
<1>1. PipelineInv /\ [PipelineNext]_pipelineVars => [Moves]_decodingVars
  <2> SUFFICES ASSUME PipelineInv, [PipelineNext]_pipelineVars PROVE Moves
    OBVIOUS
  <2>1. CASE UNCHANGED status
    BY <2>1 DEF Forward
  <2>2. ASSUME NEW w \in Ingesters, StoreFetched(w) PROVE Moves
    BY <2>2 DEF StoreFetched, StoreBlock, Forward
  <2>3. ASSUME NEW w \in Ingesters, IngestStep(w) \/ IngestFails(w) \/ IngestAgain(w),
               ~StoreFetched(w)
        PROVE  UNCHANGED status
    BY <2>3 DEF IngestStep, IngestFails, IngestAgain, Fault, ReadHead, ReadCursor, FetchBlock,
       FetchReceipts, FetchFindsNothing, tables
  <2>4. ASSUME NEW w \in Decoders, DecodeStep(w) \/ DecodeFails(w) \/ DecodeAgain(w)
        PROVE  Moves
    BY <2>4, RunsMoveForward DEF PipelineInv, Moved, Forward
  <2>5. ASSUME NEW w \in Evaluators, EvaluateStep(w) \/ EvaluateFails(w) \/ EvaluateAgain(w)
        PROVE  UNCHANGED status
    BY <2>5 DEF EvaluateStep, EvaluateFails, EvaluateAgain, Fault, ListBlocks, MarkBlock,
       PassOver, RefuseUndecoded, ReadTransactions, RecordMatches, EndRun, tables
  <2>6. NodeStep => UNCHANGED status
    BY DEF NodeStep, NodeMoves, CacheExpires, tables
  <2> QED
    BY <2>1, <2>2, <2>3, <2>4, <2>5, <2>6, StepsAreStages DEF StageStep, tables
<1> QED
  BY <1>1, PipelineInvariant, PTL DEF PipelineSpec, StatusMovesForward

(* The whole pipeline implements the promise: with any number of ingesters *)
(* storing blocks, again or late, decoders and evaluators, each block is   *)
(* evaluated in one step, once, with each of its matches recorded once.    *)
THEOREM PipelineImplementsPromise == PipelineSpec => EvaluatesOnce
<1>1. PipelineInit => Promise!Init
  BY DEF PipelineInit, StoreInit, Promise!Init
<1>2. PipelineInv /\ [PipelineNext]_pipelineVars => [Promise!Next]_(Promise!vars)
  <2> SUFFICES ASSUME PipelineInv, [PipelineNext]_pipelineVars
               PROVE  Promise!Next \/ UNCHANGED <<stored, evaluated, matches>>
    BY DEF Promise!vars
  <2>1. ASSUME NEW w \in Ingesters, StoreFetched(w)
        PROVE  Promise!Next \/ UNCHANGED <<stored, evaluated, matches>>
    <3>1. fetched[w] \in Blocks
      BY <2>1 DEF PipelineInv, IngestionInv, IngestionTypeOK, IngestTypeOK, FetchedAtHeight,
         StoreFetched
    <3> QED
      BY <2>1, <3>1, StoringArrives DEF PipelineInv, StoreFetched
  <2>2. ASSUME NEW w \in Ingesters, IngestStep(w) \/ IngestFails(w) \/ IngestAgain(w),
               ~StoreFetched(w)
        PROVE  UNCHANGED <<stored, evaluated, matches>>
    BY <2>2 DEF IngestStep, IngestFails, IngestAgain, Fault, ReadHead, ReadCursor, FetchBlock,
       FetchReceipts, FetchFindsNothing, tables, chainTables
  <2>3. ASSUME NEW w \in Decoders, DecodeStep(w) \/ DecodeFails(w) \/ DecodeAgain(w)
        PROVE  UNCHANGED <<stored, evaluated, matches>>
    BY <2>3, RunsMoveForward DEF PipelineInv, chainTables
  <2>4. ASSUME NEW w \in Evaluators, EvaluateStep(w) \/ EvaluateFails(w) \/ EvaluateAgain(w)
        PROVE  Promise!Next \/ UNCHANGED <<stored, evaluated, matches>>
    BY <2>4, RecordingEvaluates, OtherStepsUnseen DEF PipelineInv
  <2>5. NodeStep \/ UNCHANGED tables => UNCHANGED <<stored, evaluated, matches>>
    BY DEF NodeStep, NodeMoves, CacheExpires, tables, chainTables
  <2> QED
    BY <2>1, <2>2, <2>3, <2>4, <2>5, StepsAreStages DEF StageStep
<1> QED
  BY <1>1, <1>2, PipelineInvariant, PTL DEF PipelineSpec, EvaluatesOnce, Promise!Spec

(***************************************************************************)
(* With one process ingesting nothing is skipped, so every block it stores *)
(* is past all that are stored, and what was evaluated stays complete.     *)
(***************************************************************************)

LEMMA OneIngesterStoresNew ==
  ASSUME NEW p, Ingesters = {p}, IngestionInv, OneIngesterInv
  PROVE  StoresNew
<1> SUFFICES ASSUME ipc[p] = "store", fetched[p] \in stored
             PROVE  FALSE
  BY DEF StoresNew
<1>1. Number[fetched[p]] = StartOf(p)
  BY DEF IngestionInv, FetchedAtHeight, OneIngesterInv, LoopFollowsCursor
<1>2. cursor # None /\ Number[fetched[p]] <= cursor
  BY DEF OneIngesterInv, NothingSkipped
<1>3. cursor \in Nat
  BY <1>2 DEF IngestionInv, IngestionTypeOK, StoreTypeOK
<1> QED
  BY <1>1, <1>2, <1>3 DEF StartOf

LEMMA OneIngesterPipelineStep ==
  ASSUME NEW p, Ingesters = {p}, PipelineInv, OneIngesterInv, [PipelineNext]_pipelineVars
  PROVE  OneIngesterInv'
<1>1. ASSUME NEW w \in Decoders, DecodeStep(w) \/ DecodeFails(w) \/ DecodeAgain(w)
      PROVE  UNCHANGED <<stored, cursor>>
  BY <1>1, RunsMoveForward DEF PipelineInv, chainTables
<1>2. ASSUME NEW w \in Evaluators, EvaluateStep(w) \/ EvaluateFails(w) \/ EvaluateAgain(w)
      PROVE  UNCHANGED <<stored, cursor>>
  BY <1>2 DEF EvaluateStep, EvaluateFails, EvaluateAgain, Fault, ListBlocks, MarkBlock, PassOver,
     RefuseUndecoded, ReadTransactions, RecordMatches, EndRun, tables, chainTables
<1> QED
  BY <1>1, <1>2, StepsAreStages, OneIngesterInductive
  DEF StageStep, PipelineInv, ingestVars, tables, chainTables

LEMMA OneIngesterInvariant ==
  ASSUME NEW p, Ingesters = {p}
  PROVE  PipelineSpec => [](OneIngesterInv /\ EvaluationInv)
<1>1. PipelineInv /\ OneIngesterInv /\ EvaluationInv /\ [PipelineNext]_pipelineVars
        => (OneIngesterInv /\ EvaluationInv)'
  BY OneIngesterPipelineStep, OneIngesterStoresNew, PipelineInductive DEF PipelineInv
<1> QED
  BY <1>1, PipelineInitial, PipelineInvariant, PTL DEF PipelineSpec

(* A pipeline with one ingester skips no height, whatever the other stages *)
(* do and however its ticks fail.                                          *)
THEOREM PipelineSkipsNothing ==
  ASSUME NEW p, Ingesters = {p}
  PROVE  PipelineSpec => []NothingSkipped
<1>1. OneIngesterInv => NothingSkipped
  BY DEF OneIngesterInv
<1> QED
  BY <1>1, OneIngesterInvariant, PTL

(* And its matches are complete: an evaluated block has exactly those that *)
(* its transactions, decoded by then, call for, with any number of decode  *)
(* and evaluation runs beside the ticks.                                   *)
THEOREM PipelineComplete ==
  ASSUME NEW p, Ingesters = {p}
  PROVE  PipelineSpec => []MatchesComplete
<1>1. EvaluationInv => MatchesComplete
  BY DEF EvaluationInv
<1> QED
  BY <1>1, OneIngesterInvariant, PTL
=============================================================================
