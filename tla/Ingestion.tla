------------------------------ MODULE Ingestion ------------------------------
(***************************************************************************)
(* Realtime ingestion (evm/block/services.py, evm/receipt/services.py)     *)
(* from a node reached through the response cache of evm/rpc.py.           *)
(*                                                                         *)
(* One call of ingest_new_blocks asks the node for its head, reads the     *)
(* cursor, then for each number past it fetches the block, fetches the     *)
(* receipts, and only then opens the transaction that stores both and      *)
(* moves the cursor.  Each of those is a step of its own: the node may     *)
(* reorganise, a cache entry expire and another process ingest in between. *)
(***************************************************************************)
EXTENDS Store

CONSTANTS
  Ingesters,    \* processes that run ingest_new_blocks
  NodeMayLag    \* whether the node's head may fall back to a lower number

ASSUME NodeMayLagAssumption == NodeMayLag \in BOOLEAN

Heights == {Number[b] : b \in Blocks}

VARIABLES
  tip,           \* the node's head block
  blockCache,    \* caches["rpc"], key block:<chain>:<number>
  receiptsCache, \* caches["rpc"], key receipts:<chain>:<number>
  ipc,           \* where each process is in ingest_new_blocks
  head,          \* its local head: the number of the node's newest block
  next,          \* its loop variable, number
  fetched,       \* its local block
  fetchedReceipts \* the block its local receipts are of

nodeVars == <<tip, blockCache, receiptsCache>>
ingestVars == <<ipc, head, next, fetched, fetchedReceipts>>
ingestionVars == <<tables, faults, nodeVars, ingestVars>>

IngestPcs == {"idle", "cursor", "block", "receipts", "store", "done", "failed"}

IngestTypeOK ==
  /\ tip \in Blocks
  /\ blockCache \in [Heights -> Blocks \cup {None}]
  /\ receiptsCache \in [Heights -> Blocks \cup {None}]
  /\ ipc \in [Ingesters -> IngestPcs]
  /\ head \in [Ingesters -> Nat]
  /\ next \in [Ingesters -> Nat]
  /\ fetched \in [Ingesters -> Blocks \cup {None}]
  /\ fetchedReceipts \in [Ingesters -> Blocks \cup {None}]

IngestInit ==
  /\ tip \in Blocks
  /\ blockCache = [n \in Heights |-> None]
  /\ receiptsCache = [n \in Heights |-> None]
  /\ ipc = [w \in Ingesters |-> "idle"]
  /\ head = [w \in Ingesters |-> 0]
  /\ next = [w \in Ingesters |-> 0]
  /\ fetched = [w \in Ingesters |-> None]
  /\ fetchedReceipts = [w \in Ingesters |-> None]

(***************************************************************************)
(* The node and its cache, from how evm/rpc.py uses them.                  *)
(***************************************************************************)

(* The node sees a new tip: the chain grows, or reorganises onto a fork.   *)
NodeMoves(b) ==
  /\ b # tip
  /\ NodeMayLag \/ Number[b] >= Number[tip]
  /\ tip' = b
  /\ UNCHANGED <<tables, faults, blockCache, receiptsCache, ingestVars>>

(* CACHE_TTL_SECONDS pass for one entry. *)
CacheExpires(n) ==
  /\ \/ /\ blockCache[n] # None
        /\ blockCache' = [blockCache EXCEPT ![n] = None]
        /\ UNCHANGED receiptsCache
     \/ /\ receiptsCache[n] # None
        /\ receiptsCache' = [receiptsCache EXCEPT ![n] = None]
        /\ UNCHANGED blockCache
  /\ UNCHANGED <<tables, faults, tip, ingestVars>>

(* _cached: the entry under height n, or else what the node answers now.   *)
Cached(cache, n) ==
  IF n \in Heights /\ cache[n] # None THEN cache[n] ELSE BlockAt(tip, n)

(***************************************************************************)
(* ingest_new_blocks                                                       *)
(***************************************************************************)

(* rpc.latest_block_number, never cached. *)
ReadHead(w) ==
  /\ ipc[w] = "idle"
  /\ head' = [head EXCEPT ![w] = Number[tip]]
  /\ ipc' = [ipc EXCEPT ![w] = "cursor"]
  /\ UNCHANGED <<tables, faults, nodeVars, next, fetched, fetchedReceipts>>

(* Mistakes for StartOf: the cursor is ignored, or taken to be at the head *)
(* while there is none.                                                    *)
StartAtHead(w) == head[w]
StartPastHead(w) == IF cursor = None THEN head[w] + 1 ELSE cursor + 1

(* Where the loop starts: past the cursor, or at the head with no cursor   *)
(* yet (no backfill).  A head at or below the cursor leaves nothing to do. *)
StartOf(w) == IF cursor = None THEN head[w] ELSE cursor + 1

ReadCursor(w) ==
  /\ ipc[w] = "cursor"
  /\ next' = [next EXCEPT ![w] = StartOf(w)]
  /\ ipc' = [ipc EXCEPT ![w] = IF StartOf(w) <= head[w] THEN "block" ELSE "done"]
  /\ UNCHANGED <<tables, faults, nodeVars, head, fetched, fetchedReceipts>>

(* rpc.block_by_number.  A null answer, a height the node does not have    *)
(* (any more), is an RPCError and is not cached: the step is IngestFails.  *)
FetchBlock(w) ==
  LET b == Cached(blockCache, next[w]) IN
  /\ ipc[w] = "block"
  /\ b # None
  /\ fetched' = [fetched EXCEPT ![w] = b]
  /\ blockCache' = [blockCache EXCEPT ![next[w]] = b]
  /\ ipc' = [ipc EXCEPT ![w] = "receipts"]
  /\ UNCHANGED <<tables, faults, tip, receiptsCache, head, next, fetchedReceipts>>

(* rpc.block_receipts, a second call with a cache entry of its own. *)
FetchReceipts(w) ==
  LET r == Cached(receiptsCache, next[w]) IN
  /\ ipc[w] = "receipts"
  /\ r # None
  /\ fetchedReceipts' = [fetchedReceipts EXCEPT ![w] = r]
  /\ receiptsCache' = [receiptsCache EXCEPT ![next[w]] = r]
  /\ ipc' = [ipc EXCEPT ![w] = "store"]
  /\ UNCHANGED <<tables, faults, tip, blockCache, head, next, fetched>>

(* The loop's transaction: the block, its receipts and the cursor at once, *)
(* then the next number or the end of the call.                            *)
StoreFetched(w) ==
  /\ ipc[w] = "store"
  /\ StoreBlock(fetched[w])
  /\ StoreReceipts(fetchedReceipts[w])
  /\ cursor' = next[w]
  /\ next' = [next EXCEPT ![w] = @ + 1]
  /\ ipc' = [ipc EXCEPT ![w] = IF next[w] + 1 <= head[w] THEN "block" ELSE "done"]
  /\ fetched' = [fetched EXCEPT ![w] = None]
  /\ fetchedReceipts' = [fetchedReceipts EXCEPT ![w] = None]
  /\ UNCHANGED <<transfers, matches, faults, nodeVars, head>>

(* The call raises, or its process dies, at any point: only the tables and *)
(* the cache on disk outlive it.                                           *)
IngestForgets(w) ==
  /\ head' = [head EXCEPT ![w] = 0]
  /\ next' = [next EXCEPT ![w] = 0]
  /\ fetched' = [fetched EXCEPT ![w] = None]
  /\ fetchedReceipts' = [fetchedReceipts EXCEPT ![w] = None]

IngestFails(w) ==
  /\ ipc[w] \notin {"idle", "done", "failed"}
  /\ Fault
  /\ ipc' = [ipc EXCEPT ![w] = "failed"]
  /\ IngestForgets(w)
  /\ UNCHANGED nodeVars

(* A null answer: an RPCError that the code brings on itself, whenever the *)
(* node no longer has the height.                                          *)
FetchFindsNothing(w) ==
  /\ \/ ipc[w] = "block" /\ Cached(blockCache, next[w]) = None
     \/ ipc[w] = "receipts" /\ Cached(receiptsCache, next[w]) = None
  /\ ipc' = [ipc EXCEPT ![w] = "failed"]
  /\ IngestForgets(w)
  /\ UNCHANGED <<tables, faults, nodeVars>>

(* The polling loop sleeps and calls again, whatever came of the last call. *)
IngestAgain(w) ==
  /\ ipc[w] \in {"done", "failed"}
  /\ ipc' = [ipc EXCEPT ![w] = "idle"]
  /\ IngestForgets(w)
  /\ UNCHANGED <<tables, faults, nodeVars>>

(* The steps a process takes on its own, and with them its failures. *)
IngestStep(w) ==
  \/ ReadHead(w)
  \/ ReadCursor(w)
  \/ FetchBlock(w)
  \/ FetchReceipts(w)
  \/ FetchFindsNothing(w)
  \/ StoreFetched(w)

NodeStep ==
  \/ \E b \in Blocks : NodeMoves(b)
  \/ \E n \in Heights : CacheExpires(n)

IngestionInit == StoreInit /\ IngestInit

IngestionNext ==
  \/ NodeStep
  \/ \E w \in Ingesters : IngestStep(w) \/ IngestFails(w) \/ IngestAgain(w)

IngestionSpec == IngestionInit /\ [][IngestionNext]_ingestionVars

(* A process keeps taking steps and is started again after each call; the  *)
(* node, the clock and the faults owe nothing.                             *)
IngestionFairness ==
  \A w \in Ingesters :
    WF_ingestionVars(IngestStep(w)) /\ WF_ingestionVars(IngestAgain(w))

FairIngestionSpec == IngestionSpec /\ IngestionFairness

(***************************************************************************)
(* Properties                                                              *)
(***************************************************************************)

(* Type invariant of the tables and of ingestion's own state. *)
IngestionTypeOK == StoreTypeOK /\ IngestTypeOK

(* The cursor never runs ahead of what is stored: however many processes   *)
(* ingest, whatever the node, the cache and the faults do, the block it    *)
(* names is there (the IngestCursor docstring, block/models.py).           *)
CursorNamesStoredBlock ==
  cursor # None => \E b \in stored : Number[b] = cursor

(* With one process ingesting, resuming after failures and crashes skips   *)
(* no height: from the first block stored to the cursor each has a block,  *)
(* and none is stored past the cursor, so it is the newest stored.         *)
NothingSkipped ==
  \A b \in stored :
    /\ cursor # None
    /\ Number[b] <= cursor
    /\ \A n \in Number[b] .. cursor : \E c \in stored : Number[c] = n

(* Every height the node has reached for good is ingested, whichever calls *)
(* fail and however it reorganises, if its head stops falling back.        *)
CatchesUp ==
  <>[][Number[tip'] >= Number[tip]]_tip =>
    \A n \in Heights :
      <>[](Number[tip] >= n) => <>(cursor # None /\ cursor >= n)
=============================================================================
