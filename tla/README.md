# A verification of the onchain rule triggers

The program watches an EVM chain for its users.  It stores each new block with
its receipts, decodes the token transfers the transactions make, and evaluates
every user's enabled rules against each block, recording what they match.  A
console shows the matches and edits the rules.

This directory models the parts of it where the order of steps matters, and the
console's algorithms on circuits: TLA+ modules translated from the source, TLC
runs over small instances, and theorems proved with TLAPS for every instance.
Paths are relative to the repository; `app/` is `project/app/` and `console/` is
`frontend/src/console/`.

## The system

| Part | Where | State | Operations | Interacts through |
| --- | --- | --- | --- | --- |
| Ingestion | `app/evm/block/services.py`, `app/evm/rpc.py`, `app/evm/receipt/services.py` | Block, Transaction, Withdrawal, Receipt, Log, Topic rows; `IngestCursor`; the `rpc` cache | `ingest_new_blocks` | JSON-RPC to the node; the tables |
| Decoding | `app/evm/decoding.py` | `Transaction.decode_status`, TokenTransfer rows | `decode_transactions` | the tables |
| Evaluation | `app/rules/services.py`, `app/rules/onchain.py` | `Block.evaluated_at`, MatchedRule rows | `evaluate_blocks` | the tables; the enabled rules' index |
| Pipeline | `app/pipeline.py`, `app/management/commands/` | which stage a tick is in | `run_tick`, the polling loop, the one-stage commands | calls the stages in order |
| Rule catalog | `app/rules/services.py`, `routes.py`, `models.py` | Rule and Condition rows | POST, PATCH, DELETE | requests; the tables |
| Enabled rules | `app/rules/services.py` `EnabledRules` | `_index`, `_indexed`, `_fingerprint` in the evaluating process | `index()` | queries of the catalog |
| Rule index, conditions | `app/rules/onchain.py`, `utils.py` | the filings of each rule | `put`, `discard`, `candidates`, `holds` | called by evaluation |
| Journal | `app/rules/services.py` `journal_page`, `console/journal/`, `console/state.tsx` | the sheet's list, its cursor, the selected match's trace, requests under way | a page, an older page, a match; tune, select, inspect, retry, leave | requests; the URL |
| Sign-in, accounts | `app/services/login_links.py`, `accounts.py`, `app/views/auth.py` | LoginToken and User rows, sessions | issue, redeem, register, log in and out | requests |
| Auth pages | `frontend/src/pages/`, `auth/`, `hooks/`, `components/RequireAuth.tsx`, `api/client.ts` | the page's panel and signal, timers, the destination in sessionStorage | sign in, register, send and redeem a link, be turned away, sign out | requests; the URL |
| Console shell | `console/ConsoleApp.tsx`, `CommandLine.tsx`, `command.ts` | the sheet shown, the journal's search, the command line | navigate, type a command | the URL, the focus |
| Circuits and composer | `console/circuits/CircuitsSheet.tsx`, `console/composer/ComposerSheet.tsx` | the circuits as the shell has them; a draft, its backtest and what it waits for | list, switch, load, wire, backtest, save | requests; the shell's reload |
| Gate editor, token names | `console/composer/GateEditor.tsx`, `console/state.tsx` | a gate's comparison, the picker's query and results; names learnt | edit, search, look up | requests |
| Condition trees, drawing | `console/derive/tree.ts`, `power.ts`, `layout.ts`, `explain.ts`, the demo's `evaluate.ts` and `parse.ts` | a tree | edit, evaluate, power, lay out, explain | pure functions |
| Terminal and DOOM | `console/terminal/` | the terminal's phase, runs, one download a page load, the keyboard | start, stop, tick, keys | the engine, the focus |
| LLM clients | `app/services/llm/` | a client per event loop | calls with retries | HTTP |
| Proposals, backtests | `app/rules/routes.py` | none | one request, one answer | the LLM clients |
| Catalogs | `app/evm/services.py`, `tokens.py`, `function_signatures.py` | Token, Contract and FunctionSignature rows | get or create, load | the tables |

What makes it hard:

- The stages share nothing but tables.  Each resumes from them after any
  failure or crash, and any number of processes may run one stage: polling
  commands, one-shot commands and the pipeline side by side.
- Postgres runs them in read committed isolation: each statement of a
  transaction sees what others have committed by then.
- The node reorganises: one height has two blocks in time, one transaction is in
  two blocks with two outcomes, and the block and its receipts are two calls
  with a cache entry each.
- Requests change rules by read, compute, write, while an evaluation holds an
  index of the rules from tick to tick and reads them with several queries.
- In the console every load is asked and lands later: after what it was asked for
  is gone, after a later one, or not at all.  Each effect must withdraw what it
  asked for, and what it withdraws too much is never loaded.
- The journal is paged by cursor while matches are recorded at any position,
  deleted with their rule's tree, switched off and on, and moved: a match's
  position is its transaction's block number and index, which storing a block
  again rewrites after a reorganisation.
- A run of the game goes on booting after it was stopped; the download it shares
  with the next run reports to whoever waits now.

What makes each part correct:

- *Ingestion*: the cursor never names what is not stored; resuming leaves no
  height out; a transaction has the receipt of its own block; it catches up.
- *Decoding*: a transaction is decoded once; its status only moves forward; every
  transaction is decoded.
- *Evaluation*: a block is evaluated once, in one step, with every match its
  transfers call for, and no other; every block is evaluated.
- *Catalog and enabled rules*: the index is the enabled rules as of the call; a
  match names the tree it ran; what is shown ran the rule's current tree; a rule
  has a tree.
- *Rule index*: a rule is matched as if it were tried against everything; puts
  and discards leave nothing behind.
- *Journal*: the list is of the tuned channel, in order, with no row twice and none
  left out but for what moved between pages; the trace shown is of the match selected, and comes in the end.
- *Sign-in*: a link signs in once; whoever signs in goes on where they were turned
  away; no form stays disabled.
- *Composer and circuits*: nothing of one draft reaches another; at rest, the list
  shows what is saved; the backtest shown settles on the draft's.
- *Trees and drawing*: an edit changes what it says and nothing else; power, what is
  said of it at each gate, and layout agree with the evaluator.
- *Gate editor*: a gate that counts as complete is one the server takes; results are
  those of the query; a name learnt stays, but for an answer older than it.
- *Terminal*: no key sticks; it shows its own run; loading ends; the keyboard has
  one owner; the journal comes back as it was left.

## The modules

| Module | Models |
| --- | --- |
| `Store` | the chain as constants (blocks, numbers, parents, transactions, which of them emit a transfer), what the node answers for a height; the tables the stages share, and the two writes that several stages' models need: `store_blocks`, `store_receipts` |
| `Ingestion` | `ingest_new_blocks` by any number of processes, the node, the response cache |
| `Decoding` | `decode_transactions` by any number of runs |
| `Evaluation` | `evaluate_blocks` by any number of runs |
| `EvaluateOnce` | what evaluation promises, with nothing of how: each block evaluated in one step, once |
| `Pipeline` | the three composed: a ticker calls them in order, other processes run one stage |
| `RuleCatalog` | the catalog's tables and the requests that write them |
| `EnabledRules` | the index of the enabled rules in an evaluating process, and the matches it records, over `RuleCatalog` |
| `Conditions` | a tree of conditions: whether it holds, and what it can be filed by |
| `RuleIndex` | the filings of the rules in an index, under any puts and discards, and what they match, over `Conditions` |
| `Journal` | an owner's journal on the server: its keyset pages, and the matches that come, go and move |
| `JournalSheet` | the console's sheet over `Journal`: its list, its older pages, the selection, its trace |
| `Resource` | `useResource`, instanced by those that load something with it |
| `LoginLinks` | sign-in links as the server keeps them, redeemed by any number of requests |
| `SignInPages` | one tab on the sign-in, registration and link pages, the guard before the console, the 401s, over `LoginLinks` |
| `CircuitList` | the circuits in the shell, their reloads and the switches |
| `Composer` | the composers of a new and of an edited circuit, over `CircuitList` |
| `TokenNames` | the console's names for tokens: learnt, or looked up once |
| `GateEditor` | the composer's editor of one gate and its token picker, over `TokenNames` |
| `ConditionTree` | a circuit's tree: edits, a sentence's tree, evaluation, power, what the explanation says of power at a gate |
| `CircuitLayout` | where gates are drawn, on one line or folded, and when power reaches them, over `ConditionTree` |
| `CircuitEdits` | a draft's tree as the composer edits it, over `CircuitLayout` |
| `DoomKeys` | the keys held, sent and polled by a game on the screen |
| `Shell` | the sheet shown, the journal's search and the command line |
| `Terminal` | the service terminal in the shell and its runs of DOOM, over `DoomKeys` and `Shell` |
| `PipelineProofs` (ingestion, decoding, evaluation and the three composed), `EnabledRulesProofs`, `RuleIndexProofs`, `JournalProofs`, `SignInProofs`, `ComposerProofs`, `TerminalProofs`, `GateEditorProofs` | theorems |
| `SmallChain`, `MC*` | small instances for TLC |

### How state and actions correspond to the code

One atomic step is one database transaction, one autocommitted statement, or
one call to the node.  A process's local variables are functions of the process
and are named for the code's (`head`, `next` for `number`, `fetched` for
`block`).  A `...pc` variable is where the process is.  A failure or crash
(`...Fails`) may come before any step: the open transaction's writes are not
there, and the locals are gone.  `PROJECT.json` maps each definition to its lines.

*Ingestion.* `ReadHead`, `ReadCursor`, `FetchBlock`, `FetchReceipts` and
`StoreFetched` are the statements of `ingest_new_blocks` in order.  `NodeMoves`
moves the node's tip anywhere its number may go, so that a growing chain, a
reorganisation and, with `NodeMayLag`, a node behind a load balancer are all
one action.  `CacheExpires` drops an entry at any time.

*Decoding.* `Claim` is `_claim`'s transaction.  It is one step, because its row
locks are skipped by the other runs and never waited on: what a run sees of
another's claim is either nothing locked or PROCESSING rows.  `ReadRows` is the
query after it, outside that transaction.  `StoreTransfers` is `_store`.

*Evaluation.* The mark, the read of the transactions and the read of the
transfers are three statements of one transaction, so three steps.
The mark is visible to others only at the end (`evaluated` changes in
`RecordMatches`), and until then the row is locked (`Locked`): another run's
UPDATE waits, as does ingestion's upsert of the block.  `RefuseUndecoded` is
`NotDecodedError`, which rolls the mark back.  The abstract `EvaluateOnce` has
the stored blocks not evaluated as `waiting`, and `matches` as `recorded`; a
mark, a rollback and a failure are stutters of it.

*Rule catalog.* A PATCH reads the rule (`ReadRule`), then its tree
(`ReadTree`), then writes (`Save`).  `Save` writes the whole row from the
request's copy, as `instance.save()` does, inserting it when the UPDATE finds
no row.

*Enabled rules.* `TakeFingerprint`, `ListRules`, `ReadRules` and the read of the
trees (`ReadAllTrees` for `_rebuild`, `PutTrees` for `_put`) are the queries of
`EnabledRules.index` on Postgres; on another database there is no fingerprint,
and every call lists.  `Record` is one block's matches, with the revision of
the rule as indexed.

Two of its behaviours are worth knowing, since the properties are stated around
them.  A rule that is enabled after a call's fingerprint and listed by that
call, and disabled before the next call, leaves the next fingerprint equal to
the kept one: it stays indexed, and its matches are recorded, until another
enabled rule is written.  `OnlyEnabledListed` is therefore of the calls that
list.  And a rule and its tree are read by two queries, so a tree that is
changed in between is indexed under the revision before it; its matches are
never shown (`ShownMatchesRanCurrentTree`), and the next call indexes the rule
again (`EnabledIndexedAsTheyStand`).

*Rule index.* `filings` is `_filings`; `equal`, `equalFields`, `ranges` and
`everywhere` are the maps of the same names, total functions in place of
dictionaries whose empty entries are deleted.  `Put` undoes the rule's filing
(`_unfile`) and files the new tree by what is filed then (`_file`, `_crowding`).
While `bulk` is true the constructor is putting its rules, appending to the
ranges; `Constructed` sorts them.  `Candidates` and `MatchedWith` are
`candidates` and `bindings_for_rules`, `MatchedAlone` is `bindings_in_block`,
the reference the code's own docstring names: the two "judge a row alike".

*Journal.* `Journal` is the server.  `position` stands for the values of
`JOURNAL_KEYS`, as a number, the newer the higher.  `PageOf` is `journal_page`: the
page after a cursor, which is a position, and where the next one starts; a row is
its match and the position it was read at.  `RecordMatch` records a match wherever
its transaction is, since blocks are not evaluated in the order of the journal.
`Reinclude` is what a reorganisation does to the journal: `store_blocks` writes the
new block's number and index over those of a stored transaction, so its matches,
recorded or not, go to other positions, anywhere, together; two matches of one
transaction keep their order, which is by rule.  A match is told by its id and not
by its position wherever the sheet tells it: a selected row stays selected when it
moves, and a chip of the trace (`Jump`) leads to another match of the same
transaction.  `JournalSheet` is the sheet.  React runs
a render's effects before the next event, so an event's action includes the
effects it sets off: `Tune` clears the list and asks again, drops the selection
and, if a list is there, selects its first row.  A request is in `asks` until it
lands, in any order.  A list's is answered (`Answer`) and lands (`LandList`) in
two steps, between which the journal changes.  A cleanup withdraws what its
effect asked (`Withdrawn`); an older page has no cleanup, so it stays and
lands on whatever list its channel has by then (`LandOlder`).  Two variables are
history: `steady` is what the channel has held since the load was answered and
was not moved to a newer position since, and `mixed` says that an older page of an earlier load has landed in this one.

*Sign-in.* `LoginLinks` is `consume_login_token`: `Redeem` is its conditional
UPDATE, and what follows in the request (`SignIn`, `Refuse`) is a step of its own,
as the view runs outside a transaction.  `SignInPages` is one tab.  `path` is the
URL and `shown` the page rendered; `Render` brings the second to the first in a
step, since a second 401 may be handled in between.  A call records whether its
form, only its page, or neither is still there (`by`), which decides what its
landing touches.  A page load drops all that is under way; `stored`, in
sessionStorage, survives it.  `turned` is history: the sheet the visitor was last
turned away from.

*Circuits and composer.* `CircuitList` is the resource in the shell and the
switches of the circuits sheet; the server's circuits are told apart by how often
they were written.  A write is asked, carried out and landed in three steps, and
may fail after it was carried out: `lost` is the history of that.  `Composer` has
one composer at a time; `Mount` is what a sheet's going and the next one's coming
do to what they asked for.  Saves outlive their sheet (`here` says if theirs is
shown); the rest is dropped.  `RunBacktest` is the backtest's effect with its
timer, and `touched` is history: the draft was edited here, or asked to be wired.

*Gate editor and token names.* A value is kept to what decides anything: its
kind, and for a text what it can be read as.  `Become` runs the picker's search
effect when what it depends on changes; `BlurCloses` is the timer that closes
the list after a blur, however many have been started.  `TokenNames` keeps one
lookup for a token at a time.

*Trees and drawing.* `ConditionTree` has `tree.ts`, `power.ts` and the demo's
`evaluate.ts` and `parse.ts` as recursive functions on trees of gates, with groups
in groups up to `MaxNesting`; `CircuitLayout` has the positions along the wire of `layout.ts` in pixels, and
the delays that power takes.  `CircuitEdits` reaches the trees by what the
composer offers: a sentence wired, a saved rule opened, gates added and removed.

*Terminal and shell.* `DoomKeys` is the screen's keyboard and the machine's
queue.  The engine only polls it (`Poll`).  `Shell` is the sheet shown, the
journal's search and the command line.  `Terminal` composes them with the runs:
each `run` is one mount of the screen, which waits for the assets, boots, and is
live until it is over; `cancelled` is its cleanup.  `assets` is the one download
of a page load, `onLoaded` the run it reports to.  `left` is history: the search
the journal was left with.

### What is abstracted

In the pipeline and the catalog:

- A block is its identity: number, parent, transactions, outcomes.
  Hashes, amounts, calldata and withdrawals are left out; parsing and the
  `Log` and `Topic` rows are kept as "this receipt is of this block".
- There is one chain.  The code keys everything by chain and never relates two.
- A rule is whether it reads transfers (`Evaluation`), its tree's identity
  (`RuleCatalog`) or its tree (`RuleIndex`).  In `Evaluation` the rules do not
  change; `EnabledRules` is where they do.
- The time of a write (`updated_at`) is its place in commit order.  The code
  stamps a write before its commit and may have two equal times in theory;
  neither is modelled.  The fingerprint's sums are kept as sums:
  `NewPrintTells` proves that with these times they never take a changed
  catalog for an unchanged one.
- An id is never used twice.
- A claim that is rolled back while another run skips its rows only makes that
  other run end early; it is not modelled.
- In `Conditions` a text is a model value, with what it is filed under beside it
  (`FiledAs`: a token on another chain is filed under the same address).
  A field's reader is a table; none of them has an effect.
- In `Conditions` an amount and a threshold are integers, which is what the code's
  decimals are in a unit small enough.
- In `RuleIndex` the parallel lists of a `_Range` are one sequence of pairs, and
  sorting is "the same pairs in order", as no rule is in a range twice.
  Trees over withdrawals or the block alone are left out: the vocabulary offers
  no such field, so no stored tree has one.  Traces are left out, as they are
  computed from a match and decide nothing.

In the console:

- A match, a circuit and a draft are their identity: names, tags, glyphs, wording
  and layout are left out, but for the positions and delays of `CircuitLayout`.
- The server's `newer_than` and `head` are left out, as the console asks for
  neither.  A match asked for by its id is found as it was: what it finds does not
  change.
- In `Journal`, any enabled rule's matches are shown.  Which revision a match is
  of is in `EnabledRules`; a tree change here deletes the rule's matches.
- In `Composer`, only this tab writes the circuits, there is one saved circuit to
  edit, and one sentence is wired at a time (`MaxWires`).  The code lets two
  proposals be under way, which "Where the code and the repository disagree"
  comes back to.
- Passwords, names, the allowlist's contents and throttling are kept to whether a
  call is accepted.  What happens elsewhere - another tab that signs in or out, a
  call carried out whose answer is lost - is `Elsewhere`.
- In `Terminal`, the mouse, the sound, the disk, the picture and the log are left
  out; so are the browser's history and a reload.
- In `CircuitLayout`, heights, the buses of branches and the shapes of fold
  markers are left out.  A gate's width is in whole pixels; the code has tenths of
  them, from the lengths of its texts.  A group with nothing in it has no width in
  the code and some here: `PowerInOrder` says nothing of a circuit that has one.
  Removing the gate of a group of one, which a saved circuit may have, leads there.

## The runs

| Run | Shows |
| --- | --- |
| `ingestion` | one ingester, a forking chain, a lagging node, a crash anywhere: the cursor names a stored block, no height is skipped by resuming, ingestion catches up |
| `decoding` | two runs, blocks stored again under them, a crash anywhere: claims exclude, a transaction is decoded once, statuses move forward, all but a crashed claim is decoded |
| `evaluation` | two runs, decoding beside them, a failure anywhere: matches are complete, `EvaluateOnce` is implemented, every block is evaluated |
| `pipeline` | the composition, with a failure in any stage: every block is evaluated but one that an abandoned claim holds up |
| `rules` | catalog and index with one writer and one evaluating process: an enabled rule is indexed as it stands, none is listed that was disabled before, what is shown ran the current tree and stays shown |
| `rule_index` | every sequence of puts and discards of three rules: each is matched as it is alone, and filed where its record says |
| `journal` | the sheet over the server's pages, while matches are recorded, deleted and moved and a rule is switched: the rows are the channel's, in order, none left out or twice but what moved between pages; the trace is the selection's and comes |
| `sign_in` | a tab's way through the pages, with two requests on one link, late 401s and timers of pages that are gone: a link signs in once, the visitor goes on where they were turned away, no page stays tuning |
| `composer` | composers one after the other with the circuits' list beside them: nothing is carried over, the list at rest is what is saved, the backtest settles |
| `circuit` | every circuit that editing leads to, under every reading of its gates: power, what is said of it and the drawing agree with the evaluator, an edit changes nothing else |
| `terminal` | runs started, stopped and left while a download and boots are under way, with the keyboard beside them: no key sticks, the terminal is at its own run, loading ends, the journal comes back as it was left |
| `gate_editor` | one gate edited in every way, its picker's searches and the lookups of names late or lost: a complete gate is one the server takes, results are the query's, a name is lost only to an answer older than it, searching ends |

Each property has a mutant in `PROJECT.json`: a plausible mistake in the code,
under which TLC finds the property violated with the same bounds.

### Where the code and the repository disagree

The properties are stated so that they hold of the code as it is.  These are the
places where what one would like to say, or what the repository does say, does not
hold, and so where a property has an exception or a bound:

1. A reorganisation between `eth_getBlockByNumber` and `eth_getBlockReceipts`
   stores a block with another block's receipts (`app/evm/block/services.py:81`).
   `Ingestion` has it: the two calls are two steps.
2. A decode run that dies after `_claim` leaves its batch PROCESSING for good, as
   nothing moves it back (`app/evm/decoding.py:87`); a block with such a
   transaction is never evaluated while an enabled rule reads transfers.
   `OnlyAbandonedHoldUp` and `EveryTransactionDecoded` name that exception.
3. A transaction included again in another block keeps the transfers of the
   first, and is matched by them, since transfers are read by the transaction's
   hash (`app/rules/onchain.py:659`).  `MatchesComplete` is therefore of the
   transfers decoded, not of the block's own receipts.
4. Two concurrent PATCHes that both change the tree save one revision for two
   trees (`app/rules/services.py:149`): a match of the one is then shown with
   the other.  `ShownMatchesRanCurrentTree` is of one writer at a time.
5. A PATCH that commits after a DELETE inserts the rule again, without a tree
   (`app/rules/services.py:153`).  This also takes two writers.
6. The match of a rule that compares no transfer names the transaction's first
   transfer when any other rule of the index compares one, and none otherwise
   (`app/rules/onchain.py:479`), though a docstring says that the two ways of
   matching judge a row alike.  `MatchesAsAlone` asks for the same transfer only of
   rules that compare one.
7. A rule that is enabled after a call's fingerprint, listed by that call and
   disabled before the next stays indexed, as told above
   (`OnlyEnabledListed`, `app/rules/services.py:284`).
8. An older page asked for before a reload of the same channel lands after it,
   with rows repeated or left out (`console/journal/JournalSheet.tsx:299`):
   `mixed` in `OnlyMixedOrMovedMislists`.
9. Two proposals asked for one after the other may land in the other order, and the
   draft keeps the older sentence's (`console/composer/ComposerSheet.tsx:79`).
   The model has one at a time, which is all that the form allows; an example
   and a Retry do not wait.
10. With no circuit that has a list of addresses, a gate just set to "is in" has an
   empty list, and that list is one of those to choose from: the select offers
   it alone, the text area for typing one is never shown, and the gate cannot be
   completed (`console/composer/ComposerSheet.tsx:170`).  `GateFits` says that
   such a gate does not count as complete, not that it can be completed.
11. A lookup answered "missing" before the catalog had the token lands over a name
   that a search has learnt since (`console/state.tsx:120`): the exception of
   `NamesStay`.
12. A write that was carried out and whose answer failed is not known of until the
   circuits are loaded again: `lost` in `QuietShowsSaved`.
13. The journal's order is by columns that change (`app/rules/services.py:545`):
   when a reorganisation puts a held match's transaction in another block
   (`app/evm/block/services.py:47`) between two pages of one list, the match is
   listed twice if it moved to an older position, and left out if it moved to a
   newer one.  `OnlyMixedOrMovedMislists` allows a match twice in just the first
   case, since the rows as read are in order, and leaves out only the second.

### Bounds, and why they are enough

- *Chains* (`SmallChain`): three heights, a fork at height 2, a transaction in
  both branches with two outcomes, one in both branches with the same.  That
  has a reorganisation at, above and below the cursor, and two stored blocks at
  one height.
- *Processes*: two decoders, two evaluators, since each hazard of theirs is
  between two.  One ingester: `NothingSkipped` is of one (see below), and
  `CursorNamesStoredBlock` is proved for any number.  One ticker in `pipeline`:
  what two runs of a stage do to each other is in that stage's own run.
- `MaxFaults`: one failure or crash, anywhere.  A second adds only a second
  resumption from the same tables.
- `BatchSize`: 1, so that two transactions take two batches.
- `MaxWrites`: four committed writes: create, two changes and a deletion, or two
  rules created and each changed.  Two rule ids, since "more than half of them
  changed" needs two to tell its branches apart; two trees, symmetric, which no
  definition orders.  One writer, as above.
- `rule_index`: three rules, so that one is between two others in a range and
  crowding can prefer either of two keys; thirteen trees, none and two
  that cannot be judged among them, at least one filed in each way there is, and
  bounds at one value from above and from below; seven transactions, with amounts
  at, above and below the thresholds, nothing to read, and two transfers in either
  order.  Its states are all the filings reachable, so no bound on the length of
  the sequence is needed.
- `journal`: three matches of two rules, one rule's between the other's, so that a
  channel has holes; one match recorded late and one rule switched off and on;
  two transactions, one of which moves; four positions, so that its match can pass
  either way by each of the others, before a page or after it; pages of one row,
  so that three rows take three pages; one older page under way (`Slots`), which
  is one more than a list needs, as it stays when its list is gone.  Page sizes and any number of older pages are in the proofs.
- `sign_in`: one link, one request of this tab and one from elsewhere, which is
  what a race takes; one call under way and one timer, either of a page that
  may be gone; two denied calls, since the second 401 is what could overwrite the
  destination; two sheets, so that one to remember is not the default.
- `composer`: two conditions that can be backtested and one that cannot; two
  sentences, one not understood; two writes, so that a list can be older than
  another; one switch, one sentence and one save under way beside each other.
  Each may outlive its sheet.
- `circuit`: four gates, proposals of up to three and two saved trees, with
  groups in groups of both types, of the same type, and with a single gate; four
  widths of gates and three of the box, so that circuits fold in none, two and
  more lines.  `MaxNesting` is four: with four gates no edit leads to groups
  nested deeper, so the bound in `AddGate` is never met.
- `terminal`: four codes, two of one key, one of another and one the game does not
  know; three runs, so that one is stopped, one waits and one follows; a queue
  of two key events between tics; one byte counted.
- `gate_editor`: the vocabulary served, without the second address field of each
  source, which differs by name only; two tokens, one catalogued late; two
  queries, one of which finds less than the other; one timer of a blur; gates to
  edit of each kind of value, a checksummed address and a text of words among them.

### Fairness

- *Pipeline.* Weak fairness of each process's own steps: a process that can go on
  does.  The polling loop justifies it: it calls the stage again after every
  outcome.  Nothing is assumed of the node, the cache, requests, failures or, in
  `Decoding`, of blocks.  `Evaluation` assumes that decoding gets to each
  transaction, which `run_tick` does before it evaluates; `Pipeline` assumes
  nothing but its processes, and names what holds a block up where that fails.
- *Console.* What is asked for lands, as an answer or as a failure, since a
  browser's request ends in one or the other; and timers fire.  That is weak
  fairness of `LandDetail` for each match (`JournalSheet`); of a call's, a sent
  link's and the lock timer's landing (`SignInPages`); of the backtest's timer and
  landing (`Composer`); of a search's (`GateEditor`); of the download's end and
  what waits for it, and of a boot (`Terminal`).  No more is assumed than the
  property needs: loads and saves may take for ever.  Nothing is assumed of
  users, of the server's own changes, or of which way a landing goes.

## What is proved

All theorems hold for every value of the constants that the named assumptions
allow: any chain, any number of processes, any rules, any journal and page size,
any number of runs and of requests under way.

*Types.* `IngestionTypeCorrect`, `DecodingTypeCorrect`, `EvaluationTypeCorrect`,
`PagesTypeCorrect`, `SheetTypeCorrect`; the other proof modules have the types
they need as the first part of their invariants (`CatalogTypeOK`, `Shapes`,
`RunTypes`).  They are proved, so no run repeats them.

*Ingestion.*

- `CursorCorrect`: the cursor names a stored block.  The invariant adds what a
  process holds between its steps: whatever is fetched for a number, or cached
  under it, is a block of that number (`FetchedAtHeight`, `CachedAtHeight`).
- `OneIngesterSkipsNothing`: with one ingester, no height between the first
  stored block and the cursor is left out.  The invariant says that between
  reading the cursor and storing, the ingester's next number is the cursor's
  successor, or its head with no cursor and nothing stored
  (`LoopFollowsCursor`).  With two, it does not hold: both may start with no
  cursor, at different heads.

*Decoding.* `ClaimsExclude`, `DecodesOnce`, `StatusOrder`: the claims are disjoint
and PROCESSING, which is why a transaction has one decode run's transfers at most
and why storing blocks again never sends a status back.

*Evaluation.* `EvaluationComplete`, `EvaluationImplementsPromise`: an evaluated
block has exactly the matches its transactions and their finished decoding call
for, and the runs together implement `EvaluateOnce`.  Completeness is not
inductive by itself, since the transactions and the transfers are read by two
statements.  The invariant says what a run knows between them: it alone has
marked the block (`MarksHeld`, `MarksExclude`); what it read is all the block
holds from then on, and with a rule reading transfers all of it is decoded for
good (`ReadsComplete`); and the tables name stored blocks alone (`RowsStored`).

*Pipeline.* `PipelineCursorCorrect`, `PipelineClaimsExclude`,
`PipelineDecodesOnce`, `PipelineStatusOrder`, `PipelineImplementsPromise`: the
stages composed keep what each keeps alone, for any number of tickers and
one-stage processes.  A stage's proof assumes of the others' writes only what
the composed invariant, `PipelineInv`, has of them: ingestion adds rows and never
takes a status back, decoding moves statuses forward, evaluation writes marks and
matches alone.  `PipelineSkipsNothing` and `PipelineComplete` are of one ingesting
process.  The second needs it for a reason of its own: an ingester that fetched a
block before it was evaluated, and stores it after, brings the block's
transactions back to it when another branch has taken them since, and the
evaluated block then holds a transaction it has no match for.

*Enabled rules.* Three about revisions and indexes:

- `ShownRanCurrentTree`, `ShownStays`, under `OneWriter` (any two writers are
  equal), without which they do not hold.  The invariant `RevisionInv` says that
  a revision belongs to one tree: what a request under way has read is what the
  tables still hold (`RequestUpToDate`), and whatever an index, a read or a match
  says of a rule's current revision is of its current tree (`IndexOfRevisions`,
  `ReadOfRevisions`, `MatchesOfRevisions`).  No evaluating process need be up to
  date for it.
- `EnabledAreIndexed`: when a call of `index()` ends, every rule enabled all
  through it is indexed as it stood.  This is of any number of writers and
  evaluating processes.  Its invariant, `IndexInv`, says that a rule listed with
  the time it was indexed at was indexed from that very version (`TimesTell`,
  `WrittenOnce`), and that a fingerprint equal to the kept one is of the same
  versions (`PrintTells`).  The second is an argument on sums: of as many rules,
  those written since the kept fingerprint are later than all there were, so the
  sum of the times has grown (`SameFingerprint`).  `NoRowAssumption` is all it
  asks of the constants: that a row read is not the value for none.
- `DisabledAreDropped`: no call that lists leaves indexed a rule that was disabled
  before it (`OnlyEnabledListed`).

*Rule index.* `IndexMatchesAsAlone`: what the index matches is what each of its rules
matches by itself.  `IndexFiledAsRecorded`: the maps hold what the rules' filings
say, and nothing else.  Both are of any trees, rules and transactions, and of any
sequence of puts and discards.  The argument has four parts.

- *Trees.* `Holds`, `Key`, `RangeKey` and the others are recursive functions on
  trees.  A tree is deeper than its children (`Depth`), so a function so defined
  exists and has the value its definition gives (`Recursion`, by least
  counterexample).  What needs induction on a tree is proved the same way, of a
  least tree for which it would fail.
- *Keys.* `KeySound`: a tree holds only where one of its key's fields reads as one of
  the key's values, whatever crowding had the key chosen.  `RangeSound`: it holds
  only where its threshold is passed.  `HoldsOfFieldsRead`: two bindings that agree
  on the fields a tree reads agree on the tree, which is why one that reads no
  transfer is tried once.
- *Filings.* The invariant, `IndexInv`, is that every rule in the index has a tree the
  evaluator can judge, and is filed as that tree is filed over some state of the
  maps (`FiledByTree`), and that the maps are as the filings record
  (`FiledAsRecorded`).  It needs the former: what a discard undoes is the filing
  recorded, not the one the tree would have now.  That insertion finds its place is
  `InsertInOrder`, over `BisectCuts`: halving a sequence in order ends where those
  below a bound end.
- *Candidates.* `CandidateWhenHolds`: wherever a rule holds it is among the candidates.

Assumed of the constants: trees are finite; what is compared for equality is a list
of texts, and a threshold is a number, as validation leaves them; ids are
numbers, finitely many; a field reads as a value of its kind or as none.

*Sign-in.* `LinkOpensOneSession`: a link that a request has won is spent and won by
no other (`WonOnce`).  `SignInResumesJourney`: what is in sessionStorage is where
the visitor was turned away from (`stored = turned`), which needs that a guard is
rendered only over a sheet or on its way to the sign-in page, so that a late 401
never remembers another page (`JourneyInv`).

*Journal.* `TraceIsOfSelection`: a detail under way is the selection's, since the
others were withdrawn, and an inspected gate is of the selection or of nothing
(`TraceInv`).  `ListIsOfChannel`, `ListIsFaithful`: the invariant `ListInv` says of
every page answered that it is on the channel it was asked for; that a list under
way is alone in its load; that the one older page of this load was asked for with
the list's own cursor and leaves nothing out between them; and that `steady` is
still held.  What keeps a page right when matches move is that rows and cursors
carry the position they were read at, and that a match of `steady` never moves up:
one that is at or above the cursor now was so when that page was read.  That a page is the newest rows and leaves out none of those above its
last is a lemma about cardinalities (`PageOf`).

*Composer.* `QuietIsSaved`: while no write is carried out that has yet to land, and
none failed after it was since the circuits were asked for (`UpToDate`), each list under way is as of now or yet to be answered, and a ready
one is as of now (`ListInv`).  `NothingIsCarriedOver`: an untouched draft is as
loaded, with nothing being wired (`DraftInv`).

*Circuits.* `PowerFollowsEvaluation`, `EditsChangeWhatTheySay`,
`PowerArrivesInOrder`: what the composer's circuits mean, how power goes through
them and where they are drawn, of any gates, sentences, saved circuits and widths.
All three rest on one invariant, `CircuitInv` (`CircuitsStayWired`): the circuit is
a tree whose root is a group, it has no gate twice, and the selected gate is one of
its gates.  Without "no gate twice" a gate would have two places, be reached by two
ways, or be removed with its double.  The argument has four parts.

- *Trees.* As in the rule index, the operators are recursive functions, each has
  the value its definition gives (`TreeRecursion`), and what needs induction is
  shown for a smallest tree that it would fail for (`SmallestTree`).
- *Rewriting.* `NormalizeKeeps`: opening groups of their parent's type and unwrapping
  single children changes neither the gates nor, however gates find, no data
  included, what the tree finds.  `InsertWires` and `PruneWithout` say what the tree
  finds once a gate is in or out, before it is normalized; that needs each gate to
  have one parent (`OneParent`).
- *Power.* `WalkTells`: the walk of a tree, with power or without, gives each gate
  power exactly when every step before it in series finds that it holds.
- *Places.* `DrawIs`: a tree is drawn between where it starts and its width further,
  each gate once, and of two in series the first is drawn first.  However the root's
  children are packed in lines they are in order, each in one line (`LinesLaid`);
  and lines are apart by the drawing's width, which no line exceeds
  (`LinesAre`, `LinesInOrder`).  A live gate before another adds its `Hold`
  (`DelayGrows`).

Assumed of the constants: ids of gates are numbers; groups are nested to a bound of
two or more; something is read in each sentence that has a proposal, and there are
ids for its gates; a saved circuit's root is a group and
its gates have ids of their own, as the contract of `api/types.ts` has it; a gate is
as wide as the narrowest `measure` makes one; a box's width is a natural, as
`useBoxWidth` floors it.  `Composer` and `CircuitEdits` share no constant and no
variable: their theorems are in one module and independent of each other.

*Terminal.* `TerminalFollowsItsRun`, `BytesAreShown`: one invariant, `RunInv`, for
both: the run that is not cancelled is the screen's, and a terminal that loads
is the one the download reports to.  `KeyboardHasOneOwner` and `JournalComesBack`
are each inductive with the types they need.  `NoKeySticks` is
inductive with its types (`KeysInv`): what the game has down once it has polled the
queue is what the codes held are bound to.  The work is in the queue: one more
event decides its own key and no other (`PolledOneMore`), so a code let go of while
another holds its key sends nothing, and a blur's releases let go of all that is
held in whatever order the browser's set has them.

*Gate editor.* `GateAlwaysFits`, `ResultsAreOfQuery`, `NamesAreKept`.  The first,
that a gate that counts as complete is one the server takes, rests on assumptions
on the constants that the code justifies: a source has a field, its fields have
different names, each has an operator, and only an address can be in a list
(`VOCABULARY` of `app/rules/utils.py`); a fresh gate's field is an amount; and a gate to
edit is as the server validated it.  `GateInv` says that the operator is always one
of the field's and the value of the kind the two call for, complete or not, and
that until the vocabulary has landed the gate is as it was given.  `PickerInv`: a
search under way is of an open picker and for the query it holds now, as the
others were withdrawn.  `NamesAreKept` is of each step: the one in which a known
name is lost is the landing of a lookup of that token that was answered "missing";
it needs only that a lookup answers for its own token.

What stays with TLC: liveness under fairness (`CatchesUp`,
`EveryTransactionDecoded`, `EveryBlockEvaluated`, `OnlyAbandonedHoldUp`,
`TraceSettles`, `SignalSettles`, `BacktestSettles`, `SearchSettles`,
`LoadingEnds`), which is out of the prover's reach.  Every safety invariant and
every action property that a run checks is proved for all values of the constants,
with one writer or one ingester where the run has that.

## Not modelled, and why

- *LLM clients* (`app/services/llm/`): one call with its retries and no state
  that outlives it; the rest is shapes of requests and answers.
- *Proposals and backtests on the server*: one request, one answer.  That the
  answers come late, out of order or never is in `Composer`.
- *Catalogs* of tokens, contracts and signatures: get-or-create of rows that
  nothing later changes.  What a search finds is in `TokenNames`.
- *Rule catalog*: names, tags and validation, which touch one row in one
  statement.
- *Accounts*: passwords, names, the allowlist's contents, throttling: each
  accepts or refuses.
- *Console shell*: the boot animation, the readouts, the toast, the browser's
  history.
- *Trees and drawing*: the playback of a trace, glyphs, wording; they decide
  nothing.  Of the explanation only what it says of power at a gate is modelled
  (`powerText`, `gateTag`).  What a gate reads is left out, and so is how many
  siblings held (`wiringText`, `console/derive/explain.ts:146`): it counts findings
  and not power, so of branches that no power reached it may say that they carried
  some.
- *Terminal*: the disk, the picture, the sound, the mouse, the log, which the engine
  drives and which nothing else reads; and the engine.
- *Presentation, schema, settings, deployment*: no protocol.

What would come next: two proposals under way at once in `Composer` and two writers
of one rule in `EnabledRules`, each with what still holds then; and the playback of
a trace over the delays of `CircuitLayout`.
