--------------------------- MODULE SearchService ---------------------------
(***************************************************************************)
(* One call of DefaultSearchService::searchWithEvents: the strategy        *)
(* (direct, indexed, hybrid), the batches of results and the events a      *)
(* consumer receives, each of which it may refuse.                         *)
(*                                                                         *)
(* The direct engine hands out its results in order until it is refused,   *)
(* stopped or at the end, and may throw: what DirectSearch shows.  With    *)
(* context lines it holds results back, and hands out some of them after   *)
(* it saw the stop or was refused; a refused one comes again, emptied.     *)
(* (The engine's memory budget, of which an emptied result takes less, is  *)
(* left out.)                                                              *)
(***************************************************************************)
EXTENDS IndexSearch

CONSTANTS
  DirectAnswers,    \* sequences of results the engine may find
  IndexContents,    \* sequences of documents the index may hold
  BatchOptions,     \* [adaptive, size, minimum, maximum]
  Queries,          \* [resultLimit, perFileResultLimit, budget, target]
  Strategies        \* subset of {"direct", "indexed", "hybrid"}

ASSUME ServiceAssumption ==
  /\ DirectAnswers \subseteq Seq(Nat \X Nat)
  /\ IndexContents \subseteq Seq([path : Nat, text : Nat, givesUp : BOOLEAN])
  /\ BatchOptions \subseteq [adaptive : BOOLEAN, size : Nat, minimum : Nat, maximum : Nat]
  /\ Queries \subseteq [resultLimit : Nat, perFileResultLimit : Nat, budget : Nat,
                        target : {"name", "content", "both"}]
  /\ Strategies \subseteq {"direct", "indexed", "hybrid"}

NoCall == [strategy |-> "none"]

VARIABLES
  call,             \* what the caller asked for, and what will be found
  servicePhase,
  remaining,        \* results the engine or the index has yet to hand out
  lastOffers,       \* they are those of the engine's last flush
  offeredAgain,     \* history: where the refused result was handed out again
  pendingResults, batchSize,
  delivered,        \* history: events sent to the sink, with its answer
  shown,            \* history: the results they carried
  handedOut,        \* history: results the engine or the index handed out
  emittedResultCount, \* those that were taken
  cacheHits, cacheMisses,
  abortedBySink,
  searchStopped,    \* the caller's stop token
  summary           \* what the search returned, and then what the call returns

offering == <<remaining, lastOffers, offeredAgain>>
counts   == <<emittedResultCount, cacheHits, cacheMisses>>
serviceVars == <<call, servicePhase, offering, pendingResults, batchSize,
                 delivered, shown, handedOut, counts,
                 abortedBySink, searchStopped, summary, indexSearchVars>>

NoSummary == [cancelled |-> FALSE, errors |-> "none", limitReached |-> FALSE,
              matches |-> 0]

ServiceInit ==
  /\ call = NoCall /\ servicePhase = "idle"
  /\ remaining = <<>> /\ lastOffers = FALSE /\ offeredAgain = 0
  /\ pendingResults = <<>> /\ batchSize = 1
  /\ delivered = <<>> /\ shown = <<>> /\ handedOut = <<>>
  /\ emittedResultCount = 0 /\ cacheHits = 0 /\ cacheMisses = 0
  /\ abortedBySink = FALSE /\ searchStopped = FALSE /\ summary = NoSummary
  /\ IndexSearchInit

-----------------------------------------------------------------------------
(* AdaptiveResultBatcher. *)
AtLeast(a, b) == IF a < b THEN b ELSE a
AtMost(a, b)  == IF a > b THEN b ELSE a
normalizedBatchSize(size) == AtLeast(size, 1)

SmallestBatch(o) == normalizedBatchSize(IF o.adaptive THEN o.minimum ELSE o.size)
LargestBatch(o) ==
  IF o.adaptive THEN AtLeast(normalizedBatchSize(o.maximum), SmallestBatch(o))
  ELSE normalizedBatchSize(o.size)
InitialBatch(o) ==
  AtMost(AtLeast(normalizedBatchSize(o.size), SmallestBatch(o)), LargestBatch(o))

(* Without adaptation the bounds are the size itself. *)
recordDeliveryLatency(latency) ==
  CASE latency = "fast" -> AtMost(batchSize * 2, LargestBatch(call.batching))
    [] latency = "slow" -> AtLeast(batchSize \div 2, SmallestBatch(call.batching))
    [] latency = "near the target" -> batchSize

Send(kind, results, accepted) ==
  /\ delivered' = Append(delivered, [kind |-> kind, size |-> Len(results),
                                     accepted |-> accepted])
  /\ shown' = shown \o results

-----------------------------------------------------------------------------
searchWithEvents ==
  /\ servicePhase = "idle" /\ servicePhase' = "started"
  /\ \E strategy \in Strategies, valid, holdsBack \in BOOLEAN, o \in BatchOptions,
        query \in Queries, direct \in DirectAnswers, documents \in IndexContents :
       /\ strategy = "indexed" => ~holdsBack
       /\ call' = [strategy |-> strategy, valid |-> valid, holdsBack |-> holdsBack,
                   batching |-> o, query |-> query, direct |-> direct,
                   documents |-> documents]
       /\ batchSize' = InitialBatch(o)
  /\ UNCHANGED <<offering, pendingResults, delivered, shown, handedOut, counts,
                 abortedBySink, searchStopped, summary, indexSearchVars>>

SendStarted ==
  /\ servicePhase = "started"
  /\ \E accepted \in BOOLEAN :
       /\ Send("started", <<>>, accepted)
       /\ servicePhase' = IF accepted THEN "search" ELSE "returned"
       /\ summary' = [summary EXCEPT !.cancelled = ~accepted]
  /\ UNCHANGED <<call, offering, pendingResults, batchSize, handedOut, counts,
                 abortedBySink, searchStopped, indexSearchVars>>

(* search(): what each strategy does before the first result.              *)
StartSearch ==
  /\ servicePhase = "search"
  /\ \/ /\ ~call.valid   \* the engine validates the query too
        /\ servicePhase' = "flush"
        /\ summary' = [NoSummary EXCEPT !.errors = "invalid"]
        /\ UNCHANGED offering
     \/ /\ call.valid /\ call.strategy # "direct" /\ searchStopped
        /\ servicePhase' = "flush"
        /\ summary' = [NoSummary EXCEPT !.cancelled = TRUE]
        /\ UNCHANGED offering
     \/ /\ call.valid /\ call.strategy # "direct" /\ ~searchStopped
        /\ servicePhase' = "index"
        /\ UNCHANGED <<offering, summary>>
     \/ /\ call.valid /\ call.strategy = "direct"
        /\ remaining' = call.direct /\ servicePhase' = "results"
        /\ UNCHANGED <<lastOffers, offeredAgain, summary>>
  /\ UNCHANGED <<call, pendingResults, batchSize, delivered, shown, handedOut, counts,
                 abortedBySink, searchStopped, indexSearchVars>>

SearchIndex ==
  /\ servicePhase = "index"
  /\ IndexSearchNext(call.documents, call.query, searchStopped)
  /\ UNCHANGED <<call, servicePhase, offering, pendingResults, batchSize, delivered,
                 shown, handedOut, counts, abortedBySink, searchStopped, summary>>

(* The results of the index are the answer, or (hybrid), sorted and        *)
(* without duplicates, only asked whether they contain a result of the     *)
(* engine.                                                                 *)
IndexReturns ==
  /\ servicePhase = "index" /\ indexEnding # "none" /\ servicePhase' = "results"
  /\ remaining' = IF call.strategy = "indexed" THEN indexResults ELSE call.direct
  /\ UNCHANGED <<call, lastOffers, offeredAgain, pendingResults, batchSize, delivered,
                 shown, handedOut, counts, abortedBySink, searchStopped, summary,
                 indexSearchVars>>

Count(result) ==
  /\ emittedResultCount' = emittedResultCount + 1
  /\ IF call.strategy = "hybrid"
     THEN IF result \in Elements(indexResults)
          THEN cacheHits' = cacheHits + 1 /\ UNCHANGED cacheMisses
          ELSE cacheMisses' = cacheMisses + 1 /\ UNCHANGED cacheHits
     ELSE UNCHANGED <<cacheHits, cacheMisses>>

(* A result whose texts were moved away.                                   *)
Emptied == <<0, 0>>

(* The answer to a result.  A refusal ends the search; but the flush of an *)
(* engine that holds results back hands out the refused one again, emptied *)
(* as it was passed on, and more of those it holds until one is refused.   *)
AnswerResult(accepted) ==
  \/ accepted /\ remaining' = Tail(remaining) /\ UNCHANGED <<lastOffers, offeredAgain>>
  \/ ~accepted /\ remaining' = <<>> /\ UNCHANGED <<lastOffers, offeredAgain>>
  \/ /\ ~accepted /\ call.holdsBack /\ ~lastOffers
     /\ \E held \in 1..Len(remaining) :
          remaining' = <<Emptied>> \o SubSeq(remaining, 2, held)
     /\ lastOffers' = TRUE /\ offeredAgain' = Len(handedOut) + 2

(* One result: it waits for the batch to be full; a refused batch is       *)
(* dropped.  A hybrid search refuses every result after the stop.          *)
Result ==
  /\ servicePhase = "results" /\ remaining # <<>>
  /\ handedOut' = Append(handedOut, Head(remaining))
  /\ LET waiting == Append(pendingResults, Head(remaining))
         goesOn == ~(call.strategy = "hybrid" /\ searchStopped)
     IN
       \/ /\ Len(waiting) < batchSize
          /\ pendingResults' = waiting
          /\ Count(Head(remaining)) /\ AnswerResult(goesOn)
          /\ UNCHANGED <<delivered, shown, batchSize, abortedBySink>>
       \/ /\ Len(waiting) >= batchSize
          /\ pendingResults' = <<>>
          /\ \E accepted \in BOOLEAN, latency \in {"fast", "slow", "near the target"} :
               /\ Send("resultBatch", waiting, accepted)
               /\ batchSize' = recordDeliveryLatency(latency)
               /\ abortedBySink' = (abortedBySink \/ ~accepted)
               /\ IF accepted THEN Count(Head(remaining)) ELSE UNCHANGED counts
               /\ AnswerResult(accepted /\ goesOn)
  /\ UNCHANGED <<call, servicePhase, searchStopped, summary, indexSearchVars>>

(* The engine notices the stop, and flushes; the index results are handed  *)
(* out anyway.                                                             *)
StopSeen ==
  /\ servicePhase = "results" /\ searchStopped
  /\ call.strategy # "indexed" /\ remaining # <<>> /\ ~lastOffers
  /\ \E held \in IF call.holdsBack THEN 0..Len(remaining) ELSE {0} :
       remaining' = SubSeq(remaining, 1, held)
  /\ lastOffers' = TRUE
  /\ UNCHANGED <<call, servicePhase, offeredAgain, pendingResults, batchSize, delivered,
                 shown, handedOut, counts, abortedBySink, searchStopped, summary,
                 indexSearchVars>>

(* The summary of the search.  A file that could not be read makes the     *)
(* failure partial.                                                        *)
SearchReturns ==
  /\ servicePhase = "results" /\ remaining = <<>>
  /\ servicePhase' = "flush"
  /\ \E errors \in IF call.strategy = "indexed" THEN {"none"} ELSE {"none", "partial"},
        limit \in IF call.strategy = "indexed" THEN {indexEnding = "limit"} ELSE BOOLEAN :
       summary' = [cancelled |-> searchStopped \/ abortedBySink, errors |-> errors,
                   matches |-> emittedResultCount,
                   limitReached |-> \/ limit
                                    \/ /\ call.strategy = "hybrid"
                                       /\ emittedResultCount >= call.query.resultLimit]
  /\ UNCHANGED <<call, offering, pendingResults, batchSize, delivered, shown, handedOut,
                 counts, abortedBySink, searchStopped, indexSearchVars>>

(* An exception of the engine passes through: no further event is sent.    *)
EngineThrows ==
  /\ servicePhase = "results" /\ call.strategy # "indexed"
  /\ servicePhase' = "threw"
  /\ UNCHANGED <<call, offering, pendingResults, batchSize, delivered, shown, handedOut,
                 counts, abortedBySink, searchStopped, summary, indexSearchVars>>

FlushBatch ==
  /\ servicePhase = "flush" /\ servicePhase' = "terminal"
  /\ \E accepted \in IF pendingResults = <<>> THEN {TRUE} ELSE BOOLEAN :
       /\ IF pendingResults = <<>> THEN UNCHANGED <<delivered, shown>>
          ELSE Send("resultBatch", pendingResults, accepted)
       /\ abortedBySink' = (abortedBySink \/ ~accepted)
       /\ summary' = [summary EXCEPT !.cancelled = @ \/ abortedBySink']
  /\ pendingResults' = <<>>
  /\ UNCHANGED <<call, offering, batchSize, handedOut, counts, searchStopped,
                 indexSearchVars>>

KindByErrors == IF summary.errors = "invalid" THEN "failed" ELSE "completed"

completionEventKind ==
  IF summary.cancelled THEN "cancelled"
  ELSE IF summary.errors = "invalid" THEN "failed" ELSE "completed"

SendTerminal ==
  /\ servicePhase = "terminal" /\ servicePhase' = "returned"
  /\ \E accepted \in BOOLEAN :
       /\ Send(completionEventKind, <<>>, accepted)
       /\ summary' = [summary EXCEPT !.cancelled = @ \/ ~accepted]
  /\ UNCHANGED <<call, offering, pendingResults, batchSize, handedOut, counts,
                 abortedBySink, searchStopped, indexSearchVars>>

StopRequested ==
  /\ servicePhase \in {"started", "search", "index", "results"} /\ ~searchStopped
  /\ searchStopped' = TRUE
  /\ UNCHANGED <<call, servicePhase, offering, pendingResults, batchSize, delivered,
                 shown, handedOut, counts, abortedBySink, summary, indexSearchVars>>

ServiceNext ==
  \/ searchWithEvents \/ SendStarted \/ StartSearch \/ SearchIndex \/ IndexReturns
  \/ Result \/ StopSeen \/ SearchReturns \/ EngineThrows \/ FlushBatch \/ SendTerminal
  \/ StopRequested

ServiceSpec == ServiceInit /\ [][ServiceNext]_serviceVars

-----------------------------------------------------------------------------
Terminals == {"cancelled", "failed", "completed"}

(* The events alone: "started" comes first and once, a terminal event last *)
(* and once; no batch is empty or larger than allowed; and after a refusal *)
(* there is only a terminal "cancelled", except that a search with context *)
(* lines may send more batches in front of it, as the engine hands out     *)
(* results again that it held back.                                        *)
EventsInOrder ==
  /\ delivered # <<>> => delivered[1].kind = "started"
  /\ \A i \in DOMAIN delivered :
       /\ delivered[i].kind = "started" => i = 1
       /\ delivered[i].kind \in Terminals => i = Len(delivered)
       /\ ~delivered[i].accepted => \A j \in DOMAIN delivered :
            j > i => /\ delivered[i].kind = "resultBatch"
                     /\ \/ delivered[j].kind = "cancelled"
                        \/ call.holdsBack /\ delivered[j].kind = "resultBatch"
       /\ delivered[i].kind = "resultBatch" =>
            delivered[i].size \in 1..LargestBatch(call.batching)

(* What the strategy of the call finds, and what is handed out of it: the  *)
(* same, with the emptied result in between if one was handed out again.   *)
Found == IF call.strategy = "indexed" THEN indexResults ELSE call.direct

OfferCount == IF offeredAgain = 0 THEN Len(Found) ELSE Len(Found) + 1
Offer(i) ==
  CASE offeredAgain = 0 \/ i < offeredAgain -> Found[i]
    [] offeredAgain # 0 /\ i = offeredAgain -> Emptied
    [] offeredAgain # 0 /\ i > offeredAgain -> Found[i - 1]

(* The results of the index: its answer, or as much of it as the limits    *)
(* of the query admit.                                                     *)
AnswersTheQuery ==
  /\ Begins(shown, IndexAnswer(call.documents, call.query))
  /\ \/ summary.limitReached /\ Len(shown) = call.query.resultLimit
     \/ call.query.budget # 0 /\ Len(shown) = call.query.budget
     \/ Elements(shown) = IndexAnswer(call.documents, call.query)

(* What the events tell is what the search did.  The batches carry the     *)
(* results in the order they were handed out, each once, and they are the  *)
(* first of those that are found, of a cancelled search as well; except    *)
(* that a search with context lines that was refused or stopped may carry  *)
(* one result a second time, emptied.  "completed" means that every result *)
(* that was found was shown, and counted; of the index, that is what its   *)
(* documents have.                                                         *)
EventsTellTheSearch ==
  /\ EventsInOrder
  /\ handedOut = shown \o pendingResults
  /\ handedOut # <<>> => /\ Len(handedOut) <= OfferCount
                        /\ \A i \in DOMAIN handedOut : handedOut[i] = Offer(i)
  /\ offeredAgain # 0 => call.holdsBack /\ (abortedBySink \/ searchStopped)
  /\ servicePhase = "returned" /\ ~summary.cancelled =>
       /\ delivered[Len(delivered)].kind = IF call.valid THEN "completed" ELSE "failed"
       /\ ~call.valid => shown = <<>>
       /\ call.valid => summary.matches = Len(shown)
       /\ call.valid /\ call.strategy # "indexed" => shown = call.direct
       /\ call.valid /\ call.strategy = "indexed" => AnswersTheQuery
       /\ call.strategy = "hybrid" => cacheHits + cacheMisses = summary.matches
=============================================================================
