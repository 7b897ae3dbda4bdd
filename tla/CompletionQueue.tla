-------------------------- MODULE CompletionQueue --------------------------
(***************************************************************************)
(* The operations of utils::OrderedCompletionQueue<T>                      *)
(* (log/utils/OrderedCompletionQueue.h) as pure operators.                 *)
(*                                                                         *)
(* A queue is a record                                                     *)
(*   cur  - currentIndex_, the first index that has not been completed     *)
(*   pend - the keys of promises_, the promises still waiting              *)
(* The payload of a promise (its result is always the index itself) is     *)
(* left out.  An operation returns a record with the new queue and the set *)
(* of keys whose promise it fulfilled.                                     *)
(***************************************************************************)
EXTENDS Integers, FiniteSets

(* A queue as the constructor leaves it. *)
EmptyQueue(startIndex) == [cur |-> startIndex, pend |-> {}]

(* Faulty variant: the walk does not stop at a hole. *)
EligibleKeysPastHole(q) == {k \in q.pend : k >= q.cur}

(***************************************************************************)
(* The keys the loop of checkAndCompleteAfterCurrentIndex visits before it *)
(* breaks.  The map is walked from its SMALLEST key and the walk stops at  *)
(* the first key that differs from the expected index: a key below cur     *)
(* stops it at once.                                                       *)
(***************************************************************************)
EligibleKeys(q) ==
  IF \E k \in q.pend : k < q.cur
    THEN {}
    ELSE {k \in q.pend : \A j \in q.cur .. k : j \in q.pend}

(* One past the last eligible key: `startIndex' when the loop ends. *)
EligibleEnd(q) ==
  IF EligibleKeys(q) = {}
    THEN q.cur
    ELSE 1 + (CHOOSE k \in EligibleKeys(q) : \A j \in EligibleKeys(q) : j <= k)

(* Faulty variant: completed promises are not erased. *)
CheckAndCompleteNoErase(q) ==
  [queue |-> [q EXCEPT !.cur = EligibleEnd(q)], done |-> EligibleKeys(q)]

CheckAndComplete(q) ==
  [queue |-> [cur |-> EligibleEnd(q), pend |-> q.pend \ EligibleKeys(q)],
   done  |-> EligibleKeys(q)]

(* add(index, promise, result, complete = true) *)
AddAndComplete(q, index) ==
  CheckAndComplete([q EXCEPT !.pend = @ \union {index}])

(* add(index, promise, result, complete = false) *)
AddOnly(q, index) == [q EXCEPT !.pend = @ \union {index}]

(* The queue between the two halves of completeAllBelow(index). *)
SkipTo(q, index) ==
  [cur  |-> IF index > q.cur THEN index ELSE q.cur,
   pend |-> {k \in q.pend : k >= index}]

CompleteAllBelow(q, index) ==
  LET rest == CheckAndComplete(SkipTo(q, index))
  IN  [queue |-> rest.queue,
       done  |-> {k \in q.pend : k < index} \union rest.done]
=============================================================================
