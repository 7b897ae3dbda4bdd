------------------------------ MODULE NanoLog ------------------------------
(***************************************************************************)
(* One segment of one replica: InMemoryNanoLog (log/impl/InMemoryNanoLog.cc)*)
(* as pure operators on a record                                           *)
(*   sealed - sealed_                                                      *)
(*   logs   - logs_, a function from the stored log ids to payloads        *)
(*   queue  - completionQueue_                                             *)
(* Every replica the factories build uses this nano log                    *)
(* (VirtualLogFactory.cc passes NanoLogType::InMemory).                    *)
(***************************************************************************)
EXTENDS CompletionQueue

(* A nano log as NanoLogFactory::makeNanoLog creates it. *)
MakeNanoLog(startIndex) ==
  [sealed |-> FALSE, logs |-> [n \in {} |-> {}], queue |-> EmptyQueue(startIndex)]

Occupied(log, logId) == logId \in DOMAIN log.logs

(* logs_.emplace of a free position. *)
Emplace(logs, logId, payload) ==
  [n \in DOMAIN logs \union {logId} |-> IF n = logId THEN payload ELSE logs[n]]

(***************************************************************************)
(* The locked part of append for a free position: emplace, add a promise,  *)
(* and, when a global commit index came along, completeAllBelow it.        *)
(* `gci' is a set: {} is std::nullopt, {g} a commit index.                 *)
(* Returns the new nano log and the log ids whose promise was fulfilled.   *)
(***************************************************************************)
AppendLocked(log, gci, logId, payload) ==
  LET put  == AddAndComplete(log.queue, logId)
      skip == IF gci = {}
                THEN [queue |-> put.queue, done |-> {}]
                ELSE CompleteAllBelow(put.queue, CHOOSE g \in gci : TRUE)
  IN  [log  |-> [log EXCEPT !.logs = Emplace(@, logId, payload),
                            !.queue = skip.queue],
       done |-> put.done \union skip.done]

(* Faulty variant: reports the index after the first missing one. *)
SealNanoLogOffByOne(log) ==
  [log |-> [log EXCEPT !.sealed = TRUE], end |-> log.queue.cur + 1]

(* seal(): sets the flag and reports getCurrentIndex(). *)
SealNanoLog(log) == [log |-> [log EXCEPT !.sealed = TRUE], end |-> log.queue.cur]
=============================================================================
