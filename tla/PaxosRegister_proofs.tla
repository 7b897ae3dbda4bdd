------------------------ MODULE PaxosRegister_proofs ------------------------
(***************************************************************************)
(* Proofs about PaxosRegister for every number of acceptors, callers and   *)
(* ballots, for callers that reach every acceptor directly (Remote = {}).  *)
(***************************************************************************)
EXTENDS PaxosRegister, TLAPS

(* Types alone are not inductive: that a request carries a ballot needs the
   rest of the invariant. *)
LEMMA CarriedTypes ==
  ASSUME IndInv, NEW p \in Callers
  PROVE  /\ pc[p] \in {"prepare", "accept", "commit"} => ballot[p] \in Ballots
         /\ pc[p] \in {"accept", "commit"} => value[p] \in Values
BY DEF IndInv, TypeOK, CallsCarryProposals, Proposed, Chosen

(* The lock id a register object takes next is a ballot: lockId_ counts up
   from 0, and the bound keeps it within Ballots. *)
LEMMA NextBallot ==
  ASSUME TypeOK, NEW p \in Callers, ballot[p] < MaxBallot
  PROVE  ballot[p] + 1 \in Ballots
<1>1. ballot[p] \in Ballots \union {0}
  BY DEF TypeOK
<1> QED
  BY <1>1, PaxosConstants DEF Ballots

(* Every action keeps the variables within their types. *)
LEMMA TypeStep ==
  ASSUME IndInv, [Next]_vars
  PROVE  TypeOK'
<1> USE PaxosConstants DEF IndInv, TypeOK, Acceptors, Ballots, NoBallot
<1>1. CASE UNCHANGED vars
  BY <1>1 DEF vars
<1>2. ASSUME NEW p \in Callers, NEW v \in Values, Append(p, v) PROVE TypeOK'
  BY <1>2 DEF Append, acceptorVars, loopVars
<1>3. ASSUME NEW p \in Callers, Sync(p) PROVE TypeOK'
  BY <1>3 DEF Sync, acceptorVars, loopVars
<1>4. ASSUME NEW p \in Callers, Lock(p) PROVE TypeOK'
  <2>1. ballot[p] + 1 \in Ballots
    BY <1>4, NextBallot DEF Lock
  <2>2. ballot' \in [Callers -> Ballots \union {0}]
    BY <1>4, <2>1 DEF Lock
  <2> QED
    BY <1>4, <2>2 DEF Lock, acceptorVars
<1>5. ASSUME NEW p \in Callers, NEW a \in Acceptors, PromiseBallot(p, a) PROVE TypeOK'
  <2>1. ballot[p] \in Ballots
    BY <1>5, CarriedTypes DEF PromiseBallot
  <2> QED
    BY <1>5, <2>1 DEF PromiseBallot, callVars, AnsweredBallot, AnsweredValue
<1>6. ASSUME NEW p \in Callers, NEW a \in Acceptors, RefuseBallot(p, a) PROVE TypeOK'
  BY <1>6 DEF RefuseBallot, callVars, acceptorVars
<1>7. ASSUME NEW p \in Callers, NEW a \in Acceptors, TimeoutPrepare(p, a) PROVE TypeOK'
  BY <1>7 DEF TimeoutPrepare, callVars, acceptorVars, loopVars, LeaveStray, Request, CallsCarryProposals
<1>8. ASSUME NEW p \in Callers, NEW v \in Values, BeginPropose(p, v) PROVE TypeOK'
  BY <1>8 DEF BeginPropose, callVars, acceptorVars, CallsCarryProposals, ForgetAnswers
<1>9. ASSUME NEW p \in Callers, LockFailed(p) PROVE TypeOK'
  BY <1>9 DEF LockFailed, callVars, acceptorVars, ForgetAnswers
<1>10. ASSUME NEW p \in Callers, NEW a \in Acceptors, AcceptProposal(p, a) PROVE TypeOK'
  <2>1. ballot[p] \in Ballots /\ value[p] \in Values
    BY <1>10, CarriedTypes DEF AcceptProposal
  <2> QED
    BY <1>10, <2>1 DEF AcceptProposal, AcceptAt, callVars
<1>11. ASSUME NEW p \in Callers, NEW a \in Acceptors, RejectProposal(p, a) PROVE TypeOK'
  BY <1>11 DEF RejectProposal, callVars, acceptorVars, loopVars
<1>12. ASSUME NEW p \in Callers, BeginCommit(p) PROVE TypeOK'
  BY <1>12 DEF BeginCommit, callVars, acceptorVars
<1>13. ASSUME NEW p \in Callers, NEW a \in Acceptors, Commit(p, a) PROVE TypeOK'
  BY <1>13 DEF Commit, loopVars
<1>14. ASSUME NEW p \in Callers, BeginRead(p) PROVE TypeOK'
  BY <1>14 DEF BeginRead, callVars, acceptorVars
<1>15. ASSUME NEW p \in Callers, NEW a \in Acceptors, ReadCommitted(p, a) PROVE TypeOK'
  BY <1>15 DEF ReadCommitted, acceptorVars, DestroyRegister, ForgetAnswers
<1>16. ASSUME NEW p \in Callers, NEW a \in Acceptors, ReadUncommitted(p, a) PROVE TypeOK'
  BY <1>16 DEF ReadUncommitted, callVars, acceptorVars, loopVars
<1>17. ASSUME NEW p \in Callers, ReadNothing(p) PROVE TypeOK'
  BY <1>17 DEF ReadNothing, callVars, acceptorVars, loopVars
<1>18. ASSUME NEW p \in Callers, Abandon(p) PROVE TypeOK'
  <2>1. PICK S \in SUBSET Outstanding(p) : LeaveStray(p, S)
    BY <1>18 DEF Abandon
  <2>2. ASSUME NEW a \in S
        PROVE  Request(p, a) \in [type : {"prepare", "accept", "commit"},
                 acc : Acceptors, bal : Ballots, val : Values \union {NoValue}]
    BY <1>18, CarriedTypes DEF Abandon, Request, Outstanding
  <2>3. stray' \subseteq [type : {"prepare", "accept", "commit"},
          acc : Acceptors, bal : Ballots, val : Values \union {NoValue}]
    BY <2>1, <2>2 DEF LeaveStray
  <2> QED
    BY <1>18, <2>3 DEF Abandon, acceptorVars, DestroyRegister, ForgetAnswers
<1>19. ASSUME NEW m \in stray, StrayPrepare(m) PROVE TypeOK'
  BY <1>19 DEF StrayPrepare, callVars, loopVars
<1>20. ASSUME NEW m \in stray, StrayAccept(m) PROVE TypeOK'
  BY <1>20 DEF StrayAccept, AcceptAt, callVars, loopVars
<1>21. ASSUME NEW m \in stray, StrayCommit(m) PROVE TypeOK'
  BY <1>21 DEF StrayCommit, callVars, loopVars
<1>22. ASSUME NEW m \in stray, StrayLost(m) PROVE TypeOK'
  BY <1>22 DEF StrayLost, callVars, acceptorVars, loopVars
<1> QED
  BY <1>1, <1>2, <1>3, <1>4, <1>5, <1>6, <1>7, <1>8, <1>9, <1>10, <1>11,
     <1>12, <1>13, <1>14, <1>15, <1>16, <1>17, <1>18, <1>19, <1>20, <1>21,
     <1>22 DEF Next

-----------------------------------------------------------------------------
(* The three ways a step can change what acceptors and proposals are; every
   other step leaves them alone. *)
QuietStep == UNCHANGED <<promised, accBal, accVal, voted, proposed>>

PromiseStep(a, b) ==
  /\ b > promised[a]
  /\ promised' = [promised EXCEPT ![a] = b]
  /\ UNCHANGED <<accBal, accVal, voted, proposed>>

VoteStep(a, b, v) ==
  /\ b >= promised[a]
  /\ Proposed(b, v)
  /\ AcceptAt(a, b, v)
  /\ UNCHANGED proposed

(* Every step is of one of these kinds: an accept, prompt or late, is of a
   value that was proposed at its ballot. *)
LEMMA StepKinds ==
  ASSUME IndInv, [Next]_vars
  PROVE  \/ QuietStep
         \/ \E a \in Acceptors, b \in Ballots : PromiseStep(a, b)
         \/ \E a \in Acceptors, b \in Ballots, v \in Values : VoteStep(a, b, v)
         \/ \E p \in Callers, v \in Values : BeginPropose(p, v)
<1> DEFINE Kinds ==
         \/ QuietStep
         \/ \E a \in Acceptors, b \in Ballots : PromiseStep(a, b)
         \/ \E a \in Acceptors, b \in Ballots, v \in Values : VoteStep(a, b, v)
         \/ \E p \in Callers, v \in Values : BeginPropose(p, v)
<1>1. ASSUME NEW p \in Callers, NEW a \in Acceptors, PromiseBallot(p, a) PROVE Kinds
  BY <1>1, CarriedTypes DEF PromiseBallot, PromiseStep, MayPromise
<1>2. ASSUME NEW p \in Callers, NEW a \in Acceptors, AcceptProposal(p, a) PROVE Kinds
  <2>1. Proposed(ballot[p], value[p])
    BY <1>2 DEF AcceptProposal, IndInv, CallsCarryProposals
  <2> QED
    BY <1>2, <2>1, CarriedTypes DEF AcceptProposal, VoteStep, MayAccept
<1>3. ASSUME NEW m \in stray, StrayPrepare(m) PROVE Kinds
  BY <1>3 DEF StrayPrepare, PromiseStep, MayPromise, IndInv, TypeOK
<1>4. ASSUME NEW m \in stray, StrayAccept(m) PROVE Kinds
  <2>1. Proposed(m.bal, m.val)
    BY <1>4 DEF StrayAccept, IndInv, CallsCarryProposals
  <2>2. m.acc \in Acceptors /\ m.bal \in Ballots /\ m.val \in Values
    BY <2>1 DEF Proposed, IndInv, TypeOK
  <2> QED
    BY <1>4, <2>1, <2>2 DEF StrayAccept, VoteStep, MayAccept
<1>5. CASE UNCHANGED vars
  BY <1>5 DEF vars, QuietStep
<1>6. ASSUME \/ \E p \in Callers, v \in Values : Append(p, v)
             \/ \E p \in Callers : Sync(p) \/ Lock(p) \/ LockFailed(p)
             \/ \E p \in Callers, a \in Acceptors : RefuseBallot(p, a)
             \/ \E p \in Callers, a \in Acceptors : TimeoutPrepare(p, a)
             \/ \E p \in Callers, a \in Acceptors : RejectProposal(p, a)
             \/ \E p \in Callers : BeginCommit(p) \/ BeginRead(p)
             \/ \E p \in Callers, a \in Acceptors : Commit(p, a)
             \/ \E p \in Callers, a \in Acceptors : ReadCommitted(p, a)
             \/ \E p \in Callers, a \in Acceptors : ReadUncommitted(p, a)
             \/ \E p \in Callers : ReadNothing(p) \/ Abandon(p)
             \/ \E m \in stray : StrayCommit(m) \/ StrayLost(m)
      PROVE Kinds
  BY <1>6 DEF QuietStep, acceptorVars, Append, Sync, Lock, LockFailed,
       RefuseBallot, TimeoutPrepare, RejectProposal, BeginCommit, BeginRead,
       Commit, ReadCommitted, ReadUncommitted, ReadNothing, Abandon,
       StrayCommit, StrayLost
<1> QED
  BY <1>1, <1>2, <1>3, <1>4, <1>5, <1>6 DEF Next

(* Consequences used below: nothing an acceptor did is undone, and a vote is
   cast at a ballot not below the acceptor's promise. *)
LEMMA StepMonotone ==
  ASSUME IndInv, [Next]_vars
  PROVE  /\ \A a \in Acceptors : promised[a] <= promised'[a]
         /\ \A a \in Acceptors, b \in Ballots : Voted(a, b) => Voted(a, b)'
         /\ \A a \in Acceptors, b \in Ballots :
              Voted(a, b)' /\ ~Voted(a, b) => promised[a] <= b
         /\ \A b \in Ballots, v \in Values : Proposed(b, v) => Proposed(b, v)'
<1> DEFINE Mono ==
         /\ \A a \in Acceptors : promised[a] <= promised'[a]
         /\ \A a \in Acceptors, b \in Ballots : Voted(a, b) => Voted(a, b)'
         /\ \A a \in Acceptors, b \in Ballots :
              Voted(a, b)' /\ ~Voted(a, b) => promised[a] <= b
         /\ \A b \in Ballots, v \in Values : Proposed(b, v) => Proposed(b, v)'
<1>0. promised \in [Acceptors -> Ballots \union {NoBallot}]
  BY DEF IndInv, TypeOK
<1>1. CASE QuietStep
  BY <1>0, <1>1, PaxosConstants DEF QuietStep, Ballots, NoBallot, Voted, Proposed
<1>2. ASSUME NEW a \in Acceptors, NEW b \in Ballots, PromiseStep(a, b) PROVE Mono
  BY <1>0, <1>2, PaxosConstants DEF PromiseStep, Ballots, NoBallot, Voted, Proposed
<1>3. ASSUME NEW a \in Acceptors, NEW b \in Ballots, NEW v \in Values,
             VoteStep(a, b, v)
      PROVE  Mono
  BY <1>0, <1>3, PaxosConstants
     DEF VoteStep, AcceptAt, Ballots, NoBallot, Voted, Proposed
<1>4. ASSUME NEW p \in Callers, NEW v \in Values, BeginPropose(p, v) PROVE Mono
  BY <1>0, <1>4, PaxosConstants
     DEF BeginPropose, acceptorVars, Ballots, NoBallot, Voted, Proposed
<1>5. Mono
  <2> HIDE DEF Mono
  <2> QED BY <1>1, <1>2, <1>3, <1>4, StepKinds DEF Mono
<1> QED BY <1>5

(* A vote raises the promise to its ballot and is recorded as accepted. *)
LEMMA LastVoteStep ==
  ASSUME IndInv, [Next]_vars
  PROVE  AcceptedIsLastVote'
<1>0. /\ promised \in [Acceptors -> Ballots \union {NoBallot}]
      /\ accBal \in [Acceptors -> Ballots \union {NoBallot}]
      /\ accVal \in [Acceptors -> Values \union {NoValue}]
      /\ AcceptedIsLastVote
  BY DEF IndInv, TypeOK
<1> USE PaxosConstants DEF AcceptedIsLastVote, Ballots, NoBallot, Voted, Proposed
<1>1. CASE QuietStep
  BY <1>0, <1>1 DEF QuietStep
<1>2. ASSUME NEW a \in Acceptors, NEW b \in Ballots, PromiseStep(a, b)
      PROVE  AcceptedIsLastVote'
  BY <1>0, <1>2 DEF PromiseStep
<1>3. ASSUME NEW a \in Acceptors, NEW b \in Ballots, NEW v \in Values,
             VoteStep(a, b, v)
      PROVE  AcceptedIsLastVote'
  <2> SUFFICES ASSUME NEW x \in Acceptors
               PROVE  /\ accBal'[x] <= promised'[x]
                      /\ accBal'[x] # NoBallot => /\ <<accBal'[x], accVal'[x]>> \in proposed'
                                                  /\ <<x, accBal'[x]>> \in voted'
                      /\ \A c \in Ballots : <<x, c>> \in voted' => c <= accBal'[x]
    OBVIOUS
  <2>1. CASE x = a
    <3>1. accBal'[x] = b /\ promised'[x] = b /\ accVal'[x] = v
      BY <1>0, <1>3, <2>1 DEF VoteStep, AcceptAt
    <3>2. \A c \in Ballots : <<x, c>> \in voted' => <<x, c>> \in voted \/ c = b
      BY <1>3 DEF VoteStep, AcceptAt
    <3>3. <<b, v>> \in proposed' /\ <<x, b>> \in voted'
      BY <1>3, <2>1 DEF VoteStep, AcceptAt
    <3>4. /\ accBal[x] \in Int /\ promised[x] \in Int /\ b \in Int
          /\ Ballots \subseteq Int
      BY <1>0
    <3>5. accBal[x] <= promised[x] /\ promised[x] <= b
      BY <1>0, <1>3, <2>1, <3>4 DEF VoteStep
    <3>6. \A c \in Ballots : <<x, c>> \in voted => c <= accBal[x]
      BY <1>0
    <3>7. \A c \in Ballots : <<x, c>> \in voted' => c <= b
      <4> HIDE DEF AcceptedIsLastVote, Ballots
      <4> QED BY <3>2, <3>4, <3>5, <3>6
    <3> QED
      BY <3>1, <3>3, <3>4, <3>7
  <2>2. CASE x # a
    <3>1. accBal'[x] = accBal[x] /\ promised'[x] = promised[x] /\ accVal'[x] = accVal[x]
      BY <1>0, <1>3, <2>2 DEF VoteStep, AcceptAt
    <3>2. \A c \in Ballots : <<x, c>> \in voted' => <<x, c>> \in voted
      BY <1>3, <2>2 DEF VoteStep, AcceptAt
    <3>3. proposed' = proposed /\ voted \subseteq voted'
      BY <1>3 DEF VoteStep, AcceptAt
    <3> QED
      BY <1>0, <3>1, <3>2, <3>3
  <2> QED BY <2>1, <2>2
<1>4. ASSUME NEW p \in Callers, NEW v \in Values, BeginPropose(p, v)
      PROVE  AcceptedIsLastVote'
  BY <1>0, <1>4 DEF BeginPropose, acceptorVars
<1> QED
  <2> HIDE DEF AcceptedIsLastVote
  <2> QED BY <1>1, <1>2, <1>3, <1>4, StepKinds

(* Nobody proposed at the ballot of a caller whose prepare was granted. *)
LEMMA UniqueStep ==
  ASSUME IndInv, [Next]_vars
  PROVE  ProposalsUnique'
<1>0. /\ promised \in [Acceptors -> Ballots \union {NoBallot}]
      /\ promised' \in [Acceptors -> Ballots \union {NoBallot}]
      /\ ProposalsUnique
      /\ \A a \in Acceptors : promised[a] <= promised'[a]
  BY TypeStep, StepMonotone DEF IndInv, TypeOK
<1>1. ASSUME proposed' = proposed
      PROVE  ProposalsUnique'
  BY <1>0, <1>1, PaxosConstants DEF ProposalsUnique, Proposed, Ballots, NoBallot
<1>2. ASSUME NEW p \in Callers, NEW v \in Values, BeginPropose(p, v)
      PROVE  ProposalsUnique'
  <2>1. /\ pc[p] = "prepare"
        /\ granted[p] = Acceptors
        /\ proposed' = proposed \union {<<ballot[p], v>>}
        /\ promised' = promised
    BY <1>2 DEF BeginPropose, Majority, acceptorVars
  <2>2. 1 \in Acceptors
    BY PaxosConstants DEF Acceptors
  <2>3. /\ \A a \in Acceptors : ballot[p] <= promised[a]
        /\ \A w \in Values : ~Proposed(ballot[p], w)
    BY <2>1, <2>2 DEF IndInv, PromisesKept
  <2> QED
    BY <1>0, <2>1, <2>3 DEF ProposalsUnique, Proposed
<1>3. proposed' = proposed \/ \E p \in Callers, v \in Values : BeginPropose(p, v)
  BY StepKinds DEF QuietStep, PromiseStep, VoteStep
<1> QED
  BY <1>1, <1>2, <1>3

(* A vote is cast only for what some propose call offered at that ballot. *)
LEMMA VotesStep ==
  ASSUME IndInv, [Next]_vars
  PROVE  VotesAreForProposals'
<1>0. VotesAreForProposals
  BY DEF IndInv
<1>1. CASE QuietStep
  BY <1>0, <1>1 DEF QuietStep, VotesAreForProposals, Voted, Proposed
<1>2. ASSUME NEW a \in Acceptors, NEW b \in Ballots, PromiseStep(a, b)
      PROVE  VotesAreForProposals'
  BY <1>0, <1>2 DEF PromiseStep, VotesAreForProposals, Voted, Proposed
<1>3. ASSUME NEW a \in Acceptors, NEW b \in Ballots, NEW v \in Values,
             VoteStep(a, b, v)
      PROVE  VotesAreForProposals'
  BY <1>0, <1>3 DEF VoteStep, AcceptAt, VotesAreForProposals, Voted, Proposed
<1>4. ASSUME NEW p \in Callers, NEW v \in Values, BeginPropose(p, v)
      PROVE  VotesAreForProposals'
  BY <1>0, <1>4 DEF BeginPropose, acceptorVars, VotesAreForProposals, Voted, Proposed
<1> QED
  BY <1>1, <1>2, <1>3, <1>4, StepKinds

(***************************************************************************)
(* The heart of the argument.  Every acceptor is among the promises of a   *)
(* caller, and none votes below the caller's ballot after it promised.  So *)
(* an earlier proposal of another value has lost an acceptor's vote for    *)
(* good: that of the acceptor whose report was selected, or of any         *)
(* acceptor if none reported a value.                                      *)
(***************************************************************************)
LEMMA SafeStep ==
  ASSUME IndInv, [Next]_vars
  PROVE  ProposalsSafe'
<1>0. /\ promised \in [Acceptors -> Int]
      /\ promised' \in [Acceptors -> Int]
      /\ Ballots \subseteq Int
      /\ NoBallot \in Int
  BY TypeStep, PaxosConstants DEF IndInv, TypeOK, Ballots, NoBallot
<1>1. CASE proposed' = proposed
  <2> SUFFICES ASSUME NEW b \in Ballots, NEW c \in Ballots,
                      NEW v \in Values, NEW w \in Values,
                      Proposed(b, v), Proposed(c, w), b < c, v # w
               PROVE  \E a \in Acceptors : ~Voted(a, b)' /\ b < promised'[a]
    BY <1>1 DEF ProposalsSafe, Proposed
  <2>1. PICK a \in Acceptors : ~Voted(a, b) /\ b < promised[a]
    BY DEF IndInv, ProposalsSafe
  <2>2. promised[a] <= promised'[a] /\ (Voted(a, b)' => promised[a] <= b)
    BY <2>1, StepMonotone
  <2> QED
    BY <1>0, <2>1, <2>2
<1>2. ASSUME NEW p \in Callers, NEW z \in Values, BeginPropose(p, z)
      PROVE  ProposalsSafe'
  <2>1. /\ pc[p] = "prepare"
        /\ granted[p] = Acceptors
        /\ z \in ProposalValues(p)
        /\ proposed' = proposed \union {<<ballot[p], z>>}
        /\ promised' = promised
        /\ voted' = voted
    BY <1>2 DEF BeginPropose, Majority, acceptorVars
  <2>2. 1 \in Acceptors
    BY PaxosConstants DEF Acceptors
  <2>3. ballot[p] \in Ballots
    BY <2>1, CarriedTypes
  <2>4. \A a \in Acceptors :
          /\ ballot[p] <= promised[a]
          /\ seenBal[p][a] \in Int
          /\ seenBal[p][a] # NoBallot => /\ seenBal[p][a] \in Ballots
                                         /\ seenVal[p][a] \in Values
                                         /\ Proposed(seenBal[p][a], seenVal[p][a])
          /\ \A b \in Ballots : Voted(a, b) /\ b < ballot[p] => b <= seenBal[p][a]
          /\ \A v \in Values : ~Proposed(ballot[p], v)
    <3>1. \A a \in Acceptors : seenBal[p][a] \in Ballots \union {NoBallot}
      BY DEF IndInv, TypeOK
    <3>2. \A b, v : Proposed(b, v) => b \in Ballots /\ v \in Values
      BY DEF IndInv, TypeOK, Proposed
    <3> QED
      BY <1>0, <2>1, <3>1, <3>2 DEF IndInv, PromisesKept
  <2> SUFFICES ASSUME NEW b \in Ballots, NEW c \in Ballots,
                      NEW v \in Values, NEW w \in Values,
                      Proposed(b, v)', Proposed(c, w)', b < c, v # w
               PROVE  \E a \in Acceptors : ~Voted(a, b) /\ b < promised[a]
    BY <2>1 DEF ProposalsSafe, Voted
  <2>5. /\ Proposed(b, v) \/ (b = ballot[p] /\ v = z)
        /\ Proposed(c, w) \/ (c = ballot[p] /\ w = z)
    BY <2>1 DEF Proposed
  <2>6. CASE Proposed(b, v) /\ Proposed(c, w)
    BY <2>6 DEF IndInv, ProposalsSafe
  <2>7. CASE b = ballot[p] /\ Proposed(c, w)
    <3>1. ~Voted(1, b)
      BY <2>2, <2>4, <2>7 DEF IndInv, VotesAreForProposals
    <3>2. c <= promised[1]
      BY <2>2, <2>7 DEF IndInv, ProposalsUnique
    <3> QED
      BY <1>0, <2>2, <3>1, <3>2
  <2>8. CASE Proposed(b, v) /\ c = ballot[p] /\ w = z
    <3>1. ASSUME NEW a \in Acceptors, seenBal[p][a] < b
          PROVE  ~Voted(a, b) /\ b < promised[a]
      BY <1>0, <2>3, <2>4, <2>8, <3>1
    <3>2. CASE \A a \in Acceptors : seenBal[p][a] = NoBallot
      <4>1. seenBal[p][1] < b
        <5>1. seenBal[p][1] = NoBallot
          BY <2>2, <3>2
        <5>2. NoBallot < b
          BY PaxosConstants DEF NoBallot, Ballots
        <5> QED
          BY <5>1, <5>2
      <4> QED
        BY <2>2, <3>1, <4>1
    <3>3. CASE \E a \in Acceptors : seenBal[p][a] # NoBallot
      <4>1. PICK a \in Acceptors : /\ seenBal[p][a] # NoBallot
                                   /\ z = seenVal[p][a]
        BY <2>1, <3>3 DEF ProposalValues, SelectedProposals
      <4>2. Proposed(seenBal[p][a], w) /\ seenBal[p][a] \in Ballots
        BY <2>4, <2>8, <4>1
      <4>3. CASE seenBal[p][a] < b
        BY <3>1, <4>3
      <4>4. CASE seenBal[p][a] = b
        BY <2>8, <4>2, <4>4 DEF IndInv, ProposalsUnique
      <4>5. CASE b < seenBal[p][a]
        BY <2>8, <4>2, <4>5 DEF IndInv, ProposalsSafe
      <4>6. seenBal[p][a] < b \/ seenBal[p][a] = b \/ b < seenBal[p][a]
        <5>1. b \in Int /\ seenBal[p][a] \in Int
          BY <1>0, <4>2
        <5> QED
          BY <5>1
      <4> QED
        BY <4>3, <4>4, <4>5, <4>6
    <3> QED
      BY <3>2, <3>3
  <2>9. CASE b = ballot[p] /\ c = ballot[p]
    BY <1>0, <2>9
  <2> QED
    BY <2>5, <2>6, <2>7, <2>8, <2>9
<1>3. proposed' = proposed \/ \E p \in Callers, v \in Values : BeginPropose(p, v)
  BY StepKinds DEF QuietStep, PromiseStep, VoteStep
<1> QED
  BY <1>1, <1>2, <1>3

(* How the promises a caller holds can change. *)
LEMMA GrantSteps ==
  ASSUME IndInv, [Next]_vars, Remote = {}, NEW p \in Callers,
         pc'[p] = "prepare"
  PROVE  \/ granted'[p] = {}
         \/ /\ pc[p] = "prepare"
            /\ ballot'[p] = ballot[p]
            /\ granted'[p] = granted[p]
            /\ seenBal'[p] = seenBal[p]
            /\ seenVal'[p] = seenVal[p]
         \/ \E a \in Acceptors : PromiseBallot(p, a)
<1> DEFINE Same ==
      /\ pc[p] = "prepare"
      /\ ballot'[p] = ballot[p]
      /\ granted'[p] = granted[p]
      /\ seenBal'[p] = seenBal[p]
      /\ seenVal'[p] = seenVal[p]
<1>0. /\ pc \in [Callers -> {"idle", "lock", "prepare", "accept", "commit",
                             "read", "done"}]
      /\ ballot \in [Callers -> Ballots \union {0}]
      /\ granted \in [Callers -> SUBSET Acceptors]
      /\ seenBal \in [Callers -> [Acceptors -> Ballots \union {NoBallot}]]
      /\ seenVal \in [Callers -> [Acceptors -> Values \union {NoValue}]]
  BY DEF IndInv, TypeOK
<1>1. CASE UNCHANGED vars
  BY <1>1 DEF vars
<1>2. ASSUME NEW q \in Callers, Lock(q) PROVE granted'[p] = {} \/ Same
  BY <1>0, <1>2 DEF Lock
<1>3. ASSUME NEW q \in Callers, NEW a \in Acceptors, PromiseBallot(q, a)
      PROVE  PromiseBallot(p, a) \/ Same
  BY <1>0, <1>3 DEF PromiseBallot, callVars
<1>4. ASSUME NEW q \in Callers, NEW a \in Acceptors, RefuseBallot(q, a) PROVE Same
  BY <1>0, <1>4 DEF RefuseBallot, callVars
<1>5. ASSUME NEW q \in Callers, NEW v \in Values,
             BeginPropose(q, v) \/ Append(q, v)
      PROVE  Same
  BY <1>0, <1>5 DEF BeginPropose, Append, callVars, loopVars, ForgetAnswers
<1>6. ASSUME NEW q \in Callers, NEW a \in Acceptors,
             \/ TimeoutPrepare(q, a) \/ AcceptProposal(q, a)
             \/ RejectProposal(q, a) \/ Commit(q, a) \/ ReadUncommitted(q, a)
      PROVE  Same
  BY <1>0, <1>6 DEF TimeoutPrepare, AcceptProposal, RejectProposal, Commit,
                    ReadUncommitted, callVars, loopVars
<1>7. ASSUME NEW q \in Callers, NEW a \in Acceptors, ReadCommitted(q, a) PROVE Same
  BY <1>0, <1>7 DEF ReadCommitted, DestroyRegister, ForgetAnswers
<1>8. ASSUME NEW q \in Callers,
             Sync(q) \/ LockFailed(q) \/ BeginCommit(q) \/ BeginRead(q) \/ ReadNothing(q)
      PROVE  Same
  BY <1>0, <1>8 DEF Sync, LockFailed, BeginCommit, BeginRead, ReadNothing,
                    callVars, loopVars, ForgetAnswers
<1>9. ASSUME NEW q \in Callers, Abandon(q) PROVE Same
  BY <1>0, <1>9 DEF Abandon, DestroyRegister, ForgetAnswers
<1>10. ASSUME NEW m \in stray,
             StrayPrepare(m) \/ StrayAccept(m) \/ StrayCommit(m) \/ StrayLost(m)
       PROVE Same
  BY <1>10 DEF StrayPrepare, StrayAccept, StrayCommit, StrayLost, callVars, loopVars
<1> HIDE DEF Same
<1>11. granted'[p] = {} \/ Same \/ \E a \in Acceptors : PromiseBallot(p, a)
  BY <1>1, <1>2, <1>3, <1>4, <1>5, <1>6, <1>7, <1>8, <1>9, <1>10 DEF Next, Same
<1> QED
  BY <1>11 DEF Same

(***************************************************************************)
(* A promise given at a ballot excludes the same promise to anyone else,   *)
(* and what it reported remains the acceptor's last vote below the ballot. *)
(***************************************************************************)
LEMMA PromisesStep ==
  ASSUME IndInv, [Next]_vars, Remote = {}
  PROVE  PromisesKept'
<1> DEFINE Kept(p, a) ==
      /\ ballot[p] <= promised[a]
      /\ seenBal[p][a] < ballot[p]
      /\ seenBal[p][a] # NoBallot => Proposed(seenBal[p][a], seenVal[p][a])
      /\ \A b \in Ballots : Voted(a, b) /\ b < ballot[p] => b <= seenBal[p][a]
      /\ \A v \in Values : ~Proposed(ballot[p], v)
<1>0. /\ promised \in [Acceptors -> Int]
      /\ promised' \in [Acceptors -> Int]
      /\ ballot \in [Callers -> Int]
      /\ Ballots \subseteq Int
      /\ NoBallot \in Int
  BY TypeStep, PaxosConstants DEF IndInv, TypeOK, Ballots, NoBallot
<1>1. ASSUME NEW p \in Callers, pc[p] = "prepare", pc'[p] = "prepare",
             ballot'[p] = ballot[p], NEW a \in granted[p], a \in Acceptors,
             seenBal'[p][a] = seenBal[p][a], seenVal'[p][a] = seenVal[p][a],
             \A v \in Values : Proposed(ballot[p], v)' => Proposed(ballot[p], v)
      PROVE  Kept(p, a)'
  <2>1. Kept(p, a)
    BY <1>1 DEF IndInv, PromisesKept
  <2>2. ballot[p] <= promised'[a]
    BY <1>0, <1>1, <2>1, StepMonotone
  <2>3. \A b \in Ballots : Voted(a, b)' /\ b < ballot[p] => Voted(a, b)
    BY <1>0, <1>1, <2>1, StepMonotone
  <2>4. seenBal[p][a] # NoBallot => Proposed(seenBal[p][a], seenVal[p][a])'
    <3> SUFFICES ASSUME seenBal[p][a] # NoBallot
                 PROVE  Proposed(seenBal[p][a], seenVal[p][a])'
      OBVIOUS
    <3>1. Proposed(seenBal[p][a], seenVal[p][a])
      BY <2>1
    <3>2. seenBal[p][a] \in Ballots /\ seenVal[p][a] \in Values
      BY <3>1 DEF IndInv, TypeOK, Proposed
    <3>3. \A b \in Ballots, v \in Values : Proposed(b, v) => Proposed(b, v)'
      BY StepMonotone
    <3> QED
      BY <1>1, <3>1, <3>2, <3>3 DEF Proposed
  <2> QED
    BY <1>1, <2>1, <2>2, <2>3, <2>4
<1>2. ASSUME NEW p \in Callers, NEW a \in Acceptors, PromiseBallot(p, a)
      PROVE  /\ Kept(p, a)'
             /\ \A q \in Callers : pc[q] = "prepare" /\ ballot[q] = ballot[p]
                                     => a \notin granted[q]
  <2>1. /\ ballot[p] \in Ballots
        /\ promised[a] < ballot[p]
        /\ promised'[a] = ballot[p]
        /\ ballot'[p] = ballot[p]
        /\ seenBal'[p][a] = accBal[a]
        /\ seenVal'[p][a] = accVal[a]
        /\ voted' = voted
        /\ proposed' = proposed
    <3>1. ballot[p] \in Ballots
      BY <1>2, CarriedTypes DEF PromiseBallot
    <3> QED
      BY <1>0, <1>2, <3>1 DEF PromiseBallot, MayPromise, AnsweredBallot,
           AnsweredValue, callVars, IndInv, TypeOK
  <2>2. /\ accBal[a] \in Int
        /\ accBal[a] <= promised[a]
        /\ accBal[a] # NoBallot => Proposed(accBal[a], accVal[a])
        /\ \A b \in Ballots : Voted(a, b) => b <= accBal[a]
    BY <1>0 DEF IndInv, TypeOK, AcceptedIsLastVote
  <2>3. \A v \in Values : ~Proposed(ballot[p], v)
    BY <1>0, <2>1 DEF IndInv, ProposalsUnique
  <2>4. \A q \in Callers : pc[q] = "prepare" /\ ballot[q] = ballot[p]
                             => a \notin granted[q]
    BY <1>0, <2>1 DEF IndInv, PromisesKept
  <2> QED
    BY <1>0, <2>1, <2>2, <2>3, <2>4 DEF Voted, Proposed
<1>3. ASSUME NEW p \in Callers, pc'[p] = "prepare", NEW a \in granted'[p]
      PROVE  /\ Kept(p, a)'
             /\ \A q \in Callers :
                  q # p /\ pc'[q] = "prepare" /\ ballot'[q] = ballot'[p]
                    => a \notin granted'[q]
  <2>0. /\ a \in Acceptors
        /\ granted \in [Callers -> SUBSET Acceptors]
        /\ pc \in [Callers -> {"idle", "lock", "prepare", "accept", "commit",
                               "read", "done"}]
    BY <1>3, TypeStep DEF IndInv, TypeOK
  <2>1. ASSUME NEW q \in Callers, q # p, pc[p] = "prepare", a \in granted[p],
               pc[q] = "prepare", ballot[q] = ballot[p]
        PROVE  a \notin granted[q]
    BY <2>1 DEF IndInv, PromisesKept
  <2>2. CASE granted'[p] = {}
    BY <1>3, <2>2
  <2>3. CASE /\ pc[p] = "prepare"
             /\ ballot'[p] = ballot[p]
             /\ granted'[p] = granted[p]
             /\ seenBal'[p] = seenBal[p]
             /\ seenVal'[p] = seenVal[p]
    <3>1. a \in granted[p]
      BY <1>3, <2>3
    <3>2. ASSUME NEW v \in Values, Proposed(ballot[p], v)'
          PROVE  Proposed(ballot[p], v)
      <4>1. CASE proposed' = proposed
        BY <2>3, <3>2, <4>1 DEF Proposed
      <4>2. ASSUME NEW q \in Callers, NEW w \in Values, BeginPropose(q, w)
            PROVE  Proposed(ballot[p], v)
        <5>1. /\ pc[q] = "prepare" /\ pc'[q] = "accept"
              /\ granted[q] = Acceptors
              /\ proposed' = proposed \union {<<ballot[q], w>>}
          BY <2>0, <4>2 DEF BeginPropose, Majority
        <5>2. q # p
          BY <1>3, <5>1
        <5>3. ballot[q] # ballot[p]
          BY <2>0, <2>1, <2>3, <3>1, <5>1, <5>2
        <5> QED
          BY <2>3, <3>2, <5>1, <5>3 DEF Proposed
      <4>3. proposed' = proposed \/ \E q \in Callers, w \in Values : BeginPropose(q, w)
        BY StepKinds DEF QuietStep, PromiseStep, VoteStep
      <4> QED
        BY <4>1, <4>2, <4>3
    <3>3. Kept(p, a)'
      <4> HIDE DEF Kept
      <4> QED BY <1>1, <1>3, <2>0, <2>3, <3>1, <3>2
    <3>4. ASSUME NEW q \in Callers, q # p, pc'[q] = "prepare", ballot'[q] = ballot'[p]
          PROVE  a \notin granted'[q]
      <4>1. CASE granted'[q] = {}
        BY <4>1
      <4>2. CASE pc[q] = "prepare" /\ ballot'[q] = ballot[q] /\ granted'[q] = granted[q]
        BY <2>1, <2>3, <3>1, <3>4, <4>2
      <4>3. ASSUME NEW x \in Acceptors, PromiseBallot(q, x) PROVE a \notin granted'[q]
        <5>1. /\ pc[q] = "prepare" /\ ballot'[q] = ballot[q]
              /\ granted'[q] = granted[q] \union {x}
          BY <2>0, <4>3 DEF PromiseBallot, callVars
        <5>2. x \notin granted[p]
          BY <1>2, <2>3, <3>4, <4>3, <5>1
        <5>3. a \notin granted[q]
          BY <2>1, <2>3, <3>1, <3>4, <5>1
        <5> QED
          BY <3>1, <5>1, <5>2, <5>3
      <4> QED
        BY <3>4, <4>1, <4>2, <4>3, GrantSteps
    <3> QED
      BY <3>3, <3>4
  <2>4. ASSUME NEW x \in Acceptors, PromiseBallot(p, x)
        PROVE  /\ Kept(p, a)'
               /\ \A q \in Callers :
                    q # p /\ pc'[q] = "prepare" /\ ballot'[q] = ballot'[p]
                      => a \notin granted'[q]
    <3>1. /\ pc[p] = "prepare" /\ pc' = pc /\ ballot' = ballot
          /\ proposed' = proposed
          /\ granted'[p] = granted[p] \union {x}
          /\ \A q \in Callers : q # p => granted'[q] = granted[q]
      BY <2>0, <2>4 DEF PromiseBallot, callVars
    <3>2. CASE a = x
      <4> HIDE DEF Kept
      <4> QED BY <1>2, <2>4, <3>1, <3>2
    <3>3. CASE a # x
      <4>1. a \in granted[p]
        BY <1>3, <3>1, <3>3
      <4>2. seenBal'[p][a] = seenBal[p][a] /\ seenVal'[p][a] = seenVal[p][a]
        BY <2>0, <2>4, <3>3 DEF PromiseBallot, IndInv, TypeOK
      <4>3. \A v \in Values : Proposed(ballot[p], v)' => Proposed(ballot[p], v)
        BY <3>1 DEF Proposed
      <4>4. Kept(p, a)'
        <5> HIDE DEF Kept
        <5> QED BY <1>1, <1>3, <2>0, <3>1, <4>1, <4>2, <4>3
      <4> QED
        BY <2>1, <3>1, <4>1, <4>4
    <3> QED
      BY <3>2, <3>3
  <2> HIDE DEF Kept
  <2> QED
    BY <1>3, <2>2, <2>3, <2>4, GrantSteps
<1> QED
  BY <1>3 DEF PromisesKept

(* What every acceptor voted for stays so. *)
LEMMA ChosenStable ==
  ASSUME IndInv, [Next]_vars, NEW b \in Ballots, NEW v \in Values, Chosen(b, v)
  PROVE  Chosen(b, v)'
BY StepMonotone DEF Chosen

(* A caller carries what it proposed, through the loops of propose. *)
LEMMA CallerStep ==
  ASSUME IndInv, [Next]_vars, NEW p \in Callers
  PROVE  /\ pc'[p] = "prepare" => ballot'[p] \in Ballots
         /\ pc'[p] = "accept" => /\ Proposed(ballot[p], value[p])'
                                 /\ \A a \in oks'[p] : Voted(a, ballot[p])'
         /\ pc'[p] = "commit" => Chosen(ballot[p], value[p])'
<1> DEFINE OK ==
      /\ pc'[p] = "prepare" => ballot'[p] \in Ballots
      /\ pc'[p] = "accept" => /\ Proposed(ballot[p], value[p])'
                              /\ \A a \in oks'[p] : Voted(a, ballot[p])'
      /\ pc'[p] = "commit" => Chosen(ballot[p], value[p])'
<1> DEFINE Frame ==
      /\ pc'[p] = pc[p] /\ ballot'[p] = ballot[p]
      /\ value'[p] = value[p] /\ oks'[p] = oks[p]
<1> DEFINE Ends == pc'[p] \in {"idle", "lock", "read", "done"}
<1>0. /\ pc \in [Callers -> {"idle", "lock", "prepare", "accept", "commit",
                             "read", "done"}]
      /\ ballot \in [Callers -> Ballots \union {0}]
      /\ value \in [Callers -> Values \union {NoValue}]
      /\ oks \in [Callers -> SUBSET Acceptors]
      /\ TypeOK
  BY DEF IndInv, TypeOK
<1>1. /\ pc[p] = "prepare" => ballot[p] \in Ballots
      /\ pc[p] = "accept" => /\ Proposed(ballot[p], value[p])
                             /\ \A a \in oks[p] : Voted(a, ballot[p])
      /\ pc[p] = "commit" => Chosen(ballot[p], value[p])
  BY DEF IndInv, CallsCarryProposals
<1>2. pc[p] \in {"accept", "commit"} => ballot[p] \in Ballots /\ value[p] \in Values
  BY CarriedTypes
<1>3. CASE Frame
  <2>1. CASE pc[p] = "accept"
    <3>1. Proposed(ballot[p], value[p])'
      BY <1>1, <1>2, <1>3, <2>1, StepMonotone DEF Proposed
    <3>2. ASSUME NEW a \in oks[p] PROVE <<a, ballot[p]>> \in voted'
      <4>1. a \in Acceptors /\ Voted(a, ballot[p])
        BY <1>0, <1>1, <2>1
      <4> QED
        BY <1>2, <2>1, <4>1, StepMonotone DEF Voted
    <3> QED
      BY <1>3, <2>1, <3>1, <3>2 DEF Voted
  <2>2. CASE pc[p] = "commit"
    <3>1. Chosen(ballot[p], value[p])
      BY <1>1, <2>2
    <3>2. <<ballot[p], value[p]>> \in proposed' /\ \A a \in Acceptors : <<a, ballot[p]>> \in voted'
      BY <1>2, <2>2, <3>1, StepMonotone DEF Chosen, Proposed, Voted
    <3> QED
      BY <1>3, <2>2, <3>2 DEF Chosen, Proposed, Voted
  <2> QED
    BY <1>1, <1>3, <2>1, <2>2
<1>4. CASE Ends
  BY <1>4
<1>5. ASSUME NEW q \in Callers, Lock(q) PROVE OK
  <2>1. CASE q = p
    BY <1>0, <1>5, <2>1, NextBallot DEF Lock
  <2>2. CASE q # p
    BY <1>0, <1>3, <1>5, <2>2 DEF Lock
  <2> QED BY <2>1, <2>2
<1>6. ASSUME NEW q \in Callers, NEW v \in Values, BeginPropose(q, v) PROVE OK
  <2>1. CASE q = p
    BY <1>0, <1>6, <2>1 DEF BeginPropose, callVars, Proposed
  <2>2. CASE q # p
    BY <1>0, <1>3, <1>6, <2>2 DEF BeginPropose, callVars
  <2> QED BY <2>1, <2>2
<1>7. ASSUME NEW q \in Callers, NEW a \in Acceptors, AcceptProposal(q, a) PROVE OK
  <2>1. CASE q = p
    <3>1. /\ pc'[p] = "accept" /\ ballot'[p] = ballot[p] /\ value'[p] = value[p]
          /\ pc[p] = "accept" /\ oks'[p] = oks[p] \union {a}
          /\ proposed' = proposed /\ voted' = voted \union {<<a, ballot[p]>>}
      BY <1>0, <1>7, <2>1 DEF AcceptProposal, AcceptAt, callVars
    <3> QED
      BY <1>1, <3>1 DEF Proposed, Voted
  <2>2. CASE q # p
    BY <1>0, <1>3, <1>7, <2>2 DEF AcceptProposal, callVars
  <2> QED BY <2>1, <2>2
<1>8. ASSUME NEW q \in Callers, BeginCommit(q) PROVE OK
  <2>1. CASE q = p
    <3>1. /\ pc'[p] = "commit" /\ ballot'[p] = ballot[p] /\ value'[p] = value[p]
          /\ pc[p] = "accept" /\ oks[p] = Acceptors
          /\ proposed' = proposed /\ voted' = voted
      BY <1>0, <1>8, <2>1 DEF BeginCommit, callVars, acceptorVars, Majority
    <3> QED
      BY <1>1, <3>1 DEF Proposed, Voted, Chosen
  <2>2. CASE q # p
    BY <1>0, <1>3, <1>8, <2>2 DEF BeginCommit, callVars
  <2> QED BY <2>1, <2>2
<1>9. ASSUME NEW q \in Callers,
             \/ \E v \in Values : Append(q, v)
             \/ Sync(q) \/ LockFailed(q) \/ BeginRead(q) \/ ReadNothing(q)
      PROVE  Frame \/ Ends
  BY <1>0, <1>9 DEF Append, Sync, LockFailed, BeginRead, ReadNothing, callVars,
                    loopVars
<1>10. ASSUME NEW q \in Callers,
              Abandon(q) \/ \E a \in Acceptors : ReadCommitted(q, a)
       PROVE  Frame \/ Ends
  BY <1>0, <1>10 DEF Abandon, ReadCommitted, DestroyRegister
<1>11. ASSUME NEW q \in Callers, NEW a \in Acceptors,
              \/ PromiseBallot(q, a) \/ RefuseBallot(q, a) \/ TimeoutPrepare(q, a)
              \/ RejectProposal(q, a) \/ Commit(q, a) \/ ReadUncommitted(q, a)
       PROVE  Frame
  BY <1>11 DEF PromiseBallot, RefuseBallot, TimeoutPrepare, RejectProposal,
       Commit, ReadUncommitted, callVars, loopVars
<1>12. ASSUME NEW m \in stray,
              StrayPrepare(m) \/ StrayAccept(m) \/ StrayCommit(m) \/ StrayLost(m)
       PROVE  Frame
  BY <1>12 DEF StrayPrepare, StrayAccept, StrayCommit, StrayLost, callVars, loopVars
<1>13. CASE UNCHANGED vars
  BY <1>3, <1>13 DEF vars
<1> HIDE DEF OK, Frame, Ends
<1>14. Frame \/ Ends \/ OK
  BY <1>5, <1>6, <1>7, <1>8, <1>9, <1>10, <1>11, <1>12, <1>13 DEF Next, OK
<1>15. OK
  BY <1>3, <1>4, <1>14 DEF OK
<1> QED
  BY <1>15 DEF OK

(* Callers in the loops of propose, and the requests they leave behind when
   they give up, carry a proposal or a chosen value. *)
LEMMA CarryStep ==
  ASSUME IndInv, [Next]_vars
  PROVE  CallsCarryProposals'
<1> DEFINE Good(m) ==
      /\ m.type = "accept" => Proposed(m.bal, m.val)
      /\ m.type = "commit" => \E v \in Values : Chosen(m.bal, v)
<1>1. ASSUME NEW m \in stray PROVE Good(m)'
  <2>1. Good(m)
    BY DEF IndInv, CallsCarryProposals
  <2>2. CASE m.type = "accept"
    <3>1. m.bal \in Ballots /\ m.val \in Values
      BY <2>1, <2>2 DEF IndInv, TypeOK, Proposed
    <3> QED
      BY <2>1, <2>2, <3>1, StepMonotone
  <2>3. CASE m.type = "commit"
    <3>1. PICK v \in Values : Chosen(m.bal, v)
      BY <2>1, <2>3
    <3>2. m.bal \in Ballots
      BY DEF IndInv, TypeOK
    <3>3. Chosen(m.bal, v)'
      BY <3>1, <3>2, ChosenStable
    <3> QED
      BY <2>3, <3>3
  <2> QED
    BY <2>2, <2>3
<1>2. ASSUME NEW p \in Callers, NEW S, LeaveStray(p, S), NEW m \in stray',
             UNCHANGED <<proposed, voted>>
      PROVE  Good(m)'
  <2>1. CASE m \in stray
    BY <1>1, <2>1
  <2>2. ASSUME NEW a \in S, m = Request(p, a) PROVE Good(m)'
    <3>1. m.type = pc[p] /\ m.bal = ballot[p]
      BY <2>2 DEF Request
    <3>2. CASE pc[p] = "accept"
      <4>1. m.val = value[p]
        BY <2>2, <3>2 DEF Request
      <4>2. Proposed(ballot[p], value[p])
        BY <3>2 DEF IndInv, CallsCarryProposals
      <4> QED
        BY <1>2, <3>1, <3>2, <4>1, <4>2 DEF Proposed
    <3>3. CASE pc[p] = "commit"
      <4>1. Chosen(ballot[p], value[p]) /\ value[p] \in Values
        BY <3>3, CarriedTypes DEF IndInv, CallsCarryProposals
      <4> QED
        BY <1>2, <3>1, <3>3, <4>1 DEF Chosen, Proposed, Voted
    <3> QED
      BY <3>1, <3>2, <3>3
  <2> QED
    BY <1>2, <2>1, <2>2 DEF LeaveStray
<1>3. ASSUME NEW m \in stray' PROVE Good(m)'
  <2> HIDE DEF Good
  <2>1. CASE stray' \subseteq stray
    BY <1>1, <1>3, <2>1
  <2>2. ASSUME NEW p \in Callers, NEW a \in Acceptors, TimeoutPrepare(p, a)
        PROVE  Good(m)'
    BY <1>2, <1>3, <2>2 DEF TimeoutPrepare, acceptorVars
  <2>3. ASSUME NEW p \in Callers, Abandon(p) PROVE Good(m)'
    BY <1>2, <1>3, <2>3 DEF Abandon, acceptorVars
  <2>4. \/ stray' \subseteq stray
        \/ \E p \in Callers, a \in Acceptors : TimeoutPrepare(p, a)
        \/ \E p \in Callers : Abandon(p)
    BY DEF Next, vars, Append, Sync, Lock, PromiseBallot, RefuseBallot,
       BeginPropose, LockFailed, AcceptProposal, RejectProposal, BeginCommit,
       Commit, BeginRead, ReadCommitted, ReadUncommitted, ReadNothing,
       StrayPrepare, StrayAccept, StrayCommit, StrayLost
  <2> QED
    BY <2>1, <2>2, <2>3, <2>4
<1> QED
  BY <1>3, CallerStep DEF CallsCarryProposals

(* A commit follows the votes of all acceptors, and accVal of an acceptor is
   then the value voted for, whatever it accepted later. *)
LEMMA AcceptedAfterChosen ==
  ASSUME IndInv, NEW b \in Ballots, NEW v \in Values, Chosen(b, v),
         NEW a \in Acceptors
  PROVE  accVal[a] = v
<1>1. /\ accBal[a] \in Ballots \union {NoBallot} /\ b <= accBal[a]
      /\ Ballots \subseteq Int /\ NoBallot \in Int
  BY PaxosConstants DEF IndInv, TypeOK, Chosen, AcceptedIsLastVote, Ballots, NoBallot
<1>2. accBal[a] \in Ballots /\ accBal[a] # NoBallot
  BY <1>1, PaxosConstants DEF Ballots, NoBallot
<1>3. Proposed(accBal[a], accVal[a]) /\ accVal[a] \in Values
  BY <1>2 DEF IndInv, AcceptedIsLastVote, Proposed, TypeOK
<1>4. CASE b = accBal[a]
  BY <1>3, <1>4 DEF IndInv, ProposalsUnique, Chosen
<1>5. CASE b < accBal[a]
  BY <1>2, <1>3, <1>5 DEF IndInv, ProposalsSafe, Chosen
<1> QED
  BY <1>1, <1>2, <1>4, <1>5

(* A commit, prompt or late, and a read that found a commit, are of a value
   that every acceptor voted for. *)
LEMMA CommitStep ==
  ASSUME IndInv, [Next]_vars
  PROVE  CommittedIsChosen'
<1>0. /\ committed \in [Acceptors -> BOOLEAN]
      /\ got \in [Callers -> Values \union {NoValue}]
      /\ CommittedIsChosen
  BY DEF IndInv, TypeOK
<1>1. ASSUME \E b \in Ballots, v \in Values : Chosen(b, v)
      PROVE  \E b \in Ballots, v \in Values : Chosen(b, v)'
  BY <1>1, ChosenStable
<1>2. ASSUME NEW a \in Acceptors, committed'[a]
      PROVE  \E b \in Ballots, v \in Values : Chosen(b, v)
  <2>1. CASE committed[a]
    BY <1>0, <2>1 DEF CommittedIsChosen
  <2>2. ASSUME NEW p \in Callers, NEW x \in Acceptors, Commit(p, x)
        PROVE  \E b \in Ballots, v \in Values : Chosen(b, v)
    BY <2>2, CarriedTypes DEF Commit, IndInv, CallsCarryProposals
  <2>3. ASSUME NEW m \in stray, StrayCommit(m)
        PROVE  \E b \in Ballots, v \in Values : Chosen(b, v)
    BY <2>3 DEF StrayCommit, IndInv, CallsCarryProposals, TypeOK
  <2>4. \/ committed' = committed
        \/ \E p \in Callers, x \in Acceptors : Commit(p, x)
        \/ \E m \in stray : StrayCommit(m)
    BY DEF Next, vars, acceptorVars, Append, Sync, Lock, PromiseBallot,
       RefuseBallot, TimeoutPrepare, BeginPropose, LockFailed, AcceptProposal,
       RejectProposal, BeginCommit, BeginRead, ReadCommitted, ReadUncommitted,
       ReadNothing, Abandon, StrayPrepare, StrayAccept, StrayLost
  <2> QED
    BY <1>2, <2>1, <2>2, <2>3, <2>4
<1>3. ASSUME NEW p \in Callers, got'[p] # NoValue
      PROVE  \E b \in Ballots : Chosen(b, got[p])'
  <2>1. CASE got'[p] = got[p]
    <3>1. PICK b \in Ballots : Chosen(b, got[p])
      BY <1>0, <1>3, <2>1 DEF CommittedIsChosen
    <3>2. got[p] \in Values
      BY <1>0, <1>3, <2>1
    <3> QED
      BY <2>1, <3>1, <3>2, StepMonotone DEF Chosen, Proposed, Voted
  <2>2. ASSUME NEW a \in Acceptors, ReadCommitted(p, a)
        PROVE  \E b \in Ballots : Chosen(b, got[p])'
    <3>1. /\ committed[a] /\ got'[p] = accVal[a]
          /\ proposed' = proposed /\ voted' = voted
      BY <1>0, <2>2 DEF ReadCommitted, acceptorVars
    <3>2. PICK b \in Ballots, v \in Values : Chosen(b, v)
      BY <1>0, <3>1 DEF CommittedIsChosen
    <3>3. accVal[a] = v
      BY <3>2, AcceptedAfterChosen
    <3> QED
      BY <3>1, <3>2, <3>3 DEF Chosen, Proposed, Voted
  <2>3. got'[p] = got[p] \/ got'[p] = NoValue \/ \E a \in Acceptors : ReadCommitted(p, a)
    <3>1. ASSUME NEW q \in Callers, NEW a \in Acceptors, ReadCommitted(q, a)
          PROVE  got'[p] = got[p] \/ ReadCommitted(p, a)
      BY <1>0, <3>1 DEF ReadCommitted
    <3>2. ASSUME NEW q \in Callers, Sync(q) \/ \E v \in Values : Append(q, v)
          PROVE  got'[p] = got[p] \/ got'[p] = NoValue
      BY <1>0, <3>2 DEF Sync, Append
    <3>3. \/ got' = got
          \/ \E q \in Callers, a \in Acceptors : ReadCommitted(q, a)
          \/ \E q \in Callers : Sync(q) \/ \E v \in Values : Append(q, v)
      BY DEF Next, vars, callVars, Lock, PromiseBallot, RefuseBallot,
         TimeoutPrepare, BeginPropose, LockFailed, AcceptProposal,
         RejectProposal, BeginCommit, Commit, BeginRead, ReadUncommitted,
         ReadNothing, Abandon, StrayPrepare, StrayAccept, StrayCommit, StrayLost
    <3> QED
      BY <3>1, <3>2, <3>3
  <2> QED
    BY <1>3, <2>1, <2>2, <2>3
<1> QED
  BY <1>1, <1>2, <1>3 DEF CommittedIsChosen
-----------------------------------------------------------------------------
(* The invariant holds before the first call. *)
LEMMA IndInvInit ==
  ASSUME Init
  PROVE  IndInv
<1>1. TypeOK
  BY PaxosConstants DEF Init, TypeOK, NoBallot
<1>2. /\ AcceptedIsLastVote /\ VotesAreForProposals /\ ProposalsUnique
      /\ ProposalsSafe
  BY DEF Init, AcceptedIsLastVote, VotesAreForProposals, ProposalsUnique,
         ProposalsSafe, Proposed, Voted, NoBallot
<1>3. PromisesKept /\ CallsCarryProposals /\ CommittedIsChosen
  BY DEF Init, PromisesKept, CallsCarryProposals, CommittedIsChosen
<1> QED
  BY <1>1, <1>2, <1>3 DEF IndInv

(* Every action preserves the invariant: its parts are the lemmas above. *)
LEMMA IndInvStep ==
  ASSUME IndInv, [Next]_vars, Remote = {}
  PROVE  IndInv'
BY TypeStep, LastVoteStep, VotesStep, UniqueStep, SafeStep, PromisesStep,
   CarryStep, CommitStep DEF IndInv

(* The invariant holds in every state, for callers that reach the acceptors
   directly. *)
THEOREM IndInvHolds ==
  ASSUME Remote = {}
  PROVE  Spec => []IndInv
<1>1. Init => IndInv
  BY IndInvInit
<1>2. IndInv /\ [Next]_vars => IndInv'
  BY IndInvStep
<1> QED
  BY <1>1, <1>2, PTL DEF Spec

(* Every variable keeps to its type, the ballot of a late request included. *)
THEOREM TypeCorrect ==
  ASSUME Remote = {}
  PROVE  Spec => []TypeOK
<1>1. IndInv => TypeOK
  BY DEF IndInv
<1> QED
  BY <1>1, IndInvHolds, PTL

(* Two chosen values are equal, so committed acceptors and reads agree. *)
LEMMA InvAgreement ==
  ASSUME IndInv
  PROVE  Agreement
<1>1. ASSUME NEW a \in Acceptors, NEW x \in Acceptors, committed[a], committed[x]
      PROVE  accVal[a] = accVal[x]
  <2>1. PICK b \in Ballots, v \in Values : Chosen(b, v)
    BY <1>1 DEF IndInv, CommittedIsChosen
  <2> QED
    BY <2>1, AcceptedAfterChosen
<1>2. ASSUME NEW p \in Callers, NEW a \in Acceptors, got[p] # NoValue
      PROVE  accVal[a] = got[p]
  <2>1. PICK b \in Ballots : Chosen(b, got[p])
    BY <1>2 DEF IndInv, CommittedIsChosen
  <2>2. got[p] \in Values
    BY <1>2 DEF IndInv, TypeOK
  <2> QED
    BY <2>1, <2>2, AcceptedAfterChosen
<1> QED
  BY <1>1, <1>2 DEF Agreement

(* All acceptors that committed, and all reads, agree on one value. *)
THEOREM AgreementHolds ==
  ASSUME Remote = {}
  PROVE  Spec => []Agreement
<1>1. IndInv => Agreement
  BY InvAgreement
<1> QED
  BY <1>1, IndInvHolds, PTL

-----------------------------------------------------------------------------
(* Once a value is chosen, a step leaves it with every acceptor. *)
LEMMA ChosenValueStep ==
  ASSUME IndInv, [Next]_vars, NEW b \in Ballots, NEW v \in Values, Chosen(b, v),
         NEW a \in Acceptors
  PROVE  accVal[a] = v /\ accVal'[a] = v
<1>1. accVal[a] = v
  BY AcceptedAfterChosen
<1>2. CASE accVal' = accVal
  BY <1>1, <1>2
<1>3. ASSUME NEW x \in Acceptors, NEW c \in Ballots, NEW w \in Values, VoteStep(x, c, w)
      PROVE  accVal'[a] = v
  <2>0. /\ accVal \in [Acceptors -> Values \union {NoValue}]
        /\ promised \in [Acceptors -> Int] /\ accBal \in [Acceptors -> Int]
        /\ Ballots \subseteq Int
    BY PaxosConstants DEF IndInv, TypeOK, Ballots, NoBallot
  <2>1. CASE x # a
    BY <1>1, <1>3, <2>0, <2>1 DEF VoteStep, AcceptAt
  <2>2. CASE x = a
    <3>1. accVal'[a] = w /\ Proposed(c, w) /\ promised[a] <= c
      BY <1>3, <2>0, <2>2 DEF VoteStep, AcceptAt
    <3>2. b <= accBal[a] /\ accBal[a] <= promised[a]
      BY DEF IndInv, AcceptedIsLastVote, Chosen
    <3>3. b = c \/ b < c
      BY <2>0, <3>1, <3>2
    <3>4. CASE b = c
      BY <3>1, <3>4 DEF IndInv, ProposalsUnique, Chosen
    <3>5. CASE b < c
      <4>1. \A y \in Acceptors : Voted(y, b)
        BY DEF Chosen
      <4> QED
        BY <3>1, <3>5, <4>1 DEF IndInv, ProposalsSafe, Chosen
    <3> QED
      BY <3>3, <3>4, <3>5
  <2> QED
    BY <2>1, <2>2
<1>4. accVal' = accVal \/ \E x \in Acceptors, c \in Ballots, w \in Values : VoteStep(x, c, w)
  BY StepKinds DEF QuietStep, PromiseStep, BeginPropose, acceptorVars
<1> QED
  BY <1>1, <1>2, <1>3, <1>4

(* How the commit flags and the results of reads can change. *)
LEMMA RegisterSteps ==
  ASSUME IndInv, [Next]_vars
  PROVE  \/ UNCHANGED <<committed, got>>
         \/ /\ \E a \in Acceptors : committed' = [committed EXCEPT ![a] = TRUE]
            /\ \E b \in Ballots, v \in Values : Chosen(b, v)
            /\ UNCHANGED got
         \/ /\ \E p \in Callers : got' = [got EXCEPT ![p] = NoValue]
            /\ UNCHANGED committed
         \/ /\ \E p \in Callers, a \in Acceptors :
                 committed[a] /\ got' = [got EXCEPT ![p] = accVal[a]]
            /\ UNCHANGED committed
<1>1. ASSUME NEW p \in Callers, NEW a \in Acceptors, Commit(p, a)
      PROVE  /\ committed' = [committed EXCEPT ![a] = TRUE]
             /\ \E b \in Ballots, v \in Values : Chosen(b, v)
             /\ UNCHANGED got
  BY <1>1, CarriedTypes DEF Commit, IndInv, CallsCarryProposals
<1>2. ASSUME NEW m \in stray, StrayCommit(m)
      PROVE  /\ m.acc \in Acceptors
             /\ committed' = [committed EXCEPT ![m.acc] = TRUE]
             /\ \E b \in Ballots, v \in Values : Chosen(b, v)
             /\ UNCHANGED got
  BY <1>2 DEF StrayCommit, callVars, IndInv, CallsCarryProposals, TypeOK
<1>3. ASSUME NEW p \in Callers, Sync(p) \/ \E v \in Values : Append(p, v)
      PROVE  got' = [got EXCEPT ![p] = NoValue] /\ UNCHANGED committed
  BY <1>3 DEF Sync, Append, acceptorVars
<1>4. ASSUME NEW p \in Callers, NEW a \in Acceptors, ReadCommitted(p, a)
      PROVE  committed[a] /\ got' = [got EXCEPT ![p] = accVal[a]] /\ UNCHANGED committed
  BY <1>4 DEF ReadCommitted, acceptorVars
<1>5. \/ UNCHANGED <<committed, got>>
      \/ \E p \in Callers, a \in Acceptors : Commit(p, a)
      \/ \E m \in stray : StrayCommit(m)
      \/ \E p \in Callers : Sync(p) \/ \E v \in Values : Append(p, v)
      \/ \E p \in Callers, a \in Acceptors : ReadCommitted(p, a)
  BY DEF Next, vars, callVars, acceptorVars, Lock, PromiseBallot,
     RefuseBallot, TimeoutPrepare, BeginPropose, LockFailed, AcceptProposal,
     RejectProposal, BeginCommit, BeginRead, ReadUncommitted, ReadNothing,
     Abandon, StrayPrepare, StrayAccept, StrayLost
<1> QED
  BY <1>1, <1>2, <1>3, <1>4, <1>5

(* A committed value is never replaced by a later proposal. *)
THEOREM CommittedStableHolds ==
  ASSUME Remote = {}
  PROVE  Spec => CommittedStable
<1>1. ASSUME IndInv, [Next]_vars, NEW a \in Acceptors, committed[a]
      PROVE  committed'[a] /\ accVal'[a] = accVal[a]
  <2>1. committed \in [Acceptors -> BOOLEAN]
    BY <1>1 DEF IndInv, TypeOK
  <2>2. committed'[a]
    BY <1>1, <2>1, RegisterSteps
  <2>3. PICK b \in Ballots, v \in Values : Chosen(b, v)
    BY <1>1 DEF IndInv, CommittedIsChosen
  <2>4. accVal'[a] = accVal[a]
    BY <1>1, <2>3, ChosenValueStep
  <2> QED
    BY <2>2, <2>4
<1>2. IndInv /\ [Next]_vars =>
        [\A a \in Acceptors : committed[a] => committed'[a] /\ accVal'[a] = accVal[a]]_vars
  BY <1>1
<1> QED
  BY <1>2, IndInvHolds, PTL DEF Spec, CommittedStable

(* The register as its users see it, in a state where some acceptor has
   committed, before and after a step. *)
LEMMA CommittedValueStep ==
  ASSUME IndInv, [Next]_vars
  PROVE  /\ \A a \in Acceptors : committed[a] => CommittedValue = accVal[a]
         /\ (\A a \in Acceptors : ~committed[a]) => CommittedValue = NoValue
         /\ \A b \in Ballots, v \in Values :
              Chosen(b, v) /\ (\E a \in Acceptors : committed'[a])
                => CommittedValue' = v
         /\ (\A a \in Acceptors : ~committed'[a]) => CommittedValue' = NoValue
<1>1. ASSUME NEW a \in Acceptors, committed[a] PROVE CommittedValue = accVal[a]
  <2>1. committed[CHOOSE x \in Acceptors : committed[x]]
        /\ (CHOOSE x \in Acceptors : committed[x]) \in Acceptors
    BY <1>1
  <2>2. CommittedValue = accVal[CHOOSE x \in Acceptors : committed[x]]
    BY <1>1 DEF CommittedValue
  <2> QED
    BY <1>1, <2>1, <2>2, InvAgreement DEF Agreement
<1>2. ASSUME \A a \in Acceptors : ~committed[a] PROVE CommittedValue = NoValue
  BY <1>2 DEF CommittedValue
<1>3. ASSUME NEW b \in Ballots, NEW v \in Values, Chosen(b, v),
             NEW a \in Acceptors, committed'[a]
      PROVE  CommittedValue' = v
  <2>1. (CHOOSE x \in Acceptors : committed'[x]) \in Acceptors
    BY <1>3
  <2>2. CommittedValue' = accVal'[CHOOSE x \in Acceptors : committed'[x]]
    BY <1>3 DEF CommittedValue
  <2> QED
    BY <1>3, <2>1, <2>2, ChosenValueStep
<1>4. ASSUME \A a \in Acceptors : ~committed'[a] PROVE CommittedValue' = NoValue
  BY <1>4 DEF CommittedValue
<1> QED
  BY <1>1, <1>2, <1>3, <1>4

(* The Paxos register implements the write once register: the first commit
   at any acceptor is the write, and every read returns what was written. *)
THEOREM RegisterImplemented ==
  ASSUME Remote = {}
  PROVE  Spec => ImplementsRegister
<1>1. Init => Abstract!Init
  <2> SUFFICES ASSUME Init PROVE Abstract!Init
    OBVIOUS
  <2>1. CommittedValue = NoValue
    BY DEF Init, CommittedValue
  <2> QED
    BY <2>1 DEF Init, Abstract!Init
<1>2. IndInv /\ [Next]_vars => [Abstract!Next]_(Abstract!vars)
  <2> SUFFICES ASSUME IndInv, [Next]_vars
               PROVE  [Abstract!Next]_(Abstract!vars)
    OBVIOUS
  <2>0. committed \in [Acceptors -> BOOLEAN]
    BY DEF IndInv, TypeOK
  <2>1. ASSUME NEW a \in Acceptors, committed[a]
        PROVE  /\ CommittedValue \in Values
               /\ CommittedValue = accVal[a]
               /\ (\E x \in Acceptors : committed'[x]) => CommittedValue' = CommittedValue
    <3>1. PICK b \in Ballots, v \in Values : Chosen(b, v)
      BY <2>1 DEF IndInv, CommittedIsChosen
    <3> QED
      BY <2>1, <3>1, CommittedValueStep, ChosenValueStep
  <2>2. ASSUME UNCHANGED committed PROVE CommittedValue' = CommittedValue
    <3>1. CASE \E a \in Acceptors : committed[a]
      BY <2>1, <2>2, <3>1
    <3>2. CASE \A a \in Acceptors : ~committed[a]
      BY <2>2, <3>2, CommittedValueStep
    <3> QED
      BY <3>1, <3>2
  <2>3. CASE UNCHANGED <<committed, got>>
    BY <2>2, <2>3 DEF Abstract!vars
  <2>4. ASSUME NEW a \in Acceptors, committed' = [committed EXCEPT ![a] = TRUE],
               NEW b \in Ballots, NEW v \in Values, Chosen(b, v), UNCHANGED got
        PROVE  [Abstract!Next]_(Abstract!vars)
    <3>1. committed'[a]
      BY <2>0, <2>4
    <3>2. CASE \E x \in Acceptors : committed[x]
      BY <2>1, <2>4, <3>1, <3>2 DEF Abstract!vars
    <3>3. CASE \A x \in Acceptors : ~committed[x]
      <4>1. CommittedValue = NoValue /\ CommittedValue' = v
        BY <2>4, <3>1, <3>3, CommittedValueStep
      <4> QED
        BY <2>4, <4>1 DEF Abstract!Next, Abstract!Write
    <3> QED
      BY <3>2, <3>3
  <2>5. ASSUME NEW p \in Callers, got' = [got EXCEPT ![p] = NoValue], UNCHANGED committed
        PROVE  [Abstract!Next]_(Abstract!vars)
    BY <2>2, <2>5 DEF Abstract!Next, Abstract!Renew
  <2>6. ASSUME NEW p \in Callers, NEW a \in Acceptors, committed[a],
               got' = [got EXCEPT ![p] = accVal[a]], UNCHANGED committed
        PROVE  [Abstract!Next]_(Abstract!vars)
    <3>1. CommittedValue = accVal[a] /\ CommittedValue # NoValue
      BY <2>1, <2>6, PaxosConstants
    <3> QED
      BY <2>2, <2>6, <3>1 DEF Abstract!Next, Abstract!Read
  <2> QED
    BY <2>3, <2>4, <2>5, <2>6, RegisterSteps
<1> QED
  BY <1>1, <1>2, IndInvHolds, PTL DEF Spec, ImplementsRegister, Abstract!Spec
=============================================================================
