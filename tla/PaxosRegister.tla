---------------------------- MODULE PaxosRegister ----------------------------
(***************************************************************************)
(* One write once register of the configuration chain, kept by single      *)
(* decree Paxos: the acceptors (wor/paxos/LocalAcceptor.cc, reached        *)
(* directly or through wor/paxos/client/AcceptorClient.h), the proposer    *)
(* (ProposerImpl.h), the register (PaxosWriteOnceRegister.h) and the calls *)
(* that use it (statemachine/MetadataStoreStateMachine.h: append and sync).*)
(*                                                                         *)
(* Every call makes its own register object, so its ballots start again    *)
(* from 1.  The register id is the same for all, so the major part of a    *)
(* ballot is left out.  A request whose caller timed out, threw or crashed *)
(* may still reach its acceptor, later or never.                           *)
(***************************************************************************)
EXTENDS Integers, FiniteSets

CONSTANTS N,          \* number of acceptors: 1 .. N, in configuration order
          Callers,    \* append and sync calls, on any node
          Values,     \* payloads
          NoValue,
          Remote,     \* <<caller, acceptor>>: reached through AcceptorClient
          MaxBallot,  \* bound: lock ids of one register object
          MaxStray    \* bound: requests under way without a caller

Acceptors == 1 .. N
Ballots   == 1 .. MaxBallot
NoBallot  == -1

ASSUME PaxosConstants ==
  /\ N \in Nat \ {0}
  /\ MaxBallot \in Nat
  /\ MaxStray \in Nat
  /\ NoValue \notin Values
  /\ Remote \subseteq Callers \X Acceptors

VARIABLES
  promised,   \* per acceptor: promised_ballot_id
  accBal,     \* per acceptor: accepted.ballot_id, NoBallot if none
  accVal,     \* per acceptor: accepted.value
  committed,  \* per acceptor: committed
  pc,         \* per caller: the call it is in
  payload,    \* per caller: what it appends; NoValue for sync
  ballot,     \* per caller: lockId_ of its register object
  todo,       \* per caller: acceptors the current loop has yet to ask
  granted,    \* per caller: proposeAcceptors_
  seenBal,    \* per caller and acceptor: ballot in the answer to prepare
  seenVal,    \* per caller and acceptor: value in the answer to prepare
  value,      \* per caller: value it proposes
  oks,        \* per caller: acceptors that accepted
  wrote,      \* per caller: successfullyWritten by the answer of write
  got,        \* per caller: value its read returned
  stray,      \* requests under way without a caller
  proposed,   \* history: <<ballot, value>> of every propose call
  voted       \* history: <<acceptor, ballot>> of every proposal accepted

acceptorVars == <<promised, accBal, accVal, committed, voted>>
callVars == <<payload, ballot, wrote, got>>
loopVars == <<granted, seenBal, seenVal, value, oks>>
vars == <<promised, accBal, accVal, committed, pc, payload, ballot, todo,
          granted, seenBal, seenVal, value, oks, wrote, got, stray,
          proposed, voted>>

Init ==
  /\ promised = [a \in Acceptors |-> NoBallot]
  /\ accBal = [a \in Acceptors |-> NoBallot]
  /\ accVal = [a \in Acceptors |-> NoValue]
  /\ committed = [a \in Acceptors |-> FALSE]
  /\ pc = [p \in Callers |-> "idle"]
  /\ payload = [p \in Callers |-> NoValue]
  /\ ballot = [p \in Callers |-> 0]
  /\ todo = [p \in Callers |-> {}]
  /\ granted = [p \in Callers |-> {}]
  /\ seenBal = [p \in Callers |-> [a \in Acceptors |-> NoBallot]]
  /\ seenVal = [p \in Callers |-> [a \in Acceptors |-> NoValue]]
  /\ value = [p \in Callers |-> NoValue]
  /\ oks = [p \in Callers |-> {}]
  /\ wrote = [p \in Callers |-> FALSE]
  /\ got = [p \in Callers |-> NoValue]
  /\ stray = {}
  /\ proposed = {}
  /\ voted = {}

-----------------------------------------------------------------------------
(* Acceptor *)

(* Faulty variant: a ballot may be promised twice. *)
MayPromiseAgain(a, b) == b >= promised[a]

(* LocalAcceptor::prepare grants a ballot above the promised one. *)
MayPromise(a, b) == b > promised[a]

(* Faulty variant: the promise is not looked at. *)
MayAcceptAny(a, b) == b >= accBal[a]

(* LocalAcceptor::accept refuses a ballot below the promised one. *)
MayAccept(a, b) == b >= promised[a]

(* Faulty variant: the promise moves past the accepted ballot. *)
AcceptAtOffByOne(a, b, v) ==
  /\ promised' = [promised EXCEPT ![a] = b + 1]
  /\ accBal' = [accBal EXCEPT ![a] = b]
  /\ accVal' = [accVal EXCEPT ![a] = v]
  /\ voted' = voted \union {<<a, b>>}

AcceptAt(a, b, v) ==
  /\ promised' = [promised EXCEPT ![a] = b]
  /\ accBal' = [accBal EXCEPT ![a] = b]
  /\ accVal' = [accVal EXCEPT ![a] = v]
  /\ voted' = voted \union {<<a, b>>}

(* What the proposer reads in the answer of an acceptor that promised:
   AcceptorClient::prepare answers an empty promise whatever it was told. *)
AnsweredBallot(p, a) == IF <<p, a>> \in Remote THEN NoBallot ELSE accBal[a]
AnsweredValue(p, a)  == IF <<p, a>> \in Remote THEN NoValue ELSE accVal[a]

-----------------------------------------------------------------------------
(* The calls: append and sync of MetadataStoreStateMachine *)

(* The register object and the local variables of a call end with it, the
   answers to prepare end with prepare, the count of accepts with its loop. *)
ForgetAnswers(p) ==
  /\ seenBal' = [seenBal EXCEPT ![p] = [a \in Acceptors |-> NoBallot]]
  /\ seenVal' = [seenVal EXCEPT ![p] = [a \in Acceptors |-> NoValue]]

DestroyRegister(p) ==
  /\ ballot' = [ballot EXCEPT ![p] = 0]
  /\ todo' = [todo EXCEPT ![p] = {}]
  /\ granted' = [granted EXCEPT ![p] = {}]
  /\ value' = [value EXCEPT ![p] = NoValue]
  /\ oks' = [oks EXCEPT ![p] = {}]
  /\ ForgetAnswers(p)

(* append(v): makePaxosWor gives a register object with lockId_ 0. *)
Append(p, v) ==
  /\ pc[p] \in {"idle", "done"}
  /\ pc' = [pc EXCEPT ![p] = "lock"]
  /\ payload' = [payload EXCEPT ![p] = v]
  /\ wrote' = [wrote EXCEPT ![p] = FALSE]
  /\ got' = [got EXCEPT ![p] = NoValue]
  /\ UNCHANGED <<acceptorVars, ballot, todo, loopVars, stray, proposed>>

(* sync() only reads. *)
Sync(p) ==
  /\ pc[p] \in {"idle", "done"}
  /\ pc' = [pc EXCEPT ![p] = "read"]
  /\ todo' = [todo EXCEPT ![p] = Acceptors]
  /\ payload' = [payload EXCEPT ![p] = NoValue]
  /\ wrote' = [wrote EXCEPT ![p] = FALSE]
  /\ got' = [got EXCEPT ![p] = NoValue]
  /\ UNCHANGED <<acceptorVars, ballot, loopVars, stray, proposed>>

(* lock(): the next lock id, and prepare to every acceptor at once. *)
Lock(p) ==
  /\ pc[p] = "lock"
  /\ ballot[p] < MaxBallot
  /\ ballot' = [ballot EXCEPT ![p] = @ + 1]
  /\ granted' = [granted EXCEPT ![p] = {}]
  /\ todo' = [todo EXCEPT ![p] = Acceptors]
  /\ pc' = [pc EXCEPT ![p] = "prepare"]
  /\ UNCHANGED <<acceptorVars, payload, wrote, got, seenBal, seenVal, value,
                 oks, stray, proposed>>

(* An acceptor promises and its answer arrives in time ... *)
PromiseBallot(p, a) ==
  /\ pc[p] = "prepare" /\ a \in todo[p]
  /\ MayPromise(a, ballot[p])
  /\ promised' = [promised EXCEPT ![a] = ballot[p]]
  /\ granted' = [granted EXCEPT ![p] = @ \union {a}]
  /\ seenBal' = [seenBal EXCEPT ![p][a] = AnsweredBallot(p, a)]
  /\ seenVal' = [seenVal EXCEPT ![p][a] = AnsweredValue(p, a)]
  /\ todo' = [todo EXCEPT ![p] = @ \ {a}]
  /\ UNCHANGED <<accBal, accVal, committed, voted, pc, callVars, value, oks,
                 stray, proposed>>

(* ... or refuses; a caller that reaches it through AcceptorClient takes that
   for an empty promise ... *)
RefuseBallot(p, a) ==
  /\ pc[p] = "prepare" /\ a \in todo[p]
  /\ ~MayPromise(a, ballot[p])
  /\ granted' = [granted EXCEPT ![p] = IF <<p, a>> \in Remote
                                         THEN @ \union {a} ELSE @]
  /\ todo' = [todo EXCEPT ![p] = @ \ {a}]
  /\ UNCHANGED <<acceptorVars, pc, callVars, seenBal, seenVal, value, oks,
                 stray, proposed>>

(* ... or does not answer within the 100 ms of timed_wait. *)
Request(p, a) == [type |-> pc[p], acc |-> a, bal |-> ballot[p],
                  val |-> IF pc[p] = "accept" THEN value[p] ELSE NoValue]

LeaveStray(p, S) ==
  /\ S = {} \/ Cardinality(stray) + Cardinality(S) <= MaxStray
  /\ stray' = stray \union {Request(p, a) : a \in S}

TimeoutPrepare(p, a) ==
  /\ pc[p] = "prepare" /\ a \in todo[p]
  /\ \E S \in SUBSET {a} : LeaveStray(p, S)
  /\ todo' = [todo EXCEPT ![p] = @ \ {a}]
  /\ UNCHANGED <<acceptorVars, pc, callVars, loopVars, proposed>>

(* Faulty variant: one answer is enough. *)
AnyAnswer(S) == S # {}

(* prepare() returns: WORFactory.cc makes majority_ the number of acceptors. *)
Majority(S) == S = Acceptors

(* The value of write(lock id, payload): the one of the highest ballot among
   the answers, the payload if no answer has one. *)
SelectedProposals(p) ==
  {a \in granted[p] : /\ seenBal[p][a] # NoBallot
                      /\ \A x \in granted[p] : seenBal[p][x] <= seenBal[p][a]}

ProposalValues(p) ==
  IF \E a \in granted[p] : seenBal[p][a] # NoBallot
    THEN {seenVal[p][a] : a \in SelectedProposals(p)}
    ELSE {payload[p]}

BeginPropose(p, v) ==
  /\ pc[p] = "prepare" /\ todo[p] = {}
  /\ Majority(granted[p])
  /\ v \in ProposalValues(p)
  /\ value' = [value EXCEPT ![p] = v]
  /\ oks' = [oks EXCEPT ![p] = {}]
  /\ todo' = [todo EXCEPT ![p] = Acceptors]
  /\ pc' = [pc EXCEPT ![p] = "accept"]
  /\ proposed' = proposed \union {<<ballot[p], v>>}
  /\ ForgetAnswers(p)
  /\ UNCHANGED <<acceptorVars, callVars, granted, stray>>

(* lock() returned nothing: try again with the next lock id. *)
LockFailed(p) ==
  /\ pc[p] = "prepare" /\ todo[p] = {}
  /\ ~Majority(granted[p])
  /\ pc' = [pc EXCEPT ![p] = "lock"]
  /\ ForgetAnswers(p)
  /\ UNCHANGED <<acceptorVars, callVars, todo, granted, value, oks, stray,
                 proposed>>

(* The loops of propose and read ask one acceptor after the other. *)
NextInLoop(p, a) == a \in todo[p] /\ \A x \in todo[p] : a <= x

AcceptProposal(p, a) ==
  /\ pc[p] = "accept" /\ NextInLoop(p, a)
  /\ MayAccept(a, ballot[p])
  /\ AcceptAt(a, ballot[p], value[p])
  /\ oks' = [oks EXCEPT ![p] = @ \union {a}]
  /\ todo' = [todo EXCEPT ![p] = @ \ {a}]
  /\ UNCHANGED <<committed, pc, callVars, granted, seenBal, seenVal, value,
                 stray, proposed>>

RejectProposal(p, a) ==
  /\ pc[p] = "accept" /\ NextInLoop(p, a)
  /\ ~MayAccept(a, ballot[p])
  /\ todo' = [todo EXCEPT ![p] = @ \ {a}]
  /\ UNCHANGED <<acceptorVars, pc, callVars, loopVars, stray, proposed>>

BeginCommit(p) ==
  /\ pc[p] = "accept" /\ todo[p] = {}
  /\ Majority(oks[p])
  /\ pc' = [pc EXCEPT ![p] = "commit"]
  /\ todo' = [todo EXCEPT ![p] = Acceptors]
  /\ oks' = [oks EXCEPT ![p] = {}]
  /\ UNCHANGED <<acceptorVars, callVars, granted, seenBal, seenVal, value,
                 stray, proposed>>

(* LocalAcceptor::commit does not look at the ballot; it answers true the
   first time only, and one such answer makes write return true. *)
Commit(p, a) ==
  /\ pc[p] = "commit" /\ NextInLoop(p, a)
  /\ committed' = [committed EXCEPT ![a] = TRUE]
  /\ wrote' = [wrote EXCEPT ![p] = @ \/ ~committed[a]]
  /\ todo' = [todo EXCEPT ![p] = @ \ {a}]
  /\ UNCHANGED <<promised, accBal, accVal, voted, pc, payload, ballot, got,
                 loopVars, stray, proposed>>

(* write returns; the caller reads whatever it returned. *)
BeginRead(p) ==
  /\ todo[p] = {}
  /\ \/ pc[p] = "accept" /\ ~Majority(oks[p])
     \/ pc[p] = "commit"
  /\ pc' = [pc EXCEPT ![p] = "read"]
  /\ todo' = [todo EXCEPT ![p] = Acceptors]
  /\ oks' = [oks EXCEPT ![p] = {}]
  /\ value' = [value EXCEPT ![p] = NoValue]
  /\ UNCHANGED <<acceptorVars, callVars, granted, seenBal, seenVal, stray,
                 proposed>>

(* getCommittedValue: the first acceptor that committed has the value. *)
ReadCommitted(p, a) ==
  /\ pc[p] = "read" /\ NextInLoop(p, a)
  /\ committed[a]
  /\ got' = [got EXCEPT ![p] = accVal[a]]
  /\ pc' = [pc EXCEPT ![p] = "done"]
  /\ DestroyRegister(p)
  /\ UNCHANGED <<acceptorVars, payload, wrote, stray, proposed>>

ReadUncommitted(p, a) ==
  /\ pc[p] = "read" /\ NextInLoop(p, a)
  /\ ~committed[a]
  /\ todo' = [todo EXCEPT ![p] = @ \ {a}]
  /\ UNCHANGED <<acceptorVars, pc, callVars, loopVars, stray, proposed>>

(* NOT_WRITTEN: sync returns, append locks again. *)
ReadNothing(p) ==
  /\ pc[p] = "read" /\ todo[p] = {}
  /\ pc' = [pc EXCEPT ![p] = IF payload[p] = NoValue THEN "idle" ELSE "lock"]
  /\ UNCHANGED <<acceptorVars, callVars, todo, loopVars, stray, proposed>>

(***************************************************************************)
(* A remote call throws (AcceptorClient) or the storage does, or the       *)
(* caller's process stops.  What it asked for may still be under way.      *)
(***************************************************************************)
Outstanding(p) ==
  IF pc[p] = "prepare" THEN todo[p]
  ELSE IF pc[p] \in {"accept", "commit"} THEN {a \in todo[p] : NextInLoop(p, a)}
  ELSE {}

Abandon(p) ==
  /\ pc[p] \notin {"idle", "done"}
  /\ pc' = [pc EXCEPT ![p] = "idle"]
  /\ \E S \in SUBSET Outstanding(p) : LeaveStray(p, S)
  /\ payload' = [payload EXCEPT ![p] = NoValue]
  /\ wrote' = [wrote EXCEPT ![p] = FALSE]
  /\ DestroyRegister(p)
  /\ UNCHANGED <<acceptorVars, got, proposed>>

(* A request without a caller reaches its acceptor ... *)
StrayPrepare(m) ==
  /\ m.type = "prepare"
  /\ MayPromise(m.acc, m.bal)
  /\ promised' = [promised EXCEPT ![m.acc] = m.bal]
  /\ stray' = stray \ {m}
  /\ UNCHANGED <<accBal, accVal, committed, voted, pc, callVars, todo,
                 loopVars, proposed>>

StrayAccept(m) ==
  /\ m.type = "accept"
  /\ MayAccept(m.acc, m.bal)
  /\ AcceptAt(m.acc, m.bal, m.val)
  /\ stray' = stray \ {m}
  /\ UNCHANGED <<committed, pc, callVars, todo, loopVars, proposed>>

StrayCommit(m) ==
  /\ m.type = "commit"
  /\ committed' = [committed EXCEPT ![m.acc] = TRUE]
  /\ stray' = stray \ {m}
  /\ UNCHANGED <<promised, accBal, accVal, voted, pc, callVars, todo, loopVars,
                 proposed>>

(* ... or is refused, or lost. *)
StrayLost(m) ==
  /\ stray' = stray \ {m}
  /\ UNCHANGED <<acceptorVars, pc, callVars, todo, loopVars, proposed>>

-----------------------------------------------------------------------------
Next ==
  \/ \E p \in Callers, v \in Values : Append(p, v)
  \/ \E p \in Callers : Sync(p)
  \/ \E p \in Callers : Lock(p)
  \/ \E p \in Callers, a \in Acceptors : PromiseBallot(p, a)
  \/ \E p \in Callers, a \in Acceptors : RefuseBallot(p, a)
  \/ \E p \in Callers, a \in Acceptors : TimeoutPrepare(p, a)
  \/ \E p \in Callers, v \in Values : BeginPropose(p, v)
  \/ \E p \in Callers : LockFailed(p)
  \/ \E p \in Callers, a \in Acceptors : AcceptProposal(p, a)
  \/ \E p \in Callers, a \in Acceptors : RejectProposal(p, a)
  \/ \E p \in Callers : BeginCommit(p)
  \/ \E p \in Callers, a \in Acceptors : Commit(p, a)
  \/ \E p \in Callers : BeginRead(p)
  \/ \E p \in Callers, a \in Acceptors : ReadCommitted(p, a)
  \/ \E p \in Callers, a \in Acceptors : ReadUncommitted(p, a)
  \/ \E p \in Callers : ReadNothing(p)
  \/ \E p \in Callers : Abandon(p)
  \/ \E m \in stray : StrayPrepare(m)
  \/ \E m \in stray : StrayAccept(m)
  \/ \E m \in stray : StrayCommit(m)
  \/ \E m \in stray : StrayLost(m)

Spec == Init /\ [][Next]_vars
-----------------------------------------------------------------------------
(* Properties *)

(* Every variable keeps to its type, the acceptor rows and the late requests
   included. *)
TypeOK ==
  /\ promised \in [Acceptors -> Ballots \union {NoBallot}]
  /\ accBal \in [Acceptors -> Ballots \union {NoBallot}]
  /\ accVal \in [Acceptors -> Values \union {NoValue}]
  /\ committed \in [Acceptors -> BOOLEAN]
  /\ pc \in [Callers -> {"idle", "lock", "prepare", "accept", "commit",
                         "read", "done"}]
  /\ payload \in [Callers -> Values \union {NoValue}]
  /\ ballot \in [Callers -> Ballots \union {0}]
  /\ todo \in [Callers -> SUBSET Acceptors]
  /\ granted \in [Callers -> SUBSET Acceptors]
  /\ seenBal \in [Callers -> [Acceptors -> Ballots \union {NoBallot}]]
  /\ seenVal \in [Callers -> [Acceptors -> Values \union {NoValue}]]
  /\ value \in [Callers -> Values \union {NoValue}]
  /\ oks \in [Callers -> SUBSET Acceptors]
  /\ wrote \in [Callers -> BOOLEAN]
  /\ got \in [Callers -> Values \union {NoValue}]
  /\ stray \subseteq [type : {"prepare", "accept", "commit"}, acc : Acceptors,
                      bal : Ballots, val : Values \union {NoValue}]
  /\ proposed \subseteq Ballots \X Values
  /\ voted \subseteq Acceptors \X Ballots

(***************************************************************************)
(* "Configuration is replicated using Single Decree Paxos" (README.md):    *)
(* acceptors that committed hold one value, and every read returned it,    *)
(* through racing proposers, ballots used again by a new register object,  *)
(* lost answers and requests that arrive after their caller gave up.       *)
(***************************************************************************)
Agreement ==
  /\ \A a, x \in Acceptors : committed[a] /\ committed[x] => accVal[a] = accVal[x]
  /\ \A p \in Callers, a \in Acceptors :
       got[p] # NoValue /\ committed[a] => accVal[a] = got[p]

(* A committed value is never replaced, although LocalAcceptor::accept does
   not look at `committed'. *)
CommittedStable ==
  [][\A a \in Acceptors :
       committed[a] => committed'[a] /\ accVal'[a] = accVal[a]]_vars

(***************************************************************************)
(* The register as its users see it: what a read finds.                    *)
(***************************************************************************)
CommittedValue ==
  IF \E a \in Acceptors : committed[a]
    THEN accVal[CHOOSE a \in Acceptors : committed[a]]
    ELSE NoValue

Abstract == INSTANCE WriteOnceRegister
              WITH Users <- Callers, register <- CommittedValue, reads <- got

(* The calls implement a write once register. *)
ImplementsRegister == Abstract!Spec

-----------------------------------------------------------------------------
(* The inductive invariant behind Agreement, for callers that reach every
   acceptor directly.  It is what a Paxos proof needs when the quorum is the
   whole set of acceptors. *)

Proposed(b, v) == <<b, v>> \in proposed
Voted(a, b)    == <<a, b>> \in voted
Chosen(b, v)   == Proposed(b, v) /\ \A a \in Acceptors : Voted(a, b)

(* An accepted proposal is the acceptor's latest vote, below its promise. *)
AcceptedIsLastVote ==
  \A a \in Acceptors :
    /\ accBal[a] <= promised[a]
    /\ accBal[a] # NoBallot => /\ Proposed(accBal[a], accVal[a])
                               /\ Voted(a, accBal[a])
    /\ \A b \in Ballots : Voted(a, b) => b <= accBal[a]

VotesAreForProposals ==
  \A a \in Acceptors, b \in Ballots :
    Voted(a, b) => \E v \in Values : Proposed(b, v)

(* One value per ballot, at a ballot that all acceptors promised. *)
ProposalsUnique ==
  \A b \in Ballots, v \in Values : Proposed(b, v) =>
    /\ \A w \in Values : Proposed(b, w) => v = w
    /\ \A a \in Acceptors : b <= promised[a]

(* A value proposed later than another differs from it only if some acceptor
   can never vote for the earlier one any more. *)
ProposalsSafe ==
  \A b, c \in Ballots, v, w \in Values :
    Proposed(b, v) /\ Proposed(c, w) /\ b < c /\ v # w =>
      \E a \in Acceptors : ~Voted(a, b) /\ b < promised[a]

(* What the answers to prepare tell a caller stays true, and no two callers
   hold a promise of one acceptor for the same ballot. *)
PromisesKept ==
  \A p \in Callers : pc[p] = "prepare" =>
    \A a \in granted[p] :
      /\ ballot[p] <= promised[a]
      /\ seenBal[p][a] < ballot[p]
      /\ seenBal[p][a] # NoBallot => Proposed(seenBal[p][a], seenVal[p][a])
      /\ \A b \in Ballots : Voted(a, b) /\ b < ballot[p] => b <= seenBal[p][a]
      /\ \A v \in Values : ~Proposed(ballot[p], v)
      /\ \A q \in Callers :
           /\ q # p
           /\ pc[q] = "prepare"
           /\ ballot[q] = ballot[p]
           => a \notin granted[q]

(* Callers past prepare, and requests without a caller, carry proposals. *)
CallsCarryProposals ==
  /\ \A p \in Callers :
       /\ pc[p] = "prepare" => ballot[p] \in Ballots
       /\ pc[p] = "accept" => /\ Proposed(ballot[p], value[p])
                              /\ \A a \in oks[p] : Voted(a, ballot[p])
       /\ pc[p] = "commit" => Chosen(ballot[p], value[p])
  /\ \A m \in stray :
       /\ m.type = "accept" => Proposed(m.bal, m.val)
       /\ m.type = "commit" => \E v \in Values : Chosen(m.bal, v)

(* Only what every acceptor voted for is committed or read. *)
CommittedIsChosen ==
  /\ \A a \in Acceptors : committed[a] =>
       \E b \in Ballots, v \in Values : Chosen(b, v)
  /\ \A p \in Callers : got[p] # NoValue =>
       \E b \in Ballots : Chosen(b, got[p])

IndInv ==
  /\ TypeOK
  /\ AcceptedIsLastVote
  /\ VotesAreForProposals
  /\ ProposalsUnique
  /\ ProposalsSafe
  /\ PromisesKept
  /\ CallsCarryProposals
  /\ CommittedIsChosen
=============================================================================
