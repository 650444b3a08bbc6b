------------------------------ MODULE CbcProofs ------------------------------
(***************************************************************************)
(* Theorems about CbcOracle, for every set of servers, every length of the *)
(* host name, every number of repetitions and every amount of noise.       *)
(***************************************************************************)
EXTENDS CbcOracle, TLAPS

----------------------------------------------------------------------------
(* Types. *)

\* The control flow: how many reactions were read, and that a session is open
\* only while a repetition is missing.
ControlInv ==
  /\ pc # "done" => claims = {} /\ Len(stable) = vector - 1
  /\ session => rep < Reps
  /\ pc = "gate" => exchanges = 0 /\ rep = 0 /\ vector = 1
  /\ pc = "exchange" =>
       /\ vector = 1 => exchanges = rep
       /\ vector = 2 => exchanges = Reps + rep
       /\ vector = 3 => exchanges = 2 * Reps + rep
  /\ rep > 0 => first \in AllReactions /\ first.tag <= exchanges

TypeInv == TypeOK /\ ControlInv

\* The server has an answer to every record.
LEMMA ArrivalType ==
  ASSUME TypeInv, NEW vec PROVE Arrival(vec) \in Arrivals
<1>1. RecordClass(Crafted(vec, hostLen)) \in RecordClasses
  BY DEF RecordClass, RecordClasses
<1>2. server \in ServerType BY ServersAssumption DEF TypeInv, TypeOK
<1>. QED BY <1>1, <1>2 DEF Arrival, ServerType

\* What is read of an arrival; only an encrypted alert has a tag of its own.
LEMMA ReactionType ==
  ASSUME NEW a \in Arrivals, NEW n \in 1..(3 * Reps)
  PROVE  /\ readReaction(a, n) \in AllReactions /\ readReaction(a, n).tag <= n
         /\ a = "encrypted_alert" => readReaction(a, n) = Reaction("alert", n)
         /\ a # "encrypted_alert" => /\ readReaction(a, n) = readReaction(a, 0)
                                     /\ readReaction(a, n).tag <= 0
BY RepsAssumption DEF Arrivals, readReaction, Reaction, AllReactions, PlainTag, CutTag

\* Whatever the server is, the vector in hand has an arrival.
LEMMA ExpectedType == ASSUME TypeInv PROVE Expected = Arrival(vectors[vector])
BY DEF Expected, Arrival

\* The next reaction is among those counted.
LEMMA NextExchange ==
  ASSUME TypeInv, pc = "exchange", rep < Reps PROVE exchanges + 1 \in 1..(3 * Reps)
BY RepsAssumption DEF TypeInv, TypeOK, ControlInv

LEMMA Disturbed ==
  ASSUME TypeInv, Disturb \/ UNCHANGED noise PROVE noise' \in 0..MaxNoise /\ noise' >= noise
BY NoiseAssumption DEF Disturb, TypeInv, TypeOK

\* Recording a reaction keeps the types.
LEMMA ReactedTypes ==
  ASSUME TypeInv, pc = "exchange", session, noise' \in 0..MaxNoise,
         NEW a \in Arrivals, Reacted(readReaction(a, exchanges + 1))
  PROVE  TypeInv'
<1>. DEFINE r == readReaction(a, exchanges + 1)
<1>1. /\ rep < Reps /\ rep \in 0..Reps /\ exchanges \in 0..(3 * Reps) /\ vector \in 1..3
      /\ Len(stable) = vector - 1 /\ claims = {}
  BY DEF TypeInv, TypeOK, ControlInv
<1>2. exchanges + 1 \in 1..(3 * Reps) BY <1>1, NextExchange
<1>3. r \in AllReactions /\ r.tag <= exchanges + 1 BY <1>2, ReactionType
<1>. HIDE DEF r
<1>4. /\ exchanges' = exchanges + 1 /\ ~session' /\ session' \in BOOLEAN
      /\ UNCHANGED <<server, hostLen, expired, vector, stable>> /\ claims' = {}
  BY <1>1 DEF Reacted, Return, scenario
<1>5. \/ pc' = "done" /\ rep' = rep /\ first' = first
      \/ pc' = pc /\ rep' = rep + 1 /\ first' = r
  BY DEF Reacted, Return, r
<1>6. rep' \in 0..Reps /\ pc' \in {"exchange", "done"} BY <1>1, <1>5, RepsAssumption
<1>7. first' \in AllReactions \cup {NoReaction} BY <1>3, <1>5 DEF TypeInv, TypeOK
<1>8. TypeOK'
  BY <1>2, <1>4, <1>6, <1>7 DEF TypeInv, TypeOK
<1>9. rep' > 0 => first' \in AllReactions /\ first'.tag <= exchanges'
  <2>1. CASE rep' = rep /\ first' = first
    <3>1. ASSUME rep > 0 PROVE first \in AllReactions /\ first.tag <= exchanges
      BY <3>1 DEF TypeInv, ControlInv
    <3>2. ASSUME first \in AllReactions PROVE first.tag \in Int
      BY <3>2, RepsAssumption DEF AllReactions, PlainTag
    <3>. QED BY <1>1, <1>4, <2>1, <3>1, <3>2
  <2>2. CASE first' = r BY <1>3, <1>4, <2>2
  <2>. QED BY <1>5, <2>1, <2>2
<1>10. ControlInv'
  <2>1. pc' # "done" => claims' = {} /\ Len(stable') = vector' - 1 BY <1>1, <1>4
  <2>2. pc' = "exchange" =>
          /\ vector' = 1 => exchanges' = rep'
          /\ vector' = 2 => exchanges' = Reps + rep'
          /\ vector' = 3 => exchanges' = 2 * Reps + rep'
    <3>1. SUFFICES ASSUME pc' = "exchange", pc' = pc, rep' = rep + 1
                   PROVE  /\ vector = 1 => exchanges + 1 = rep + 1
                          /\ vector = 2 => exchanges + 1 = Reps + (rep + 1)
                          /\ vector = 3 => exchanges + 1 = 2 * Reps + (rep + 1)
      BY <1>4, <1>5
    <3>2. /\ vector = 1 => exchanges = rep
          /\ vector = 2 => exchanges = Reps + rep
          /\ vector = 3 => exchanges = 2 * Reps + rep
      BY DEF TypeInv, ControlInv
    <3>. QED BY <1>1, <3>2, RepsAssumption
  <2>. QED BY <1>4, <1>6, <1>9, <2>1, <2>2 DEF ControlInv
<1>. QED BY <1>8, <1>10 DEF TypeInv

\* The stable reaction is recorded, and the next vector or the decision is due.
LEMMA JudgeTypes == ASSUME TypeInv, Judge PROVE TypeInv'
<1>1. /\ rep = Reps /\ vector \in 1..3 /\ Len(stable) = vector - 1 /\ claims = {}
      /\ first \in AllReactions /\ stable \in Seq(AllReactions) /\ pc = "exchange"
  BY RepsAssumption DEF Judge, TypeInv, TypeOK, ControlInv
<1>2. stable' = Append(stable, first) /\ rep' = 0 /\ first' = NoReaction
        /\ UNCHANGED <<server, hostLen, expired, noise, session, exchanges>>
  BY DEF Judge, scenario
<1>3. stable' \in Seq(AllReactions) /\ Len(stable') = vector BY <1>1, <1>2
<1>4. Len(vectors) = 3 BY DEF vectors
<1>5. CASE vector = 3
  <2>1. pc' = "done" /\ claims' = classifyCBC(stable[1], stable[2], first) /\ vector' = vector
    BY <1>4, <1>5 DEF Judge, Return
  <2>2. claims' \subseteq Claims BY <2>1 DEF classifyCBC
  <2>3. ~session BY <1>1, RepsAssumption DEF TypeInv, ControlInv
  <2>4. TypeOK' BY <1>1, <1>2, <1>3, <1>5, <2>1, <2>2, RepsAssumption DEF TypeInv, TypeOK
  <2>5. ControlInv' BY <1>2, <2>1, <2>3 DEF ControlInv
  <2>. QED BY <2>4, <2>5 DEF TypeInv
<1>6. CASE vector # 3
  <2>1. pc' = pc /\ claims' = {} /\ vector' = vector + 1
    BY <1>1, <1>4, <1>6 DEF Judge
  <2>2. TypeOK' BY <1>1, <1>2, <1>3, <1>6, <2>1, RepsAssumption DEF TypeInv, TypeOK
  <2>3. ControlInv'
    BY <1>1, <1>2, <1>3, <1>6, <2>1, RepsAssumption DEF TypeInv, TypeOK, ControlInv
  <2>. QED BY <2>2, <2>3 DEF TypeInv
<1>. QED BY <1>5, <1>6

\* Every step of the probe keeps its types.
LEMMA TypeStep == TypeInv /\ [Next]_vars => TypeInv'
<1>. SUFFICES ASSUME TypeInv, [Next]_vars PROVE TypeInv'  OBVIOUS
<1>. USE DEF scenario
<1>1. CASE establishCBCSession
  BY <1>1 DEF establishCBCSession, TypeInv, TypeOK, ControlInv
<1>2. CASE SessionFails
  <2>1. noise' \in 0..MaxNoise BY <1>2, Disturbed DEF SessionFails
  <2>. QED BY <1>2, <2>1 DEF SessionFails, Return, TypeInv, TypeOK, ControlInv
<1>3. CASE PassGate
  <2>1. /\ pc' = "exchange" /\ session' = FALSE /\ exchanges = 0 /\ rep = 0 /\ vector = 1
        /\ UNCHANGED <<server, hostLen, expired, noise, exchanges, vector, rep, first, stable,
                       claims>>
        /\ claims = {} /\ Len(stable) = vector - 1
    BY <1>3 DEF PassGate, TypeInv, ControlInv
  <2>2. TypeOK' BY <2>1 DEF TypeInv, TypeOK
  <2>3. ControlInv' BY <2>1 DEF ControlInv
  <2>. QED BY <2>2, <2>3 DEF TypeInv
<1>4. CASE cbcExchange
  <2>1. noise' \in 0..MaxNoise BY <1>4, Disturbed DEF cbcExchange
  <2>2. Expected \in Arrivals BY ArrivalType, ExpectedType
  <2>3. PICK a \in Arrivals : Reacted(readReaction(a, exchanges + 1))
    BY <1>4, <2>2 DEF cbcExchange
  <2>. QED BY <1>4, <2>1, <2>3, ReactedTypes DEF cbcExchange
<1>5. CASE SendFails
  <2>1. noise' \in 0..MaxNoise BY <1>5, Disturbed DEF SendFails
  <2>. QED BY <1>5, <2>1 DEF SendFails, Return, TypeInv, TypeOK, ControlInv
<1>6. CASE Judge BY <1>6, JudgeTypes
<1>7. CASE Expire BY <1>7 DEF Expire, TypeInv, TypeOK, ControlInv
<1>8. CASE UNCHANGED vars BY <1>8 DEF vars, TypeInv, TypeOK, ControlInv
<1>. QED BY <1>1, <1>2, <1>3, <1>4, <1>5, <1>6, <1>7, <1>8 DEF Next, Step, Terminated

LEMMA TypeInvariant == Spec => []TypeInv
<1>1. ASSUME Init PROVE TypeInv
  <2>1. noise \in 0..MaxNoise /\ rep \in 0..Reps /\ exchanges \in 0..(3 * Reps)
    BY <1>1, NoiseAssumption, RepsAssumption DEF Init
  <2>2. expired \in BOOLEAN /\ session \in BOOLEAN /\ ~session BY <1>1 DEF Init
  <2>3. stable \in Seq(AllReactions) /\ Len(stable) = 0 BY <1>1 DEF Init
  <2>4. TypeOK BY <1>1, <2>1, <2>2, <2>3 DEF Init, TypeOK
  <2>5. ControlInv BY <1>1, <2>2, <2>3 DEF Init, ControlInv
  <2>. QED BY <2>4, <2>5 DEF TypeInv
<1>. QED BY <1>1, TypeStep, PTL DEF Spec

\* TypeOK: every reachable state of the probe is well typed; in particular it
\* reads three reactions for each repetition at most.
THEOREM TypeCorrectness == Spec => []TypeOK
<1>1. TypeInv => TypeOK BY DEF TypeInv
<1>. QED BY <1>1, TypeInvariant, PTL

----------------------------------------------------------------------------
(* Claims.  The invariant counts: a reaction that Reps repetitions agree on *)
(* is the server's own, or each of them cost the network a disturbance; and *)
(* of encrypted alerts no two agree.                                        *)

Quiet == noise < Reps

Answer(i) == Arrival(vectors[i])

\* The reaction in hand is one that the server gave to this vector.
Own == \E n \in 1..exchanges : first = readReaction(Answer(vector), n)

RepetitionInv ==
  pc = "exchange" =>
    /\ rep > 0 => Own \/ noise >= rep
    /\ rep > 1 /\ Answer(vector) = "encrypted_alert" => noise >= rep

StableInv ==
  /\ pc = "exchange" /\ Quiet =>
       \A i \in 1..3 : i < vector => /\ Answer(i) # "encrypted_alert"
                                     /\ stable[i] = readReaction(Answer(i), 0)
  /\ claims # {} /\ Quiet => /\ \A i \in 1..3 : Answer(i) # "encrypted_alert"
                             /\ Differs

ClaimInv == RepetitionInv /\ StableInv

\* The server's answers never change.
LEMMA AnswersStay ==
  ASSUME UNCHANGED <<server, hostLen>>
  PROVE  /\ \A i \in 1..3 : Answer(i)' = Answer(i)
         /\ Differs' = Differs
BY DEF Answer, Arrival, Differs

LEMMA AnswerType ==
  ASSUME TypeInv PROVE \A i \in 1..3 : Answer(i) \in Arrivals
BY ArrivalType DEF Answer

\* One more repetition that agrees is another of the server's own, or cost a
\* disturbance as all before it did.
LEMMA ReactedClaims ==
  ASSUME TypeInv, ClaimInv, pc = "exchange", session,
         NEW a \in Arrivals, Reacted(readReaction(a, exchanges + 1)),
         \/ a = Answer(vector) /\ UNCHANGED noise
         \/ noise' = noise + 1
  PROVE  ClaimInv'
<1>. DEFINE r == readReaction(a, exchanges + 1)
            own == Answer(vector)
<1>1. /\ rep < Reps /\ rep \in Nat /\ exchanges \in Nat /\ vector \in 1..3
      /\ claims = {} /\ noise \in Nat
      /\ rep > 0 => first \in AllReactions /\ first.tag <= exchanges
  BY RepsAssumption, NoiseAssumption DEF TypeInv, TypeOK, ControlInv
<1>2. exchanges + 1 \in 1..(3 * Reps) BY <1>1, NextExchange
<1>3. own \in Arrivals BY <1>1, AnswerType
<1>4. /\ exchanges' = exchanges + 1
      /\ UNCHANGED <<server, hostLen, vector, stable>> /\ claims' = {} /\ noise' >= noise
      /\ noise' \in Nat
  BY <1>1 DEF Reacted, Return, scenario
<1>5. \/ pc' = "done"
      \/ pc' = pc /\ rep' = rep + 1 /\ first' = r /\ (rep > 0 => first = r)
  BY DEF Reacted, Return
<1>6. own' = own BY <1>1, <1>4, AnswersStay
<1>7. StableInv'
  <2>1. Quiet' => Quiet BY <1>1, <1>4, RepsAssumption DEF Quiet
  <2>2. pc' = "exchange" => pc = "exchange" OBVIOUS
  <2>3. \A i \in 1..3 : Answer(i)' = Answer(i) BY <1>4, AnswersStay
  <2>. HIDE DEF own, r
  <2>. QED BY <1>1, <1>4, <2>1, <2>3 DEF ClaimInv, StableInv
<1>8. ASSUME pc' = "exchange" PROVE RepetitionInv'
  <2>1. rep' = rep + 1 /\ first' = r /\ (rep > 0 => first = r) BY <1>5, <1>8
  <2>2. rep > 0 => Own \/ noise >= rep BY DEF ClaimInv, RepetitionInv
  <2>3. Own' \/ noise' >= rep'
    <3>1. CASE a = own
      <4>1. exchanges' \in 1..exchanges' BY <1>1, <1>4
      <4>2. first' = readReaction(own', exchanges') BY <1>4, <1>6, <2>1, <3>1
      <4>. QED BY <4>1, <4>2 DEF Own
    <3>2. CASE noise' = noise + 1 /\ rep = 0 BY <1>1, <2>1, <3>2
    <3>3. CASE noise' = noise + 1 /\ rep > 0 /\ noise >= rep BY <1>1, <2>1, <3>3
    <3>4. CASE rep > 0 /\ Own
      <4>1. PICK n \in 1..exchanges : first = readReaction(own, n) BY <3>4 DEF Own
      <4>2. n \in 1..exchanges' /\ first' = readReaction(own', n)
        BY <1>1, <1>4, <1>6, <2>1, <3>4, <4>1
      <4>. QED BY <4>2 DEF Own
    <3>. QED BY <1>1, <2>2, <3>1, <3>2, <3>3, <3>4
  <2>4. ASSUME rep' > 1, own = "encrypted_alert" PROVE noise' >= rep'
    <3>1. rep > 0 /\ first = r /\ first.tag <= exchanges BY <1>1, <2>1, <2>4
    \* An encrypted alert has the tag of its own exchange, which no earlier one has.
    <3>2. a # "encrypted_alert"
      <4>1. a = "encrypted_alert" => r = Reaction("alert", exchanges + 1)
        BY <1>2, ReactionType
      <4>2. Reaction("alert", exchanges + 1).tag = exchanges + 1 BY DEF Reaction
      <4>. QED BY <1>1, <3>1, <4>1, <4>2
    <3>3. noise' = noise + 1 BY <2>4, <3>2
    <3>4. ~Own
      <4>1. SUFFICES ASSUME NEW n \in 1..exchanges PROVE r # readReaction(own, n)
        BY <3>1 DEF Own
      <4>2. n \in 1..(3 * Reps) /\ n > 0 BY <1>1, <1>2, RepsAssumption
      <4>3. readReaction(own, n) = Reaction("alert", n) BY <1>3, <2>4, <4>2, ReactionType
      <4>4. readReaction(own, n).tag = n BY <4>3 DEF Reaction
      <4>5. r.tag <= 0 BY <1>2, <3>2, ReactionType
      <4>. HIDE DEF r
      <4>. QED BY <4>2, <4>4, <4>5
    <3>. QED BY <1>1, <2>1, <2>2, <3>1, <3>3, <3>4
  <2>. QED BY <1>6, <2>3, <2>4 DEF RepetitionInv
<1>. QED BY <1>7, <1>8 DEF ClaimInv, RepetitionInv

\* What the repetitions of a quiet probe agree on is the server's own.
LEMMA StableIsOwn ==
  ASSUME TypeInv, ClaimInv, pc = "exchange", rep = Reps, Quiet
  PROVE  /\ Answer(vector) # "encrypted_alert"
         /\ first = readReaction(Answer(vector), 0)
<1>1. rep \in Nat /\ rep > 1 /\ noise \in Nat /\ ~(noise >= rep) /\ vector \in 1..3
        /\ exchanges \in 0..(3 * Reps)
  BY RepsAssumption, NoiseAssumption DEF Quiet, TypeInv, TypeOK
<1>2. Answer(vector) # "encrypted_alert" BY <1>1 DEF ClaimInv, RepetitionInv
<1>3. Own BY <1>1 DEF ClaimInv, RepetitionInv
<1>4. PICK n \in 1..exchanges : first = readReaction(Answer(vector), n) BY <1>3 DEF Own
<1>5. n \in 1..(3 * Reps) BY <1>1, RepsAssumption
<1>. QED BY <1>1, <1>2, <1>4, <1>5, AnswerType, ReactionType

\* Three reactions that are equal support no claim.
LEMMA EqualMeansNone == ASSUME NEW r PROVE classifyCBC(r, r, r) = {}
BY DEF classifyCBC

LEMMA JudgeClaims ==
  ASSUME TypeInv, ClaimInv, Judge PROVE ClaimInv'
<1>1. /\ rep = Reps /\ pc = "exchange" /\ vector \in 1..3 /\ Len(stable) = vector - 1
      /\ claims = {} /\ rep' = 0 /\ stable' = Append(stable, first)
      /\ UNCHANGED <<server, hostLen, noise>> /\ stable \in Seq(AllReactions)
  BY DEF Judge, scenario, TypeInv, TypeOK, ControlInv
<1>2. RepetitionInv' BY <1>1 DEF RepetitionInv
<1>3. \A i \in 1..3 : Answer(i)' = Answer(i) BY <1>1, AnswersStay
<1>4. Differs' = Differs /\ Quiet' = Quiet BY <1>1, AnswersStay DEF Quiet
<1>5. ASSUME Quiet
      PROVE  \A i \in 1..3 : i <= vector => /\ Answer(i) # "encrypted_alert"
                                            /\ stable'[i] = readReaction(Answer(i), 0)
  <2>1. \A i \in 1..3 : i < vector => /\ Answer(i) # "encrypted_alert"
                                       /\ stable[i] = readReaction(Answer(i), 0)
    BY <1>1, <1>5 DEF ClaimInv, StableInv
  <2>2. \A i \in 1..3 : i < vector => stable'[i] = stable[i] BY <1>1
  <2>3. stable'[vector] = first BY <1>1
  <2>4. Answer(vector) # "encrypted_alert" /\ first = readReaction(Answer(vector), 0)
    BY <1>1, <1>5, StableIsOwn
  <2>. QED BY <1>1, <2>1, <2>2, <2>3, <2>4
<1>6. Len(vectors) = 3 BY DEF vectors
<1>7. CASE vector # 3
  <2>1. claims' = {} /\ vector' = vector + 1 BY <1>1, <1>6, <1>7 DEF Judge
  <2>2. \A i \in 1..3 : i < vector' => i <= vector BY <1>1, <2>1
  <2>3. StableInv' BY <1>3, <1>4, <1>5, <2>1, <2>2 DEF StableInv
  <2>. QED BY <1>2, <2>3 DEF ClaimInv
<1>8. CASE vector = 3
  <2>1. pc' = "done" /\ claims' = classifyCBC(stable[1], stable[2], first)
    BY <1>1, <1>6, <1>8 DEF Judge, Return
  <2>2. ASSUME claims' # {}, Quiet
        PROVE  (\A i \in 1..3 : Answer(i) # "encrypted_alert") /\ Differs
    <3>1. \A i \in 1..3 : Answer(i) # "encrypted_alert" BY <1>5, <1>8, <2>2
    <3>2. stable[1] = stable'[1] /\ stable[2] = stable'[2] /\ first = stable'[3]
      BY <1>1, <1>8
    <3>3. /\ stable[1] = readReaction(Answer(1), 0) /\ stable[2] = readReaction(Answer(2), 0)
          /\ first = readReaction(Answer(3), 0)
      BY <1>5, <1>8, <2>2, <3>2
    <3>4. ~(Answer(1) = Answer(2) /\ Answer(2) = Answer(3))
      BY <2>1, <2>2, <3>3, EqualMeansNone
    <3>5. Differs BY <3>4 DEF Differs, Answer
    <3>. QED BY <3>1, <3>5
  <2>3. StableInv' BY <1>3, <1>4, <2>1, <2>2 DEF StableInv
  <2>. QED BY <1>2, <2>3 DEF ClaimInv
<1>. QED BY <1>7, <1>8

\* Every step keeps the count.
LEMMA ClaimStep == TypeInv /\ ClaimInv /\ [Next]_vars => ClaimInv'
<1>. SUFFICES ASSUME TypeInv, ClaimInv, [Next]_vars PROVE ClaimInv'  OBVIOUS
<1>1. CASE cbcExchange
  <2>1. Expected \in Arrivals /\ Expected = Answer(vector)
    BY ArrivalType, ExpectedType DEF Answer
  <2>2. PICK a \in Arrivals :
          /\ Reacted(readReaction(a, exchanges + 1))
          /\ (a = Answer(vector) /\ UNCHANGED noise) \/ noise' = noise + 1
    BY <1>1, <2>1 DEF cbcExchange, Disturb
  <2>. QED BY <1>1, <2>2, ReactedClaims DEF cbcExchange
<1>2. CASE Judge BY <1>2, JudgeClaims
<1>3. ASSUME pc' = "done", claims' = {} PROVE ClaimInv'
  BY <1>3 DEF ClaimInv, RepetitionInv, StableInv
<1>4. CASE SessionFails BY <1>4, <1>3 DEF SessionFails, Return
<1>5. CASE SendFails BY <1>5, <1>3 DEF SendFails, Return
<1>6. CASE PassGate
  <2>1. rep = 0 /\ vector = 1 /\ claims = {} BY <1>6 DEF PassGate, TypeInv, ControlInv
  <2>2. rep' = 0 /\ vector' = 1 /\ claims' = {} BY <1>6, <2>1 DEF PassGate
  <2>. QED BY <2>2 DEF ClaimInv, RepetitionInv, StableInv
<1>7. CASE establishCBCSession \/ Expire \/ UNCHANGED vars
  <2>1. UNCHANGED <<server, hostLen, noise, pc, exchanges, vector, rep, first, stable, claims>>
    BY <1>7 DEF establishCBCSession, Expire, vars, scenario
  <2>. QED BY <2>1 DEF ClaimInv, RepetitionInv, StableInv, Own, Answer, Arrival, Differs, Quiet
<1>. QED BY <1>1, <1>2, <1>4, <1>5, <1>6, <1>7 DEF Next, Step, Terminated

LEMMA ClaimInvariant == Spec => []ClaimInv
<1>1. Init => ClaimInv BY DEF Init, ClaimInv, RepetitionInv, StableInv
<1>. QED BY <1>1, ClaimStep, TypeInvariant, PTL DEF Spec

\* NoClaimWithoutDifference: of a server that answers the three records alike,
\* in whatever way, nothing is claimed unless each repetition of some vector was
\* disturbed.
THEOREM NoClaimWithoutDifferenceTheorem == Spec => []NoClaimWithoutDifference
<1>1. ClaimInv => NoClaimWithoutDifference
  BY DEF ClaimInv, StableInv, NoClaimWithoutDifference, Quiet
<1>. QED BY <1>1, ClaimInvariant, PTL

----------------------------------------------------------------------------
(* Findings.  A probe that nothing disturbs, of a server that negotiates    *)
(* CBC and whose answers are no encrypted alerts, only ends with the        *)
(* decision on the server's own three reactions.                            *)

Clean == /\ noise = 0 /\ ~expired /\ server.cbc
         /\ \A i \in 1..3 : Answer(i) # "encrypted_alert"

FindInv ==
  Clean /\ pc = "done" =>
    claims = classifyCBC(readReaction(Answer(1), 0), readReaction(Answer(2), 0),
                         readReaction(Answer(3), 0))

\* No repetition of such a probe differs from the first.
LEMMA ReactedFinds ==
  ASSUME TypeInv, ClaimInv, pc = "exchange", session,
         NEW a \in Arrivals, Reacted(readReaction(a, exchanges + 1)),
         \/ a = Answer(vector) /\ UNCHANGED noise
         \/ noise' = noise + 1
  PROVE  FindInv'
<1>1. /\ exchanges + 1 \in 1..(3 * Reps) /\ exchanges \in Nat /\ noise \in Nat
      /\ vector \in 1..3
  BY NextExchange, RepsAssumption, NoiseAssumption DEF TypeInv, TypeOK, ControlInv
<1>2. \A i \in 1..3 : Answer(i)' = Answer(i)
  BY AnswersStay DEF Reacted, scenario
<1>3. SUFFICES ASSUME Clean', pc' = "done" PROVE FALSE BY DEF FindInv
<1>4. noise = 0 /\ a = Answer(vector) /\ a # "encrypted_alert" BY <1>1, <1>2, <1>3 DEF Clean
<1>5. rep > 0 /\ readReaction(a, exchanges + 1) # first BY <1>3 DEF Reacted, Return
<1>6. Own BY <1>4, <1>5 DEF ClaimInv, RepetitionInv, TypeInv, TypeOK
<1>7. PICK n \in 1..exchanges : first = readReaction(a, n) BY <1>4, <1>6 DEF Own
<1>8. n \in 1..(3 * Reps) BY <1>1, RepsAssumption
<1>. QED BY <1>1, <1>4, <1>5, <1>7, <1>8, ReactionType

\* The decision is drawn from the server's own reactions.
LEMMA JudgeFinds == ASSUME TypeInv, ClaimInv, Judge PROVE FindInv'
<1>1. /\ rep = Reps /\ pc = "exchange" /\ vector \in 1..3 /\ noise \in Nat
      /\ UNCHANGED <<server, hostLen, noise>>
  BY DEF Judge, scenario, TypeInv, TypeOK
<1>2. \A i \in 1..3 : Answer(i)' = Answer(i) BY <1>1, AnswersStay
<1>3. SUFFICES ASSUME Clean', pc' = "done"
               PROVE  claims' = classifyCBC(readReaction(Answer(1), 0),
                                            readReaction(Answer(2), 0),
                                            readReaction(Answer(3), 0))
  BY <1>2 DEF FindInv
<1>4. Quiet BY <1>1, <1>3, RepsAssumption DEF Clean, Quiet
<1>5. vector = 3 /\ claims' = classifyCBC(stable[1], stable[2], first)
  <2>1. Len(vectors) = 3 BY DEF vectors
  <2>. QED BY <1>1, <1>3, <2>1 DEF Judge, Return
<1>6. first = readReaction(Answer(3), 0) BY <1>1, <1>4, <1>5, StableIsOwn
<1>7. stable[1] = readReaction(Answer(1), 0) /\ stable[2] = readReaction(Answer(2), 0)
  BY <1>1, <1>4, <1>5 DEF ClaimInv, StableInv
<1>. QED BY <1>5, <1>6, <1>7

\* Every step keeps the promise.
LEMMA FindStep == TypeInv /\ ClaimInv /\ FindInv /\ [Next]_vars => FindInv'
<1>. SUFFICES ASSUME TypeInv, ClaimInv, FindInv, [Next]_vars PROVE FindInv'  OBVIOUS
<1>1. CASE cbcExchange
  <2>1. Expected \in Arrivals /\ Expected = Answer(vector)
    BY ArrivalType, ExpectedType DEF Answer
  <2>2. PICK a \in Arrivals :
          /\ Reacted(readReaction(a, exchanges + 1))
          /\ (a = Answer(vector) /\ UNCHANGED noise) \/ noise' = noise + 1
    BY <1>1, <2>1 DEF cbcExchange, Disturb
  <2>. QED BY <1>1, <2>2, ReactedFinds DEF cbcExchange
<1>2. CASE Judge BY <1>2, JudgeFinds
<1>3. CASE SessionFails \/ SendFails
  <2>1. noise \in Nat BY NoiseAssumption DEF TypeInv, TypeOK
  <2>2. noise' = noise + 1 \/ expired' \/ ~server'.cbc
    BY <1>3 DEF SessionFails, SendFails, Disturb, scenario
  <2>. QED BY <2>1, <2>2 DEF FindInv, Clean
<1>4. CASE establishCBCSession \/ PassGate \/ Expire
  BY <1>4 DEF establishCBCSession, PassGate, Expire, FindInv
<1>5. CASE UNCHANGED vars
  <2>1. UNCHANGED <<server, hostLen, expired, noise, pc, claims>> BY <1>5 DEF vars, scenario
  <2>2. \A i \in 1..3 : Answer(i)' = Answer(i) BY <2>1, AnswersStay
  <2>. QED BY <2>1, <2>2 DEF FindInv, Clean
<1>. QED BY <1>1, <1>2, <1>3, <1>4, <1>5 DEF Next, Step, Terminated

\* Two answers that are no encrypted alerts are read as the same reaction only
\* when they are the same.
LEMMA ReadingKeepsApart ==
  ASSUME NEW a \in Arrivals \ {"encrypted_alert"}, NEW b \in Arrivals \ {"encrypted_alert"},
         readReaction(a, 0) = readReaction(b, 0)
  PROVE  a = b
BY DEF Arrivals, readReaction, Reaction, PlainTag, CutTag

\* Three reactions of which two differ support a claim.
LEMMA DifferenceIsClaimed ==
  ASSUME NEW r, NEW s, NEW t, ~(r = s /\ s = t) PROVE classifyCBC(r, s, t) # {}
<1>1. r # s => "GoldenDoodle" \in classifyCBC(r, s, t) BY DEF classifyCBC, Claims
<1>2. t # s /\ t # r => "ZeroLengthPaddingCVE" \in classifyCBC(r, s, t)
  BY DEF classifyCBC, Claims
<1>. QED BY <1>1, <1>2

\* FindsTheDifference: a probe that nothing disturbs claims something of every
\* CBC server that answers two of the records differently, unless an answer is
\* an encrypted alert.
THEOREM FindsTheDifferenceTheorem == Spec => []FindsTheDifference
<1>1. Init => FindInv BY DEF Init, FindInv
<1>2. TypeInv /\ FindInv => FindsTheDifference
  <2>1. SUFFICES ASSUME TypeInv, FindInv, pc = "done", noise = 0, ~expired, server.cbc, Differs,
                        \A i \in 1..3 : Arrival(vectors[i]) # "encrypted_alert"
                 PROVE  claims # {}
    BY DEF FindsTheDifference
  <2>2. \A i \in 1..3 : Answer(i) \in Arrivals \ {"encrypted_alert"}
    BY <2>1, AnswerType DEF Answer
  <2>3. PICK i \in 1..3, j \in 1..3 : Answer(i) # Answer(j) BY <2>1 DEF Differs, Answer
  <2>4. readReaction(Answer(i), 0) # readReaction(Answer(j), 0)
    BY <2>2, <2>3, ReadingKeepsApart
  <2>5. i \in {1, 2, 3} /\ j \in {1, 2, 3} OBVIOUS
  <2>6. ~(/\ readReaction(Answer(1), 0) = readReaction(Answer(2), 0)
          /\ readReaction(Answer(2), 0) = readReaction(Answer(3), 0))
    BY <2>4, <2>5
  <2>7. Clean BY <2>1 DEF Clean, Answer
  <2>. QED BY <2>1, <2>6, <2>7, DifferenceIsClaimed DEF FindInv
<1>. QED BY <1>1, <1>2, TypeInvariant, ClaimInvariant, FindStep, PTL DEF Spec

----------------------------------------------------------------------------
(* The contract.  The safety part of the refinement: the probe starts as    *)
(* the contract does, and each of its steps decides or changes nothing that *)
(* the contract speaks of.                                                  *)

\* The records with a broken MAC are rejected whatever the length of the host.
LEMMA BrokenMACIsRejected ==
  ASSUME NEW vec \in {"badMAC", "zeroLen"}
  PROVE  RecordClass(Crafted(vec, hostLen)) \in Rejects
<1>1. ForceBadMAC[vec] = TRUE BY DEF ForceBadMAC
<1>2. ~Crafted(vec, hostLen).macIntact BY <1>1 DEF Crafted, macThenPad, encryptRecord
<1>. QED BY <1>2 DEF RecordClass, MacOK, Rejects, RecordClasses

\* A hardened server does not tell the records apart, unless badPad is valid.
LEMMA HardenedHidesAll ==
  ASSUME Hardened, RecordClass(Crafted("badPad", hostLen)) # "good" PROVE ~Differs
<1>1. RecordClass(Crafted("badPad", hostLen)) \in Rejects
  BY DEF RecordClass, Rejects, RecordClasses
<1>2. \A v \in {vectors[i] : i \in 1..3} : RecordClass(Crafted(v, hostLen)) \in Rejects
  BY <1>1, BrokenMACIsRejected DEF vectors
<1>. QED BY <1>2 DEF Differs, Arrival, Hardened

\* Before it returns the probe has claimed nothing; a probe that has returned stops.
LEMMA DecidesOnce ==
  ASSUME TypeInv, [Next]_vars
  PROVE  /\ UNCHANGED <<server, hostLen>>
         /\ \/ pc # "done" /\ pc' = "done" /\ claims = {}
            \/ pc # "done" /\ pc' # "done" /\ claims = {} /\ claims' = {}
            \/ UNCHANGED <<noise, pc, claims>>
<1>1. pc = "done" => UNCHANGED vars
  BY DEF Next, Step, Terminated, establishCBCSession, SessionFails, PassGate, cbcExchange,
         SendFails, Judge, Expire
<1>2. pc # "done" => claims = {} BY DEF TypeInv, ControlInv
<1>3. pc' # "done" => claims' = {} BY TypeStep DEF TypeInv, ControlInv
<1>4. UNCHANGED <<server, hostLen>>
  BY DEF Next, Step, Terminated, establishCBCSession, SessionFails, PassGate, cbcExchange,
         Reacted, SendFails, Judge, Expire, vars, scenario
<1>. QED BY <1>1, <1>2, <1>3, <1>4 DEF vars

\* The safety part of ImplementsContract: a probe that decides claims what the
\* server has, or nothing, and it decides once.
THEOREM ContractTheorem == Spec => Contract!Init /\ [][Contract!Decide]_(Contract!contractVars)
<1>1. Init => Contract!Init BY DEF Init, Contract!Init
<1>2. TypeInv /\ TypeInv' /\ NoClaimWithoutDifference' /\ [Next]_vars
        => [Contract!Decide]_(Contract!contractVars)
  <2>1. SUFFICES ASSUME TypeInv, TypeInv', NoClaimWithoutDifference', [Next]_vars
                 PROVE  Contract!Decide \/ UNCHANGED Contract!contractVars
    OBVIOUS
  <2>2. UNCHANGED <<server, hostLen>> BY <2>1, DecidesOnce
  <2>3. Hardened' = Hardened /\ Differs' = Differs BY <2>2, AnswersStay DEF Hardened
  <2>4. CASE pc # "done" /\ pc' = "done" /\ claims = {}
    <3>1. claims' # {} /\ noise' < Reps /\ RecordClass(Crafted("badPad", hostLen)) # "good"
            => ~Hardened
      BY <2>1, <2>3, HardenedHidesAll DEF NoClaimWithoutDifference
    <3>2. claims' \subseteq Claims BY <2>1 DEF TypeInv, TypeOK
    <3>. QED BY <2>2, <2>3, <2>4, <3>1, <3>2 DEF Contract!Decide
  <2>5. CASE pc # "done" /\ pc' # "done" /\ claims = {} /\ claims' = {}
    BY <2>3, <2>5 DEF Contract!contractVars
  <2>6. CASE UNCHANGED <<noise, pc, claims>>
    BY <2>2, <2>3, <2>6 DEF Contract!contractVars
  <2>. QED BY <2>1, <2>4, <2>5, <2>6, DecidesOnce
<1>. QED BY <1>1, <1>2, TypeInvariant, NoClaimWithoutDifferenceTheorem, PTL DEF Spec
=============================================================================
