---------------------------- MODULE RobotProofs ----------------------------
(***************************************************************************)
(* Theorems about RobotProbe, for every set of keys and of pools, every    *)
(* number of repetitions and every amount of noise.                        *)
(***************************************************************************)
EXTENDS RobotProbe, TLAPS

----------------------------------------------------------------------------
(* Types. *)

\* The control flow: a connection is open only while a repetition is missing,
\* and vectors are sent only once there is a key.
ControlInv ==
  /\ conn # NoConn => rep < Reps /\ pc # "done"
  /\ pc = "discover" => vector = 1 /\ rep = 0 /\ ~verdict
  /\ pc = "exchange" => pub \in Keys /\ ~verdict
  /\ rep > 0 => first \in Signatures

TypeInv == TypeOK /\ ControlInv

\* Every reaction has a signature.
LEMMA SignatureType ==
  ASSUME NEW r \in Reactions PROVE readRobotResponse(r) \in Signatures
  BY DEF Signatures

\* So has every reaction of a backend, whatever the key the vector is encrypted to.
LEMMA GenuineType ==
  ASSUME NEW kind \in Vectors, NEW key, NEW b \in Backends
  PROVE  Genuine(kind, key, b) \in Signatures
<1>1. Seen(kind, key, b) \in Vectors
  <2>1. allRobotVectors[2] = "wrongFirstBytes"
    BY DEF allRobotVectors
  <2> QED
    BY <2>1 DEF Seen, Vectors
<1>2. b.react[Seen(kind, key, b)] \in Reactions
  BY <1>1 DEF Backends
<1> QED
  BY <1>2, SignatureType DEF Genuine

\* ProbeROBOT starts well typed.
LEMMA InitTypes == Init => TypeInv
<1> SUFFICES ASSUME Init PROVE TypeInv
  OBVIOUS
<1>1. noise \in 0..MaxNoise /\ rep \in 0..Reps
  BY NoiseAssumption, RepsAssumption DEF Init
<1>2. expired \in BOOLEAN /\ verdict \in BOOLEAN /\ ~verdict
  BY DEF Init
<1>3. TypeOK
  BY <1>1, <1>2 DEF Init, TypeOK
<1>4. ControlInv
  BY <1>2 DEF Init, ControlInv
<1> QED
  BY <1>3, <1>4 DEF TypeInv

\* Recording a signature keeps the types.
LEMMA ReactedTypes ==
  ASSUME TypeInv, conn # NoConn, pc = "exchange", noise' \in 0..MaxNoise,
         NEW sig \in Signatures, Reacted(sig)
  PROVE  TypeInv'
<1>1. rep' \in 0..Reps /\ first' \in Signatures \cup {NoSignature}
  <2>1. rep < Reps /\ rep \in 0..Reps /\ first \in Signatures \cup {NoSignature}
    BY DEF TypeInv, TypeOK, ControlInv
  <2>2. rep' = rep + 1 \/ rep' = rep
    BY DEF Reacted
  <2>3. first' = sig \/ first' = first
    BY DEF Reacted
  <2> QED
    BY <2>1, <2>2, <2>3, RepsAssumption
<1>2. pc' \in {"exchange", "done"} /\ verdict' \in BOOLEAN
      /\ (pc' = "exchange" => ~verdict')
  BY DEF Reacted, Return, TypeInv, TypeOK, ControlInv
<1>3. conn' = NoConn /\ UNCHANGED <<pool, expired, pub, vector, correct>>
  BY DEF Reacted
<1>4. rep' > 0 => first' \in Signatures
  BY DEF Reacted, TypeInv, TypeOK, ControlInv
<1>5. TypeOK'
  BY <1>1, <1>2, <1>3 DEF TypeInv, TypeOK
<1>6. ControlInv'
  BY <1>2, <1>3, <1>4 DEF TypeInv, ControlInv
<1> QED
  BY <1>5, <1>6 DEF TypeInv

\* Noise stays below its bound and never decreases.
LEMMA DisturbType ==
  ASSUME TypeInv, Disturb \/ UNCHANGED noise PROVE noise' \in 0..MaxNoise /\ noise' >= noise
  BY NoiseAssumption DEF Disturb, TypeInv, TypeOK

\* The vector in hand is one of allRobotVectors.
LEMMA VectorType == ASSUME TypeInv PROVE allRobotVectors[vector] \in Vectors
  BY DEF TypeInv, TypeOK, Vectors

\* A connection reaches a backend of the pool.
LEMMA ConnBackend == ASSUME TypeInv, conn # NoConn PROVE conn \in pool /\ conn \in Backends
  BY PoolsAssumption DEF TypeInv, TypeOK

\* Every step of the probe keeps its types.
LEMMA StepTypes == TypeInv /\ [Next]_vars => TypeInv'
<1> SUFFICES ASSUME TypeInv, [Next]_vars PROVE TypeInv'
  OBVIOUS
<1>1. CASE robotDial
  BY <1>1 DEF robotDial, TypeInv, TypeOK, ControlInv
<1>2. CASE DialFails
  <2>1. noise' \in 0..MaxNoise
    BY <1>2, DisturbType DEF DialFails
  <2> QED
    BY <1>2, <2>1 DEF DialFails, Return, TypeInv, TypeOK, ControlInv
<1>3. CASE robotServerRSAKey
  <2>1. noise' \in 0..MaxNoise
    BY <1>3, DisturbType DEF robotServerRSAKey
  <2>2. PICK key : Discovered(key) /\ key \in Keys \cup {NoKey}
    <3>1. conn.key \in Keys
      BY <1>3, ConnBackend DEF robotServerRSAKey, Backends
    <3> QED
      BY <1>3, <3>1 DEF robotServerRSAKey, FlightKey
  <2>3. conn # NoConn /\ pc = "discover"
    BY <1>3 DEF robotServerRSAKey
  <2>4. /\ pub' = key /\ conn' = NoConn
        /\ pc' \in {"exchange", "done"} /\ (pc' = "exchange" => key # NoKey)
        /\ ~verdict' /\ verdict' \in BOOLEAN
        /\ UNCHANGED <<pool, expired, vector, rep, first, correct>>
    BY <2>2, <2>3 DEF Discovered, Return, TypeInv, TypeOK, ControlInv
  <2>5. rep = 0 /\ vector = 1
    BY <2>3 DEF TypeInv, ControlInv
  <2>6. TypeOK'
    BY <2>1, <2>2, <2>4 DEF TypeInv, TypeOK
  <2>7. ControlInv'
    BY <2>2, <2>4, <2>5 DEF ControlInv
  <2> QED
    BY <2>6, <2>7 DEF TypeInv
<1>4. CASE robotExchange
  <2>1. noise' \in 0..MaxNoise
    BY <1>4, DisturbType DEF robotExchange
  <2>2. conn # NoConn /\ pc = "exchange" /\ conn \in Backends
    BY <1>4, ConnBackend DEF robotExchange
  <2>3. \E sig \in Signatures : Reacted(sig)
    BY <1>4, <2>2, VectorType, GenuineType DEF robotExchange
  <2> QED
    BY <2>1, <2>2, <2>3, ReactedTypes
<1>5. CASE ExchangeFails
  <2>1. noise' \in 0..MaxNoise
    BY <1>5, DisturbType DEF ExchangeFails
  <2> QED
    BY <1>5, <2>1 DEF ExchangeFails, Return, TypeInv, TypeOK, ControlInv
<1>6. CASE Judge
  <2>1. conn = NoConn /\ conn' = NoConn
    BY <1>6 DEF Judge, TypeInv, TypeOK, ControlInv
  <2>2. vector' \in 1..5 /\ rep' = 0 /\ first' = NoSignature
        /\ pc' \in {"exchange", "done"} /\ verdict' \in BOOLEAN
        /\ (pc' = "exchange" => ~verdict')
    <3>1. vector \in 1..5 /\ verdict \in BOOLEAN /\ ~verdict /\ pc = "exchange"
      BY <1>6 DEF Judge, TypeInv, TypeOK, ControlInv
    <3>2. CASE vector = 1
      BY <1>6, <3>1, <3>2 DEF Judge
    <3>3. CASE vector # 1 /\ first = correct
      BY <1>6, <3>1, <3>3 DEF Judge, Return
    <3>4. CASE vector # 1 /\ first # correct /\ vector = 5
      BY <1>6, <3>1, <3>4 DEF Judge, Return
    <3>5. CASE vector # 1 /\ first # correct /\ vector # 5
      BY <1>6, <3>1, <3>5 DEF Judge
    <3> QED
      BY <3>2, <3>3, <3>4, <3>5
  <2>3. correct' \in Signatures \cup {NoSignature}
    BY <1>6 DEF Judge, TypeInv, TypeOK
  <2>4. UNCHANGED <<pool, expired, noise, pub>> /\ pc = "exchange"
    BY <1>6 DEF Judge
  <2> QED
    BY <2>1, <2>2, <2>3, <2>4, RepsAssumption DEF TypeInv, TypeOK, ControlInv
<1>7. CASE Expire
  BY <1>7 DEF Expire, TypeInv, TypeOK, ControlInv
<1>8. CASE UNCHANGED vars
  BY <1>8 DEF vars, TypeInv, TypeOK, ControlInv
<1> QED
  BY <1>1, <1>2, <1>3, <1>4, <1>5, <1>6, <1>7, <1>8 DEF Next, Step, Terminated

\* Every reachable state of the probe is well typed.
THEOREM TypeCorrectness == Spec => []TypeOK
<1>1. TypeInv => TypeOK
  BY DEF TypeInv
<1> QED
  BY <1>1, InitTypes, StepTypes, PTL DEF Spec

----------------------------------------------------------------------------
(* No false positive.  The invariant counts: every repetition that agrees  *)
(* on something else than the genuine signature cost the network one       *)
(* disturbance, so Reps of them cost Reps.                                 *)

\* The genuine signature of vector v at backend b, for its own key.
Own(v, b) == readRobotResponse(b.react[allRobotVectors[v]])

Quiet == noise < Reps

NoiseAt(b) ==
  /\ pc = "exchange" => pub = b.key
  /\ pc = "exchange" /\ rep > 0 /\ first # Own(vector, b) => noise >= rep
  /\ pc = "exchange" /\ vector > 1 /\ Quiet => correct = Own(1, b)
  /\ pc = "exchange" /\ Quiet => \A v \in 2..5 : v < vector => Own(v, b) # Own(1, b)
  /\ verdict /\ Quiet => \A v \in 2..5 : Own(v, b) # Own(1, b)

NoiseInv == Uniform => \A b \in pool : NoiseAt(b)

\* At the start nothing is recorded and nothing disturbed.
LEMMA NoiseInit == Init => NoiseInv
<1> SUFFICES ASSUME Init PROVE NoiseInv
  OBVIOUS
<1>1. pc = "discover" /\ ~verdict
  BY DEF Init
<1> QED
  BY <1>1 DEF NoiseInv, NoiseAt

\* A vector encrypted to the key of the pool is seen as it is.
LEMMA GenuineIsOwn ==
  ASSUME Uniform, NEW b \in pool, NEW c \in pool, pub = b.key
  PROVE  Genuine(allRobotVectors[vector], pub, c) = Own(vector, b)
  BY DEF Uniform, Genuine, Seen, Own

\* A stable signature of a quiet probe is the genuine one.
LEMMA StableIsGenuine ==
  ASSUME TypeInv, NEW b, NoiseAt(b), pc = "exchange", rep = Reps, Quiet
  PROVE  first = Own(vector, b)
<1>1. noise \in Nat /\ Reps \in Nat /\ Reps > 0
  BY NoiseAssumption, RepsAssumption DEF TypeInv, TypeOK
<1> QED
  BY <1>1 DEF Quiet, NoiseAt

\* Reading one more reaction keeps the count.
LEMMA NoiseReacted ==
  ASSUME TypeInv, NEW b, NoiseAt(b), pc = "exchange", NEW sig, Reacted(sig),
         \/ sig = Own(vector, b) /\ noise' = noise
         \/ noise' = noise + 1
  PROVE  NoiseAt(b)'
<1>1. /\ noise \in Nat /\ rep \in Nat /\ Reps \in Nat
      /\ noise' \in Nat /\ noise' >= noise
  BY NoiseAssumption, RepsAssumption DEF TypeInv, TypeOK
<1>2. Quiet' => Quiet
  BY <1>1 DEF Quiet
<1>3. ~verdict /\ UNCHANGED <<pub, vector, correct>>
  BY DEF Reacted, TypeInv, ControlInv
<1>4. CASE rep > 0 /\ sig # first
  <2>1. pc' = "done" /\ ~verdict'
    BY <1>4 DEF Reacted, Return
  <2> QED
    BY <2>1 DEF NoiseAt
<1>5. CASE ~(rep > 0 /\ sig # first)
  <2>1. rep' = rep + 1 /\ first' = sig /\ pc' = pc /\ verdict' = verdict
    BY <1>5 DEF Reacted
  <2>2. first' # Own(vector, b) => noise' >= rep'
    BY <1>1, <1>5, <2>1 DEF NoiseAt
  <2>3. Own(vector, b)' = Own(vector, b) /\ vector' = vector
    BY <1>3 DEF Own
  <2> QED
    BY <1>2, <1>3, <2>1, <2>2, <2>3 DEF NoiseAt, Own
<1> QED
  BY <1>4, <1>5

\* No step changes the pool.
LEMMA PoolIsFixed == [Next]_vars => pool' = pool
  BY DEF Next, Step, Terminated, vars, robotDial, DialFails, robotServerRSAKey, Discovered,
         robotExchange, Reacted, ExchangeFails, Judge, Expire

\* Every step keeps what is recorded within what the noise can explain.
LEMMA NoiseStep == TypeInv /\ NoiseInv /\ [Next]_vars => NoiseInv'
<1> SUFFICES ASSUME TypeInv, NoiseInv, [Next]_vars, Uniform', NEW b \in pool'
             PROVE  NoiseAt(b)'
  BY DEF NoiseInv
<1>0. pool' = pool /\ Uniform /\ b \in pool /\ NoiseAt(b)
  BY PoolIsFixed DEF Uniform, NoiseInv
\* The steps that leave the comparison alone, and those that return FALSE.
<1>1. ASSUME UNCHANGED <<pub, vector, rep, first, correct, noise, verdict, pc>>
      PROVE  NoiseAt(b)'
  BY <1>0, <1>1 DEF NoiseAt, Quiet, Own
<1>2. ASSUME Return(FALSE) PROVE NoiseAt(b)'
  BY <1>2 DEF Return, NoiseAt
<1>3. CASE robotDial \/ Expire \/ UNCHANGED vars
  BY <1>1, <1>3 DEF robotDial, Expire, vars
<1>4. CASE DialFails \/ ExchangeFails
  BY <1>2, <1>4 DEF DialFails, ExchangeFails
<1>5. CASE robotServerRSAKey
  <2>1. PICK key : Discovered(key) /\ key \in {conn.key, NoKey}
    BY <1>5 DEF robotServerRSAKey, FlightKey
  <2>2. CASE key = NoKey
    BY <1>2, <2>1, <2>2 DEF Discovered
  <2>3. CASE key # NoKey
    <3>1. conn \in pool
      BY <1>5, ConnBackend DEF robotServerRSAKey
    <3>2. pub' = b.key
      BY <1>0, <2>1, <2>3, <3>1 DEF Discovered, Uniform
    <3>3. vector' = 1 /\ rep' = 0 /\ ~verdict'
      BY <1>5, <2>1, <2>3 DEF robotServerRSAKey, Discovered, TypeInv, ControlInv
    <3> QED
      BY <3>2, <3>3 DEF NoiseAt
  <2> QED
    BY <2>2, <2>3
<1>6. CASE robotExchange
  <2>1. conn \in pool /\ pc = "exchange"
    BY <1>6, ConnBackend DEF robotExchange
  <2>2. Genuine(allRobotVectors[vector], pub, conn) = Own(vector, b)
    BY <1>0, <2>1, GenuineIsOwn DEF NoiseAt
  <2>3. PICK sig : /\ Reacted(sig)
                   /\ \/ sig = Own(vector, b) /\ noise' = noise
                      \/ noise' = noise + 1
    BY <1>6, <2>2 DEF robotExchange, Disturb
  <2> QED
    BY <1>0, <2>1, <2>3, NoiseReacted
<1>7. CASE Judge
  <2>1. /\ pc = "exchange" /\ rep = Reps /\ vector \in 1..5 /\ ~verdict
        /\ rep' = 0 /\ UNCHANGED <<noise, pub>>
    BY <1>7 DEF Judge, TypeInv, TypeOK, ControlInv
  <2>2. Quiet' <=> Quiet
    BY <2>1 DEF Quiet
  <2>3. Quiet => first = Own(vector, b)
    BY <1>0, <2>1, StableIsGenuine
  <2>4. CASE vector = 1
    <3>1. correct' = first /\ vector' = 2 /\ pc' = pc /\ verdict' = verdict
      BY <1>7, <2>4 DEF Judge
    <3>2. Quiet => correct' = Own(1, b)
      BY <2>3, <2>4, <3>1
    <3> QED
      BY <1>0, <2>1, <2>2, <3>1, <3>2 DEF NoiseAt, Own
  <2>5. CASE vector # 1 /\ first = correct
    BY <1>2, <1>7, <2>5 DEF Judge
  <2>6. CASE vector # 1 /\ first # correct
    <3>1. correct' = correct
      BY <1>7, <2>6 DEF Judge
    <3>2. Quiet => Own(vector, b) # Own(1, b) /\ correct = Own(1, b)
      BY <1>0, <2>1, <2>3, <2>6 DEF NoiseAt
    <3>3. Quiet => \A v \in 2..5 : v <= vector => Own(v, b) # Own(1, b)
      BY <1>0, <2>1, <3>2 DEF NoiseAt
    <3>4. CASE vector = 5
      <4>1. pc' = "done"
        BY <1>7, <2>6, <3>4 DEF Judge, Return
      <4>2. Quiet => \A v \in 2..5 : Own(v, b) # Own(1, b)
        BY <3>3, <3>4
      <4> QED
        BY <2>2, <4>1, <4>2 DEF NoiseAt, Own
    <3>5. CASE vector # 5
      <4>1. vector' = vector + 1 /\ pc' = pc /\ verdict' = verdict
        BY <1>7, <2>6, <3>5 DEF Judge
      <4>2. Quiet => \A v \in 2..5 : v < vector' => Own(v, b) # Own(1, b)
        BY <2>1, <3>3, <4>1
      <4> QED
        BY <1>0, <2>1, <2>2, <3>1, <3>2, <4>1, <4>2 DEF NoiseAt, Own
    <3> QED
      BY <3>4, <3>5
  <2> QED
    BY <2>4, <2>5, <2>6
<1> QED
  BY <1>3, <1>4, <1>5, <1>6, <1>7 DEF Next, Step, Terminated

\* What the five vectors show is what the definition of an oracle asks.
LEMMA OwnOracle ==
  ASSUME NEW b, \A v \in 2..5 : Own(v, b) # Own(1, b)
  PROVE  Distinguishes(b)
<1>1. /\ allRobotVectors[1] = "correct" /\ allRobotVectors[2] = "wrongFirstBytes"
      /\ allRobotVectors[3] = "no0x00" /\ allRobotVectors[4] = "0x00InPadding"
      /\ allRobotVectors[5] = "0x00AtWrongPMSPos"
  BY DEF allRobotVectors
<1>2. \A kind \in Malformed : \E v \in 2..5 : kind = allRobotVectors[v]
  BY <1>1 DEF Malformed, Vectors
<1> QED
  BY <1>1, <1>2 DEF Distinguishes, Own

\* A host whose backends all behave alike and that is no oracle is reported only
\* if the network disturbed at least Reps exchanges, whatever their number, the
\* keys, the order of the faults and the moment the context expires.
THEOREM NoFalsePositiveTheorem == Spec => []NoFalsePositive
<1>1. NoiseInv => NoFalsePositive
  BY OwnOracle DEF NoiseInv, NoiseAt, NoFalsePositive, Oracle, Quiet
<1> QED
  BY <1>1, InitTypes, StepTypes, NoiseInit, NoiseStep, PTL DEF Spec

----------------------------------------------------------------------------
(* Findings.  A probe that nothing disturbs, of a uniform pool that answers *)
(* up to ServerHelloDone and shows its oracle, only ends with TRUE.         *)

Shown(b) == b.flight = "done" /\ Visibly(b) /\ Distinguishes(b)

Clean == /\ noise = 0 /\ ~expired /\ Uniform /\ pool # {}
         /\ \A b \in pool : Shown(b)

FindInv == Clean /\ pc = "done" => verdict

\* Reactions of which one at least is no record have signatures of their own.
LEMMA SignaturesKeepApart ==
  ASSUME NEW q \in Reactions, NEW r \in Reactions, q # r, ~({q, r} \subseteq Records)
  PROVE  readRobotResponse(q) # readRobotResponse(r)
  BY DEF Reactions, Records, readRobotResponse, Signature

\* A visible oracle gives each malformed vector another signature than the
\* well-formed one.
LEMMA ShownApart ==
  ASSUME NEW b \in Backends, Shown(b), NEW v \in 2..5 PROVE Own(v, b) # Own(1, b)
<1>1. /\ allRobotVectors[1] = "correct" /\ allRobotVectors[v] # "correct"
      /\ allRobotVectors[v] \in Vectors
  BY DEF allRobotVectors, Vectors
<1>2. allRobotVectors[v] \in Malformed /\ "correct" \in Vectors
  BY <1>1 DEF Malformed, Vectors
<1>3. b.react[allRobotVectors[v]] \in Reactions /\ b.react["correct"] \in Reactions
  BY <1>2 DEF Backends, Malformed
<1> QED
  BY <1>1, <1>2, <1>3, SignaturesKeepApart DEF Own, Shown, Visibly, Distinguishes

\* Every step keeps the promise.
LEMMA FindStep == TypeInv /\ NoiseInv /\ FindInv /\ [Next]_vars => FindInv'
<1> SUFFICES ASSUME TypeInv, NoiseInv, FindInv, [Next]_vars, Clean', pc' = "done", ~verdict'
             PROVE  FALSE
  BY DEF FindInv
<1>1. pool' = pool /\ noise \in Nat
  BY PoolIsFixed, NoiseAssumption DEF TypeInv, TypeOK
<1>2. Uniform /\ pool # {} /\ (\A b \in pool : Shown(b)) /\ noise' = 0 /\ ~expired'
  BY <1>1 DEF Clean, Uniform
<1>3. \A b \in pool : b \in Backends /\ NoiseAt(b)
  BY <1>2, PoolsAssumption DEF NoiseInv, TypeInv, TypeOK
<1>4. ~Disturb
  BY <1>1, <1>2 DEF Disturb
<1>5. CASE DialFails
  BY <1>2, <1>4, <1>5 DEF DialFails
<1>6. CASE robotServerRSAKey
  <2>1. Discovered(FlightKey(conn.flight, conn.key)) /\ conn # NoConn
    BY <1>4, <1>6 DEF robotServerRSAKey
  <2>2. conn \in pool /\ conn.flight = "done" /\ conn.key \in Keys
    BY <1>2, <2>1, ConnBackend DEF Shown, Backends
  <2>3. FlightKey(conn.flight, conn.key) # NoKey
    BY <2>2, KeyAssumption DEF FlightKey
  <2> QED
    BY <1>6, <2>1, <2>3 DEF Discovered, robotServerRSAKey
<1>7. CASE robotExchange
  <2>1. conn \in pool /\ pc = "exchange"
    BY <1>7, ConnBackend DEF robotExchange
  <2>2. Reacted(Own(vector, conn)) /\ noise = 0
    BY <1>2, <1>3, <1>4, <1>7, <2>1, GenuineIsOwn DEF robotExchange, NoiseAt
  <2>3. rep > 0 /\ Own(vector, conn) # first
    BY <2>1, <2>2 DEF Reacted
  <2> QED
    BY <1>3, <2>1, <2>2, <2>3 DEF NoiseAt, TypeInv, TypeOK
<1>8. CASE ExchangeFails
  <2>1. conn \in pool
    BY <1>8, ConnBackend DEF ExchangeFails
  <2> QED
    BY <1>2, <1>4, <1>8, <2>1 DEF ExchangeFails, Shown
<1>9. CASE Judge
  <2>1. pc = "exchange" /\ rep = Reps /\ noise = 0 /\ vector \in 1..5
    BY <1>2, <1>9 DEF Judge, TypeInv, TypeOK
  <2>2. Quiet
    BY <2>1, RepsAssumption DEF Quiet
  <2>3. vector # 1 /\ first = correct
    BY <1>9, <2>1 DEF Judge, Return
  <2>4. PICK b \in pool : TRUE
    BY <1>2
  <2>5. first = Own(vector, b) /\ correct = Own(1, b)
    BY <1>3, <2>1, <2>2, <2>3, StableIsGenuine DEF NoiseAt
  <2>6. b \in Backends /\ Shown(b) /\ vector \in 2..5
    BY <1>2, <1>3, <2>1, <2>3
  <2>7. Own(vector, b) # Own(1, b)
    BY <2>6, ShownApart
  <2> QED
    BY <2>3, <2>5, <2>7
<1>10. CASE robotDial \/ Expire
  BY <1>10 DEF robotDial, Expire
<1>11. CASE UNCHANGED vars
  BY <1>2, <1>11 DEF vars, FindInv, Clean
<1> QED
  BY <1>5, <1>6, <1>7, <1>8, <1>9, <1>10, <1>11 DEF Next, Step, Terminated

\* FindsTheOracle: an oracle that no network disturbs is found, whatever its key
\* and its reactions, unless the context expires or the blocks are told apart
\* only by the type of a record that is no alert.
THEOREM FindsTheOracleTheorem == Spec => []FindsTheOracle
<1>1. Init => FindInv
  BY DEF Init, FindInv
<1>2. FindInv => FindsTheOracle
  BY DEF FindInv, Clean, Shown, FindsTheOracle, Oracle
<1> QED
  BY <1>1, <1>2, InitTypes, StepTypes, NoiseInit, NoiseStep, FindStep, PTL DEF Spec

----------------------------------------------------------------------------
(* The contract.  The safety part of the refinement: the probe starts as    *)
(* the contract does, and each of its steps decides or changes nothing that *)
(* the contract speaks of.                                                  *)

\* Nothing is sent to, and nothing found in, an empty pool.
ReachInv == pc = "exchange" \/ verdict => pool # {}

LEMMA ReachStep == TypeInv /\ ReachInv /\ [Next]_vars => ReachInv'
<1> SUFFICES ASSUME TypeInv, ReachInv, [Next]_vars, pool = {} PROVE ReachInv'
  BY PoolIsFixed DEF ReachInv
<1>1. pc # "exchange" /\ ~verdict /\ conn = NoConn
  BY DEF ReachInv, TypeInv, TypeOK
<1>2. pc' # "exchange" /\ ~verdict'
  BY <1>1 DEF Next, Step, Terminated, vars, robotDial, DialFails, robotServerRSAKey,
              robotExchange, ExchangeFails, Judge, Expire, Return
<1> QED
  BY <1>2 DEF ReachInv

\* Before it returns the probe has found nothing; a probe that has returned stops.
LEMMA DecidesOnce ==
  ASSUME TypeInv, [Next]_vars
  PROVE  \/ pc # "done" /\ pc' = "done" /\ ~verdict
         \/ pc # "done" /\ pc' # "done" /\ ~verdict /\ ~verdict'
         \/ UNCHANGED <<pool, noise, pc, verdict>>
<1>1. pc = "done" => UNCHANGED vars
  BY DEF Next, Step, Terminated, robotDial, DialFails, robotServerRSAKey, robotExchange,
         ExchangeFails, Judge, Expire
<1>2. pc # "done" => ~verdict
  BY DEF TypeInv, TypeOK, ControlInv
<1>3. pc' # "done" => ~verdict'
  BY StepTypes DEF TypeInv, TypeOK, ControlInv
<1> QED
  BY <1>1, <1>2, <1>3 DEF vars

\* The safety part of ImplementsContract: a probe that decides claims what the
\* pool has, or nothing, and it decides once.
THEOREM ContractTheorem == Spec => Contract!Init /\ [][Contract!Decide]_(Contract!contractVars)
<1>1. Init => Contract!Init
  BY DEF Init, Contract!Init
<1>2. TypeInv /\ NoFalsePositive' /\ ReachInv' /\ [Next]_vars
        => [Contract!Decide]_(Contract!contractVars)
  <2> SUFFICES ASSUME TypeInv, NoFalsePositive', ReachInv', [Next]_vars
               PROVE  Contract!Decide \/ UNCHANGED Contract!contractVars
    OBVIOUS
  <2>1. pool' = pool /\ (Uniform' <=> Uniform) /\ (Oracle' <=> Oracle)
    BY PoolIsFixed DEF Uniform, Oracle
  <2>2. CASE pc # "done" /\ pc' = "done" /\ ~verdict
    <3>1. verdict' /\ Uniform' /\ noise' < Reps => Oracle' /\ pool' # {}
      BY DEF NoFalsePositive, ReachInv
    <3> QED
      BY <2>1, <2>2, <3>1 DEF Contract!Decide
  <2>3. CASE pc # "done" /\ pc' # "done" /\ ~verdict /\ ~verdict'
    BY <2>1, <2>3 DEF Contract!contractVars
  <2>4. CASE UNCHANGED <<pool, noise, pc, verdict>>
    BY <2>1, <2>4 DEF Contract!contractVars
  <2> QED
    BY <2>2, <2>3, <2>4, DecidesOnce
<1>3. Init => ReachInv
  BY DEF Init, ReachInv
<1> QED
  BY <1>1, <1>2, <1>3, InitTypes, StepTypes, ReachStep, NoFalsePositiveTheorem, PTL DEF Spec
=============================================================================
