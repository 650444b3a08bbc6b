----------------------------- MODULE RobotProbe -----------------------------
(***************************************************************************)
(* ProbeROBOT (internal/handshake/robot.go): read the server's RSA key     *)
(* over one connection, then send each PKCS#1 vector Reps times, every     *)
(* time over a fresh connection, and compare the signatures of the         *)
(* reactions.  The server is an oracle when its reaction to the            *)
(* well-formed vector differs from its reaction to every malformed one.    *)
(*                                                                         *)
(* A connection may reach any backend of the pool, the network may replace *)
(* a reaction, cut a handshake or refuse a dial MaxNoise times, and the    *)
(* context may expire; a connection in flight does not notice.             *)
(***************************************************************************)
EXTENDS Integers, Sequences

CONSTANTS Keys,       \* RSA public keys
          NoKey,      \* the nil key
          Pools,      \* the pools of backends a probe may meet
          Reps,       \* repetitions of each vector
          MaxNoise,   \* bound: what the network may disturb
          NoConn      \* no connection is open

----------------------------------------------------------------------------
(* The vectors, in the order of allRobotVectors. *)

allRobotVectors ==
  <<"correct", "wrongFirstBytes", "no0x00", "0x00InPadding", "0x00AtWrongPMSPos">>
Vectors   == {allRobotVectors[i] : i \in 1..5}
Malformed == Vectors \ {"correct"}

----------------------------------------------------------------------------
(* Reactions: what readRobotResponse meets on the connection, and the      *)
(* signature it makes of it.                                               *)

Reactions == {"bad_record_mac", "decrypt_error", "cut_alert", "handshake",
              "other_record", "EOF", "reset", "silence", "failure"}

Signature(kind, level, desc) == [kind |-> kind, alertLevel |-> level, alertDesc |-> desc]

\* Mutant: an alert is an alert.
readRobotResponseKindOnly(reaction) ==
  CASE reaction \in {"bad_record_mac", "decrypt_error", "cut_alert"} -> Signature("alert", 0, 0)
    [] reaction \in {"handshake", "other_record"} -> Signature("handshake", 0, 0)
    [] reaction = "EOF"                -> Signature("closed", 0, 0)
    [] reaction \in {"reset", "failure"} -> Signature("reset", 0, 0)
    [] reaction = "silence"            -> Signature("timeout", 0, 0)

readRobotResponse(reaction) ==
  CASE reaction = "bad_record_mac" -> Signature("alert", 2, 20)
    [] reaction = "decrypt_error"  -> Signature("alert", 2, 51)
    [] reaction = "cut_alert"      -> Signature("alert", 0, 0)
    [] reaction \in {"handshake", "other_record"} -> Signature("handshake", 0, 0)
    [] reaction = "EOF"            -> Signature("closed", 0, 0)
    [] reaction = "reset"          -> Signature("reset", 0, 0)
    [] reaction = "silence"        -> Signature("timeout", 0, 0)
    [] reaction = "failure"        -> Signature("error", 0, 0)

Signatures == {readRobotResponse(r) : r \in Reactions}
NoSignature == Signature("", 0, 0)

(***************************************************************************)
(* A backend: its key, how its first flight answers an RSA-only            *)
(* ClientHello (done: up to ServerHelloDone; cut: it stops after the       *)
(* certificate; notRSA: another kind of leaf; refused: an alert), and its  *)
(* reaction to each vector.                                                *)
(***************************************************************************)
Flights  == {"done", "cut", "notRSA", "refused"}
Backends == [key : Keys, flight : Flights, react : [Vectors -> Reactions]]

\* readServerHelloAndCert returns the key it has when the stream breaks off,
\* and no key after an alert or for a leaf that is not RSA.
FlightKey(flight, key) == IF flight \in {"done", "cut"} THEN key ELSE NoKey

\* What a backend decrypts: the block buildPKCS1Vector laid out for the kind,
\* or, encrypted to another key, a block without the leading 00 02.
Seen(kind, key, b) == IF key = b.key THEN kind ELSE "wrongFirstBytes"

\* The signature backend b gives vector kind encrypted to key.
Genuine(kind, key, b) == readRobotResponse(b.react[Seen(kind, key, b)])

ASSUME KeyAssumption   == NoKey \notin Keys
ASSUME PoolsAssumption == \A pool \in Pools : pool \subseteq Backends
ASSUME RepsAssumption  == Reps \in Nat \ {0}
ASSUME NoiseAssumption == MaxNoise \in Nat
ASSUME ConnAssumption  == NoConn \notin Backends

----------------------------------------------------------------------------

VARIABLES pool,       \* the backends behind the address, fixed
          expired,    \* the context is done
          noise,      \* what the network has disturbed
          pc,         \* "discover", "exchange", "done"
          conn,       \* the backend connected to
          pub,        \* the key the vectors are encrypted to
          vector,     \* index in allRobotVectors
          rep,        \* repetitions of it that agree
          first,      \* the signature of the first of them
          correct,    \* the stable signature of the well-formed vector
          verdict     \* what ProbeROBOT returns

vars == <<pool, expired, noise, pc, conn, pub, vector, rep, first, correct, verdict>>

Init ==
  /\ pool \in Pools
  /\ expired = FALSE /\ noise = 0
  /\ pc = "discover" /\ conn = NoConn /\ pub = NoKey
  /\ vector = 1 /\ rep = 0 /\ first = NoSignature /\ correct = NoSignature
  /\ verdict = FALSE

Disturb == noise < MaxNoise /\ noise' = noise + 1

Return(result) == pc' = "done" /\ verdict' = result

----------------------------------------------------------------------------

\* robotDial: a connection for the discovery or for the next exchange.
robotDial ==
  /\ pc # "done" /\ conn = NoConn /\ rep < Reps
  /\ ~expired
  /\ conn' \in pool
  /\ UNCHANGED <<pool, expired, noise, pc, pub, vector, rep, first, correct, verdict>>

\* No connection, no conclusion.
DialFails ==
  /\ pc # "done" /\ conn = NoConn /\ rep < Reps
  /\ IF expired \/ pool = {} THEN UNCHANGED noise ELSE Disturb
  /\ Return(FALSE)
  /\ UNCHANGED <<pool, expired, conn, pub, vector, rep, first, correct>>

\* robotServerRSAKey ignores whether the flight was complete: a certificate is
\* enough.  A disturbed flight breaks off before it.
Discovered(key) ==
  /\ pub' = key
  /\ IF key = NoKey THEN Return(FALSE) ELSE pc' = "exchange" /\ UNCHANGED verdict
  /\ conn' = NoConn
  /\ UNCHANGED <<pool, expired, vector, rep, first, correct>>

robotServerRSAKey ==
  /\ pc = "discover" /\ conn # NoConn
  /\ \/ Discovered(FlightKey(conn.flight, conn.key)) /\ UNCHANGED noise
     \/ Discovered(NoKey) /\ Disturb

\* Mutant: keeps the last signature without comparing.
ReactedLast(sig) ==
  /\ rep' = rep + 1 /\ first' = sig /\ conn' = NoConn
  /\ UNCHANGED <<pool, expired, pc, pub, vector, correct, verdict>>

\* robotExchange returned signature sig: stableSignature keeps the first one
\* and gives up at the first that differs.
Reacted(sig) ==
  /\ IF rep > 0 /\ sig # first
     THEN Return(FALSE) /\ UNCHANGED <<rep, first>>
     ELSE /\ rep' = rep + 1
          /\ first' = sig
          /\ UNCHANGED <<pc, verdict>>
  /\ conn' = NoConn
  /\ UNCHANGED <<pool, expired, pub, vector, correct>>

robotExchange ==
  /\ pc = "exchange" /\ conn # NoConn /\ conn.flight = "done"
  /\ \/ Reacted(Genuine(allRobotVectors[vector], pub, conn)) /\ UNCHANGED noise
     \/ \E sig \in Signatures : Reacted(sig) /\ Disturb

\* The handshake does not get as far as ServerHelloDone, or a write fails.
ExchangeFails ==
  /\ pc = "exchange" /\ conn # NoConn
  /\ IF conn.flight = "done" THEN Disturb ELSE UNCHANGED noise
  /\ Return(FALSE) /\ conn' = NoConn
  /\ UNCHANGED <<pool, expired, pub, vector, rep, first, correct>>

\* Mutant: runs past the last vector.
JudgeOneTooMany ==
  /\ pc = "exchange" /\ rep = Reps
  /\ IF vector = 1
     THEN correct' = first /\ vector' = 2 /\ UNCHANGED <<pc, verdict>>
     ELSE /\ IF first = correct THEN Return(FALSE) /\ UNCHANGED vector
             ELSE IF vector = 6 THEN Return(TRUE) /\ UNCHANGED vector
             ELSE vector' = vector + 1 /\ UNCHANGED <<pc, verdict>>
          /\ UNCHANGED correct
  /\ rep' = 0 /\ first' = NoSignature
  /\ UNCHANGED <<pool, expired, noise, conn, pub>>

\* Mutant: one malformed vector that differs is enough.
JudgeAny ==
  /\ pc = "exchange" /\ rep = Reps
  /\ IF vector = 1
     THEN correct' = first /\ vector' = 2 /\ UNCHANGED <<pc, verdict>>
     ELSE /\ IF first # correct THEN Return(TRUE) /\ UNCHANGED vector
             ELSE IF vector = 5 THEN Return(FALSE) /\ UNCHANGED vector
             ELSE vector' = vector + 1 /\ UNCHANGED <<pc, verdict>>
          /\ UNCHANGED correct
  /\ rep' = 0 /\ first' = NoSignature
  /\ UNCHANGED <<pool, expired, noise, conn, pub>>

\* ProbeROBOT's loop: the vector in hand has a stable signature.
Judge ==
  /\ pc = "exchange" /\ rep = Reps
  /\ IF vector = 1
     THEN correct' = first /\ vector' = 2 /\ UNCHANGED <<pc, verdict>>
     ELSE /\ IF first = correct THEN Return(FALSE) /\ UNCHANGED vector
             ELSE IF vector = 5 THEN Return(TRUE) /\ UNCHANGED vector
             ELSE vector' = vector + 1 /\ UNCHANGED <<pc, verdict>>
          /\ UNCHANGED correct
  /\ rep' = 0 /\ first' = NoSignature
  /\ UNCHANGED <<pool, expired, noise, conn, pub>>

Expire ==
  /\ pc # "done" /\ ~expired /\ expired' = TRUE
  /\ UNCHANGED <<pool, noise, pc, conn, pub, vector, rep, first, correct, verdict>>

Terminated == pc = "done" /\ UNCHANGED vars

Step == robotDial \/ DialFails \/ robotServerRSAKey \/ robotExchange \/ ExchangeFails \/ Judge

Next == Step \/ Expire \/ Terminated

\* Every dial, read and write of the probe has a deadline.
Spec == Init /\ [][Next]_vars /\ WF_vars(Step)

----------------------------------------------------------------------------
(* Properties. *)

\* Every variable has its type.
TypeOK ==
  /\ pool \in Pools
  /\ expired \in BOOLEAN
  /\ noise \in 0..MaxNoise
  /\ pc \in {"discover", "exchange", "done"}
  /\ conn \in pool \cup {NoConn}
  /\ pub \in Keys \cup {NoKey}
  /\ vector \in 1..5
  /\ rep \in 0..Reps
  /\ first \in Signatures \cup {NoSignature}
  /\ correct \in Signatures \cup {NoSignature}
  /\ verdict \in BOOLEAN

\* Bleichenbacher's oracle: the backend tells a well-formed block from every
\* malformed one.
Distinguishes(b) == \A kind \in Malformed : b.react[kind] # b.react["correct"]

Oracle == \A b \in pool : Distinguishes(b)

Uniform == \A b, c \in pool : b.key = c.key /\ b.react = c.react

\* Less noise than repetitions never makes an oracle of a server that is none:
\* in the repetitions of each vector one at least was genuine.
NoFalsePositive == verdict /\ noise < Reps /\ Uniform => Oracle

\* An oracle no network disturbs is found, unless the context expired, or it tells
\* the blocks apart only by the type of a record that is no alert.
Records == {"handshake", "other_record"}
Visibly(b) == \A kind \in Malformed : ~{b.react[kind], b.react["correct"]} \subseteq Records

FindsTheOracle ==
  pc = "done" /\ noise = 0 /\ ~expired /\ Uniform /\ pool # {} /\ Oracle
    /\ (\A b \in pool : b.flight = "done" /\ Visibly(b))
  => verdict

\* The probe implements the contract Scan assumes of it, as far as the contract
\* can hold at all: for backends that behave alike, and less noise than
\* repetitions.  Under any noise it decides once, and in the end it does decide.
Contract == INSTANCE ProbeContract
  WITH Claims  <- {"Robot"},
       present <- IF Oracle /\ pool # {} THEN {"Robot"} ELSE {},
       claimed <- IF verdict /\ Uniform /\ noise < Reps THEN {"Robot"} ELSE {},
       decided <- pc = "done"

ImplementsContract == Contract!Spec
=============================================================================
