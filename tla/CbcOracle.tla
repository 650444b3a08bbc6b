----------------------------- MODULE CbcOracle -----------------------------
(***************************************************************************)
(* ProbeCBCPaddingOracles (internal/handshake/cbc_oracle.go) and the       *)
(* crafted records of internal/handshake/cbc.go: after a gate session,     *)
(* three vectors are sent Reps times each, every time inside a fresh TLS   *)
(* 1.2 CBC session, and the three stable reactions are compared.           *)
(*                                                                         *)
(* Records are modelled by their layout (lengths, pad value, zero fill,    *)
(* whether the MAC is intact), which is all that decides what a receiver   *)
(* makes of them.  The handshake that establishes a session is one step    *)
(* here, which succeeds or fails.                                          *)
(***************************************************************************)
EXTENDS Integers, Sequences, FiniteSets

CONSTANTS Servers,    \* the servers a probe may meet
          HostLens,   \* lengths of the host name in the crafted request
          Reps,       \* repetitions of each vector
          MaxNoise    \* bound: what the network may disturb

----------------------------------------------------------------------------
(* Records: AES blocks and HMAC-SHA1, for every suite of cbcSuites. *)

BlockLen   == 16
MacLen     == 20
RequestLen == 45     \* "GET / HTTP/1.1 ... Connection: close" without the host
NoOverride == -1

vectors == <<"badMAC", "badPad", "zeroLen">>

\* Mutant: the MAC of the badMAC vector is left intact.
ForceBadMACForgotten == [badMAC |-> FALSE, badPad |-> FALSE, zeroLen |-> TRUE]

\* cbcExchange's switch.
ForceBadMAC == [badMAC |-> TRUE, badPad |-> FALSE, zeroLen |-> TRUE]
PadOverride == [badMAC |-> NoOverride, badPad |-> 255, zeroLen |-> 0]

\* The padding of a plaintext of content and MAC that ends at offset end: how
\* many bytes, all of the same value.
PadBytes(override, end) ==
  IF override # NoOverride THEN [count |-> override + 1, value |-> override]
  ELSE LET padLen == (BlockLen - ((end + 1) % BlockLen)) % BlockLen
       IN [count |-> padLen + 1, value |-> padLen]

macThenPad(vec, content) ==
  LET end == content + MacLen
      pad == PadBytes(PadOverride[vec], end)
  IN [content |-> content, macIntact |-> ~ForceBadMAC[vec],
      padCount |-> pad.count, padValue |-> pad.value,
      len |-> end + pad.count, fill |-> 0]

\* encryptRecord fills an unaligned plaintext with zero bytes.
encryptRecord(plain) ==
  LET fill == (BlockLen - (plain.len % BlockLen)) % BlockLen
  IN [plain EXCEPT !.fill = fill, !.len = plain.len + fill]

Crafted(vec, hostLen) == encryptRecord(macThenPad(vec, RequestLen + hostLen))

(***************************************************************************)
(* The receiver (external, RFC 5246 6.2.3.2): the last byte is the padding *)
(* length, every padding byte equals it, the MAC stands before it.         *)
(***************************************************************************)
LastByte(r) == IF r.fill > 0 THEN 0 ELSE r.padValue
PaddingOK(r) ==
  /\ LastByte(r) + 1 + MacLen <= r.len
  /\ r.fill = 0 => r.padValue + 1 <= r.padCount
MacOK(r) == r.macIntact /\ r.len - (LastByte(r) + 1) - MacLen = r.content

RecordClasses == {"good", "badMAC", "badMAC zero pad", "badPad"}

RecordClass(r) ==
  IF ~PaddingOK(r)        THEN "badPad"
  ELSE IF MacOK(r)        THEN "good"
  ELSE IF LastByte(r) = 0 THEN "badMAC zero pad"
  ELSE "badMAC"

----------------------------------------------------------------------------
(* Reactions: what arrives, and what readReaction makes of it.             *)

Arrivals == {"encrypted_alert", "plain_alert", "cut_alert", "data", "EOF",
             "reset", "silence", "failure"}

Reaction(kind, tag) == [kind |-> kind, tag |-> tag]

PlainTag == -1
CutTag   == 0

\* The tag of an alert is its first two bytes: level and description of a plain
\* one, the start of the explicit IV of an encrypted one.  IVs are random:
\* iv is a value no other record has.
readReaction(arrival, iv) ==
  CASE arrival = "encrypted_alert" -> Reaction("alert", iv)
    [] arrival = "plain_alert"     -> Reaction("alert", PlainTag)
    [] arrival = "cut_alert"       -> Reaction("alert", CutTag)
    [] arrival = "data"            -> Reaction("data", 0)
    [] arrival = "EOF"             -> Reaction("closed", 0)
    [] arrival = "reset"           -> Reaction("reset", 0)
    [] arrival = "silence"         -> Reaction("timeout", 0)
    [] arrival = "failure"         -> Reaction("error", 0)

Claims == {"GoldenDoodle", "ZombiePoodle", "SleepingPoodle", "ZeroLengthPaddingCVE"}

\* Mutant: compares the kinds of the reactions only.
classifyKinds(badMAC, badPad, zeroLen) ==
  {c \in Claims :
     \/ c = "GoldenDoodle" /\ badMAC.kind # badPad.kind
     \/ c = "ZombiePoodle" /\ badMAC.kind # badPad.kind /\ badPad.kind # "alert"
     \/ /\ c = "ZeroLengthPaddingCVE"
        /\ zeroLen.kind # badPad.kind /\ zeroLen.kind # badMAC.kind}

classifyCBC(badMAC, badPad, zeroLen) ==
  {c \in Claims :
     \/ /\ c = "GoldenDoodle" /\ badMAC # badPad
     \/ /\ c = "ZombiePoodle" /\ badMAC # badPad
        /\ badPad.kind # "alert" /\ badPad.kind # badMAC.kind
     \/ /\ c = "SleepingPoodle" /\ badMAC # badPad
        /\ badPad.kind = "alert" /\ badMAC.kind = "alert"
     \/ /\ c = "ZeroLengthPaddingCVE" /\ zeroLen # badPad /\ zeroLen # badMAC}

----------------------------------------------------------------------------
(* A server: whether it negotiates a CBC suite, and what it sends back for *)
(* each class of record.                                                   *)

ServerType == [cbc : BOOLEAN, react : [RecordClasses -> Arrivals]]

ASSUME ServersAssumption  == Servers \subseteq ServerType
ASSUME HostLensAssumption == HostLens \subseteq 1..253
ASSUME RepsAssumption     == Reps \in Nat \ {0, 1} \* one repetition has nothing to agree with
ASSUME NoiseAssumption    == MaxNoise \in Nat

VARIABLES server, hostLen,  \* fixed
          expired,          \* the context is done: the caller's, or the 12 s
          noise,            \* what the network has disturbed
          pc,               \* "gate", "exchange", "done"
          session,          \* a CBC session is established
          exchanges,        \* reactions read so far
          vector, rep,      \* index in vectors, repetitions that agree
          first,            \* reaction of the first repetition
          stable,           \* the stable reactions of the vectors done
          claims            \* what the probe returns

scenario == <<server, hostLen>>
vars == <<scenario, expired, noise, pc, session, exchanges, vector, rep, first,
          stable, claims>>

NoReaction == Reaction("", 0)

Init ==
  /\ server \in Servers /\ hostLen \in HostLens
  /\ expired = FALSE /\ noise = 0
  /\ pc = "gate" /\ session = FALSE /\ exchanges = 0
  /\ vector = 1 /\ rep = 0 /\ first = NoReaction /\ stable = <<>>
  /\ claims = {}

Disturb == noise < MaxNoise /\ noise' = noise + 1

Return(result) == pc' = "done" /\ claims' = result

----------------------------------------------------------------------------

\* establishCBCSession, for the gate and for each exchange.
establishCBCSession ==
  /\ pc # "done" /\ ~session /\ rep < Reps
  /\ ~expired /\ server.cbc
  /\ session' = TRUE
  /\ UNCHANGED <<scenario, expired, noise, pc, exchanges, vector, rep, first,
                 stable, claims>>

\* No session: the whole family is not applicable, or the result is noisy.
SessionFails ==
  /\ pc # "done" /\ ~session /\ rep < Reps
  /\ IF expired \/ ~server.cbc THEN UNCHANGED noise ELSE Disturb
  /\ Return({})
  /\ UNCHANGED <<scenario, expired, session, exchanges, vector, rep, first, stable>>

\* The gate session is closed at once.
PassGate ==
  /\ pc = "gate" /\ session
  /\ pc' = "exchange" /\ session' = FALSE
  /\ UNCHANGED <<scenario, expired, noise, exchanges, vector, rep, first, stable,
                 claims>>

Expected == server.react[RecordClass(Crafted(vectors[vector], hostLen))]

\* Mutant: keeps the last reaction without comparing.
ReactedLast(reaction) ==
  /\ rep' = rep + 1 /\ first' = reaction
  /\ exchanges' = exchanges + 1 /\ session' = FALSE
  /\ UNCHANGED <<scenario, expired, pc, vector, stable, claims>>

\* stableCBCReaction keeps the first reaction and gives up at one that differs.
Reacted(reaction) ==
  /\ IF rep > 0 /\ reaction # first
     THEN Return({}) /\ UNCHANGED <<rep, first>>
     ELSE /\ rep' = rep + 1
          /\ first' = reaction
          /\ UNCHANGED <<pc, claims>>
  /\ exchanges' = exchanges + 1
  /\ session' = FALSE
  /\ UNCHANGED <<scenario, expired, vector, stable>>

cbcExchange ==
  /\ pc = "exchange" /\ session
  /\ \/ Reacted(readReaction(Expected, exchanges + 1)) /\ UNCHANGED noise
     \/ \E arrival \in Arrivals :
          Reacted(readReaction(arrival, exchanges + 1)) /\ Disturb

\* sendCrafted's write fails.
SendFails ==
  /\ pc = "exchange" /\ session
  /\ Disturb
  /\ Return({}) /\ session' = FALSE
  /\ UNCHANGED <<scenario, expired, exchanges, vector, rep, first, stable>>

\* Mutant: keeps the vector it has judged and so repeats it.
JudgeInPlace ==
  /\ pc = "exchange" /\ rep = Reps
  /\ stable' = Append(stable, first)
  /\ IF Len(stable) = Len(vectors)
     THEN Return(classifyCBC(stable[1], stable[2], first))
     ELSE UNCHANGED <<pc, claims>>
  /\ rep' = 0 /\ first' = NoReaction
  /\ UNCHANGED <<scenario, expired, noise, session, exchanges, vector>>

\* The vector in hand is stable: the next one, or the decision.
Judge ==
  /\ pc = "exchange" /\ rep = Reps
  /\ stable' = Append(stable, first)
  /\ IF vector = Len(vectors)
     THEN Return(classifyCBC(stable[1], stable[2], first)) /\ UNCHANGED vector
     ELSE vector' = vector + 1 /\ UNCHANGED <<pc, claims>>
  /\ rep' = 0 /\ first' = NoReaction
  /\ UNCHANGED <<scenario, expired, noise, session, exchanges>>

Expire ==
  /\ pc # "done" /\ ~expired /\ expired' = TRUE
  /\ UNCHANGED <<scenario, noise, pc, session, exchanges, vector, rep, first,
                 stable, claims>>

Terminated == pc = "done" /\ UNCHANGED vars

Step ==
  establishCBCSession \/ SessionFails \/ PassGate \/ cbcExchange \/ SendFails \/ Judge

Next == Step \/ Expire \/ Terminated

\* Dials, reads and writes have deadlines.
Spec == Init /\ [][Next]_vars /\ WF_vars(Step)

----------------------------------------------------------------------------
(* Properties. *)

AllReactions == [kind : {"alert", "data", "closed", "reset", "timeout", "error"},
                 tag : PlainTag..(3 * Reps)]

\* Every variable has its type.
TypeOK ==
  /\ server \in Servers /\ hostLen \in HostLens
  /\ expired \in BOOLEAN /\ noise \in 0..MaxNoise
  /\ pc \in {"gate", "exchange", "done"} /\ session \in BOOLEAN
  /\ exchanges \in 0..(3 * Reps)
  /\ vector \in 1..3 /\ rep \in 0..Reps
  /\ first \in AllReactions \cup {NoReaction}
  /\ stable \in Seq(AllReactions) /\ Len(stable) <= 3
  /\ claims \subseteq Claims

Arrival(vec) == server.react[RecordClass(Crafted(vec, hostLen))]

\* The server answers two of the three records differently.
Differs == \E v, w \in {vectors[i] : i \in 1..3} : Arrival(v) # Arrival(w)

\* Less noise than repetitions never makes a claim about a server that answers
\* the three records alike, in whatever way it answers them.
NoClaimWithoutDifference == claims # {} /\ noise < Reps => Differs

\* An undisturbed probe claims something of a server that answers the records, as
\* they are crafted, differently, as long as no answer is an encrypted alert (see
\* RecordTypesTellApart).
FindsTheDifference ==
  pc = "done" /\ noise = 0 /\ ~expired /\ server.cbc /\ Differs
    /\ (\A i \in 1..3 : Arrival(vectors[i]) # "encrypted_alert")
  => claims # {}

\* A hardened server answers every record it must reject in the same way.
Rejects  == RecordClasses \ {"good"}
Hardened == \A c, d \in Rejects : server.react[c] = server.react[d]

\* The probe implements the contract Scan assumes of it, as far as it can: when
\* the badPad record is no well-formed one (see HardenedIsClean) and with less
\* noise than repetitions.  Under any noise it decides once, and in the end it
\* does decide.
Contract == INSTANCE ProbeContract
  WITH present <- IF Hardened THEN {} ELSE Claims,
       claimed <- IF /\ noise < Reps
                     /\ RecordClass(Crafted("badPad", hostLen)) # "good"
                  THEN claims ELSE {},
       decided <- pc = "done"

ImplementsContract == Contract!Spec

----------------------------------------------------------------------------
(* What the comments promise and the records do otherwise. *)

\* cbc_oracle.go: "a correctly-implemented (constant-time, Lucky13-hardened)
\* server treats badMAC, badPad and zeroLen IDENTICALLY ... There is then NO
\* oracle".
HardenedIsClean == Hardened => claims = {}

\* cbc.go: "Servers that encrypt the alert still expose the alert RECORD type,
\* which is the primary discriminator we rely on", and "We therefore key the
\* reaction on the alert record TYPE plus its fragment LENGTH ... stable per
\* server behaviour".  A server that answers one record with an alert and another
\* with something else is told apart by an undisturbed probe.
TypeOfAnswer(vec) == readReaction(Arrival(vec), 0).kind

RecordTypesTellApart ==
  pc = "done" /\ noise = 0 /\ ~expired /\ server.cbc
    /\ (\E v, w \in {vectors[i] : i \in 1..3} : TypeOfAnswer(v) # TypeOfAnswer(w))
  => claims # {}
=============================================================================
