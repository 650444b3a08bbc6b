# tlsscan in TLA+

A model of `tlsscan`, the TLS scanner, as TLA+ modules that TLC checks on small
instances and as theorems that TLAPS proves for every instance.

## The system

`tlsscan.Scan` opens one connection after the other to a host, collects evidence
(versions, certificate, suites, flaws), and grades it. An HTTP service and a
command line call it, each under a deadline of its own.

| Part | Source | State it keeps | Operations |
|---|---|---|---|
| Scan engine | `pkg/tlsscan/scanner.go`, `ciphers.go`, `vulns.go` | the `Result` so far | `Scan`, `probeProtocols`, `handshakeAt`, `fetchCertificate`, `probeCiphers`, `probeVulnerabilities`, `fallbackProbeVersion` |
| Rating | `rating.go`, `types.go` | none, pure | `rate`, the three scores, `capAt` |
| Target guard | `guard.go` | none | `guardTarget`, `isBlockedIP` |
| ROBOT probe | `internal/handshake/robot.go` | the server's key, the stable signatures | `ProbeROBOT`, `robotServerRSAKey`, `stableSignature`, `robotExchange` |
| CBC oracle probe | `cbc_oracle.go`, records and reactions of `cbc.go` | the stable reactions | `ProbeCBCPaddingOracles`, `stableCBCReaction`, `cbcExchange`, `classifyCBC` |
| TLS 1.2 CBC client | `cbc.go` | read buffer, transcript, keys, deadlines | `establishCBCSession`, `hsReader.next`, `expectServerFinished` |
| Raw handshake probes | `probes.go`, `legacy.go` | read buffer, one deadline | SSLv2, SSLv3, FREAK, Logjam, `TLS_FALLBACK_SCSV`, RFC 5746 |
| Heartbleed probe | `internal/vulns/heartbleed.go` | the byte stream and its deadlines | `Heartbleed` |
| HTTP service | `cmd/headerforge-tls/main.go` | one context per request | `handleScan` |
| Command line | `cmd/tlsscan/main.go` | one context | `main` |

The parts interact by calls. Nothing is shared between scans and a scan starts no
goroutine: what makes this code hard is not threads but its environment. The
other actors are the network (a dial that fails, a flight cut anywhere into
records, a connection that ends, a reaction that is lost or replaced), the
backends behind one name (each connection may reach another one), the resolver,
and the caller's context, which expires while the scan is anywhere. Most of these
turn into the same answer, "not supported", and the hard question is what the
report may still claim; the other hard question is when a call is over, since
every connection has deadlines of its own under the one of the context.

Properties that make each part correct:

- the engine reports only what is true of the host as far as the contracts of its
  probes go (the FAIL-SAFE rule of `vulns.go`), all that handshakes can find when
  nothing was lost, and ends;
- the rating follows the evidence: A+ is earned, a scan without a certificate
  says so, a cap is a ceiling;
- an oracle probe claims nothing of a server that gives all stimuli the same
  answer, finds one that does not, and decides;
- a client that reads a flight ends up with the messages the server sent,
  however they were cut, and holds a session only with a server that accepted
  its Finished;
- a raw probe judges what the server said, not how the network cut, delayed or
  lost it, and ends within its deadlines;
- a call is answered within bounds, whatever the timeout asked for and however
  the host spreads its silence.

## The modules

    Grading            the pure part: catalogue, certificate analysis, inferences, rating
      Scan             one call of Scan over a pool of backends and a faulty network
        MCScan, ScanProofs
    ProbeContract      what Scan relies on of an active probe
    RobotProbe         ProbeROBOT, refines ProbeContract
      MCRobot, RobotProofs
    CbcOracle          ProbeCBCPaddingOracles, refines ProbeContract
      MCCbc, CbcProofs
    Handshake          the two clients that read a whole flight, refines ProbeContract
      MCHandshake, HandshakeProofs
    Heartbleed         the Heartbleed probe, its stream and its deadlines
      MCHeartbleed, HeartbleedProofs
    RawProbes          the probes of legacy.go and probes.go
      MCRawProbes, RawProofs
    Service            the callers, the guard, and the connections of a scan in time
      MCService, ServiceProofs
    Flattening         what `FlattenSeq` does, for HandshakeProofs and RawProofs

`Scan` takes the active probes by `ProbeContract`; `RobotProbe` and `CbcOracle`
implement it over exchanges, and `Handshake` implements it for what an exchange
begins with: a session, or a key. `Service` takes the connections of all of them
by their durations.

`Grading`. The Go structs become sets and small records: the true Boolean fields
of `Protocols` and `Vulnerabilities` are the set of their names; `CipherSummary`
and `ForwardSecrecy` are the set of accepted suites, from which `OfClass` and
`ForwardSecrecy` compute what the loop of `probeCiphers` accumulates. Everything
else keeps its name and its thresholds.

`Scan`. `pc` is the phase of `Scan`, `pending` the probes the phase has still to
run, `conn` the connection in flight with the backend that accepted it. A probe
is `Dial` (or `DialFails`), then `FinishVersion`, `FinishCertificate`,
`FinishCipher` or `FinishFlaw` (or `ConnLost`). `Turn` keeps the program order;
only the suites come in any order, since they are keys of a Go map. `AfterMiss`
is the retry of `fetchCertificate`. The phase changes are the lines of `Scan`
between the calls. What a backend negotiates (`Negotiates`) is crypto/tls and
external.

The oracle probes make many connections: `NextExchange` lets a later one reach
another backend, `Disturb` lets the network lose or replace a reaction, and both
are kept in `conn`. What an active probe may report (`MayShow`) is its contract:
any part of what the backend has, so that it may miss a flaw, as long as it met
one backend, fewer disturbances than repetitions and nothing its contract leaves
out (`beyond`, for instance the host name for which a CBC record is valid);
anything it looks for otherwise. `TLS_FALLBACK_SCSV` has no such freedom, since
what it concludes depends on the evidence collected before it: its probe is
modelled as the code has it.

`RobotProbe` and `CbcOracle`. Both repeat each stimulus `Reps` times over fresh
connections and give up at the first difference. In `RobotProbe` a vector is
encrypted to the key that was discovered first, so a backend with another key
sees a malformed block (`Seen`). In `CbcOracle` the records are their layout:
lengths, pad value, zero fill, and whether the MAC is intact; `RecordClass` is
what a receiver that follows RFC 5246 makes of it. The zero fill never ends in the
invalid padding that the comment at `cbc.go:220` speaks of, so a server that
leaks only on such padding is outside `FindsTheDifference`, which is about the
records as they are crafted.

`Handshake`. A message is a sequence of cells, `HeaderLen` of them its header; a
record carries cells of any messages, so a boundary may fall in a header, in a
body or between messages. `NextRecord` is the loop of `hsReader.next` that reads
one more record, and the `Take` actions are the calls of `establishCBCSession`,
one per message awaited: each hashes the message and checks its type and fields.
`SkipToDone` is the tolerant loop before `ServerHelloDone`. `SendFinished` sends
the second flight and sets the read deadline anew; the server accepts it when the
client's transcript is its own, which stands for the keys and the Finished.
`ReadFinished` is one turn of `expectServerFinished`. `RobotRecord`,
`RobotMessage` and `RobotGivesUp` are the loop of `readServerHelloAndCert`, with
its limits, and its habit of keeping a key it already has.

`Heartbleed`. The stream is a sequence of cells of the size of a record header,
each with the two things the probe looks at: the first byte and the length field.
A cell may be a header or lie inside a record. `writeBy` and `readBy` are the two
deadlines of the connection, set by `SetDeadline` and `SetReadDeadline`; `Tick`
lets time pass while the probe is blocked. `DrainReads`, `DrainTimesOut` and
`DrainFails` are the three outcomes of `drainHandshake`, `ReadHeader` and
`ReplyFails` those of `readHeartbeatResponse`, `DiscardLeak` its last read.

`RawProbes`. The five shapes of probe share `Dial`, `SendHello` and `ReadHeader`;
`Wanted` says what each goes on to read of a record, `Peek` is the judgement of a
first field, `Assemble` one turn of the loop of `readServerHelloMessage`. A
ServerHello is built field by field (`HelloMessage`) and joined with the message
behind it (`Flight`); `pieces` says how a server cuts them into records, anywhere
but never into an empty one. The message is walked by `serverHelloHasExtension` as in the code,
so that the walk is checked against what the server meant. A record arrives cell by cell and
the connection may end between any two.

`Service`. `Decline` and `Handle` are the two ways through `handleScan` and
through `main`: `Asked` is the timeout as a signed word (`Wrapped`), `Allowed` the
deadline of the context. `guardTarget` admits a host by its form and by every
address it resolves to. A scan is the sequence of its connections (`Script`);
`Dial`, `Connect`, `DialFails` and `Finish` take one through its dial and its
handshake, under the deadlines its probe sets (`DialTime`, `HoldTime`), and
`Following` says which comes next when a probe stops early. `ceiling` is the
context of the CBC probe. `Leave` is an HTTP client that goes away, which cancels
the context. Requests share no state, so one call stands for any number.

## The runs

| Run | Checks | Shows |
|---|---|---|
| `scan` | `TypeOK`, `EvidenceIsGenuine`, `FallbackClaimIsSound`, `CompleteWhenUndisturbed`, `NoCertificateIsReported`, `APlusIsEarned`, `ExpiryFreezesEvidence`, `Termination` | ten pools, four suites, two faults or disturbances, expiry at any moment; 70 394 states |
| `robot` | `TypeOK`, `NoFalsePositive`, `FindsTheOracle`, `ImplementsContract` | eleven pools, two disturbances |
| `cbc` | `TypeOK`, `NoClaimWithoutDifference`, `FindsTheDifference`, `ImplementsContract` | ten servers, sixteen host lengths, two disturbances |
| `handshake` | `TypeOK`, `TranscriptAgrees`, `FindsTheSession`, `RobotReadsTheKey`, `EndsInTime`, `ImplementsContract` | both clients, 103 servers: five cuts, every refusal, odd orders, tickets, long messages |
| `heartbleed` | `TypeOK`, `AlignedClaimIsGenuine`, `FindsTheLeak`, `EndsInTime`, `Termination` | six flights, four answers, every delay and cut |
| `raw` | `TypeOK`, `NoFalseClaim`, `FindsTheFlaw`, `EndsInTime`, `Termination` | five probes, every refusal, twelve kinds of ServerHello, six framings |
| `service` | `TypeOK`, `EndsInTime`, `CbcOverrunIsBounded`, `Answered` | both callers, every kind of host, timeouts that default, fit and wrap |

Runs that find a disagreement between the code and what its documentation says
(each checks that one sentence; the quotation is in `PROJECT.json`):

| Run | Property | What the code does |
|---|---|---|
| `scan_caps` | `CriticalFlawMeansF` | `capAt` raises a worse grade to the ceiling: SSLv3 or an accepted 3DES suite turns the F of a critical flaw into a C |
| `cbc_hardened` | `HardenedIsClean` | for some host names the badPad record is valid |
| `cbc_encrypted` | `RecordTypesTellApart` | the tag compared of an alert is the start of a random IV, so a server that answers one record with an encrypted alert is never told apart |
| `cbc_ceiling` | `CeilingKeepsTheBudget` | the 12 seconds of the probe's context stop dials only; with the session and the reaction behind them it reaches the 15 seconds |
| `raw_reneg` | `AmbiguityIsNotClaimed` | a ServerHello that cannot be walked is claimed to lack the extension |

### Known limits

Met while modelling; no run is spent on them, and the properties that they would
break are stated so as to leave them out.

- A host nobody answers for gets a letter grade.
- Suites are only enumerated at TLS 1.2 (`ciphers.go:66`). A clean server that has
  only TLS 1.3 shows none, has no forward secrecy, and does not get the A+ of the
  repository's `README.md:252`.
- A version probe offers the default suites of crypto/tls (`scanner.go:120`), the
  cipher probe a catalogue. A server that has only RSA key exchange is reported
  with suites and without TLS 1.2, although `types.go:53` says that `Protocols`
  records what the server accepts.
- A server that stays silent after the ClientHello is never sent the heartbeat,
  although `heartbleed.go:44-46` says "proceed to send the malicious heartbeat"
  and `heartbleed.go:138` "proceed anyway": the drain's deadline is also that of
  the write, so the write fails (`WriteFails`).
- Two backends that are no oracle, but answer the well-formed and the malformed
  vectors of ROBOT differently, can look like one, and so can equal noise in
  every repetition of a vector; a pool of backends with different versions can
  seem to lack `TLS_FALLBACK_SCSV`. `NoFalsePositive` and `FallbackClaimIsSound`
  are stated for uniform pools.
- `drainHandshake` reads once, 4096 bytes at most. The rest of a longer flight is
  taken for the answer to the heartbeat, and bytes inside a record for its
  header: `AlignedClaimIsGenuine` leaves out a drain that stops inside a record.
- `readReaction` tags an alert with its first two bytes, which are random when
  the alert is encrypted (`cbc_encrypted`). `FindsTheDifference` leaves servers out
  that encrypt their alerts. With a single repetition two random tags would even
  make a difference of two equal answers, which is why `RepsAssumption` asks for
  two; the code has two.
- `establishCBCSession` may return a session whose write deadline, set at the
  dial, has passed while the client waited for the Finished. `sendCrafted` then
  fails, and the probe with it (`SendFails`): nothing is claimed.
- The ceiling of the CBC probe stops new dials only (`cbc_ceiling`). A session
  that is under way when it passes runs to its own deadlines, and a reaction after
  it: `CbcOverrunIsBounded` says how far.
- `CertificateRequest` is tolerated before `ServerHelloDone` although the comment
  says to bail; the server then refuses the Finished.
- The context of a call is the timeout of one connection and five seconds. A host
  that lets several probes wait gets the rest of its scan cut short, and a
  connection that does not watch the context prolongs the call by up to two
  timeouts: `EndsInTime` of `Service`. The resolver is not bounded by it at all.
- The command line's `-timeout 0` gives each connection the default of 15 seconds
  and the context five. A very large `timeout_ms` wraps to a negative or tiny
  duration: the scan finds nothing and is answered all the same (`Answered`).

### Bounds

- `MaxFaults = 2`, `MaxNoise = 2`: two is the number of attempts at a
  certificate and the number of repetitions of a vector, so the case where every
  attempt fails is among those checked. `Contract` in both oracle probes maps a
  claim to the abstract one where the contract can hold at all: fewer
  disturbances than repetitions, a uniform pool, and a badPad record that is a
  bad one. Beyond that it still demands one decision and an end.
- `Catalog`: a suite of each class, with and without forward secrecy, one of TLS
  1.3, one with CBC, 3DES. The cipher phase tries them in every order.
- Pools: one server for each path of the rating, the unreachable host, a server
  of SSL versions only, and a pool of two backends with different versions.
- `HostLens` has a length for each remainder by the block size: the layout of a
  record depends on nothing else of the host name.
- `CbcEncrypted.cfg` has no noise: what it shows needs none. `CbcCeiling.cfg` has one
  call of the command line and the durations of the code in half seconds, so that
  its 15 seconds are those of the comment.
- An encrypted alert's tag is modelled as a value no other record has; two random
  IVs agree in their first two bytes once in 65536 times.
- `Handshake`: `Timeout = 2`; messages of two to five cells, so that a cut may
  fall in a header, a body or between messages; `MaxBuf = 20`, with long
  messages that, by the cut, fit both buffers, the larger one only, or neither. The limits of six and sixteen records are the code's own, and
  servers use up each of them.
- `Heartbleed`: `ReadMax = 3` cells, with flights that are shorter, of that
  length and longer, and that end at a boundary or inside a record;
  `Timeout = 2`, so that an answer may come at once, in time, or late.
- `RawProbes`: ServerHellos of up to 13 fields, `MaxLen = 14`, so that the
  longest fits and, joined with the next message, goes over; framings
  that cut the handshake header, the session id, the extensions and the end;
  `OptTimeout` above `TimeoutCap`, so that the cap matters.
- `Service`: the durations are a few ticks (reaction 1, oracle cap 2, cap and
  ceiling 3, default 5), so that a ceiling may pass in the middle of a session; a
  word of 32 values
  (`HalfWord = 16`), small enough for timeouts that wrap to a negative duration,
  to none, and to a short one, and for a sum with the grace that wraps alone;
  two suites; a resolver that takes up to two ticks. The numbers of exchanges of
  the oracle probes are the code's.

### Fairness

Weak fairness of `Step`, the disjunction of the scanner's own actions: each dial,
read, write and handshake of the code has a deadline (`SetDeadline`,
`Dialer.Timeout`), after which it returns, so the scanner never stops for good
while it has something to do. `Expire` is the caller's and not fair.

`Handshake`, `Heartbleed`, `RawProbes` and `Service` have the deadlines
themselves: a read returns when there is data, when the connection ended, or when
its deadline has passed. There `Step` is fair and so is `Tick`, since time passes;
`Deliver`, `End` and `Leave` are not, since no server need ever send anything or
hang up and no client need leave. `LookupMax` bounds the resolver, which answers
or fails in the end.

## The proofs

TLAPS proves, for every value of the constants that satisfies the named
assumptions of the modules, all the safety that the passing runs check: every
invariant, every action property, and of each refinement all but that the probe
decides in the end.

`ScanProofs`
- `TypeCorrectness`. `TypeOK` is not inductive: that a suite probe in flight adds
  a suite of `Catalog` needs the connection of a phase to be one of its probes.
  `PhaseInv` says which probes `pending` and `conn` may name in each phase;
  `TypeInv == TypeOK /\ PhaseInv` is inductive.
- `EvidenceTheorem`. `EvidenceIsGenuine` is inductive relative to `TypeInv`. That a
  flaw of an active probe is real is proved for a probe its contract covers
  (`Covered`): nothing beyond the pool, and for the oracle probes one backend and
  fewer disturbances than repetitions. The disturbances of one probe are among the
  faults of the scan, which `TypeInv` keeps, and faults only grow (`FaultsGrow`).
- `FallbackTheorem`. Relative to both: in the last phase the downgrade probe is
  only pending or in flight if `fallbackProbeVersion` gave a version
  (`FallbackPending`); it is below another one in `protocols` (`FallbackIsBelow`),
  which by the previous theorem some backend has; in a uniform pool it is the
  backend that answers.
- `ExpiryTheorem`. An action property: no connection is dialled once the context
  is done, so only an inference can add anything.
- `NoCertificateTheorem` and `APlusTheorem`. `ReportInv` ties the error list to
  the certificate in each phase and the final report to `rate` of the evidence;
  the rest is a lemma per cap about `rate`.
- `CompletenessTheorem`. `CompleteInv` says of each phase what has been found and
  what is still pending, version by version and suite by suite, so that the
  order of the suites does not matter. `Undisturbed` can only become false.

`RobotProofs`
- `TypeCorrectness`, and `NoFalsePositiveTheorem`: `NoiseInv` counts. As long as
  less than `Reps` exchanges were disturbed, a signature that `Reps` repetitions
  agree on is the genuine one.
- `FindsTheOracleTheorem`: in a clean run the signatures recorded are those of
  the one backend, and reactions that are not both records keep apart.
- `ContractTheorem`: each step of the probe is a step of `ProbeContract` or
  leaves its variables alone.

`CbcProofs`
- `TypeCorrectness`; `ControlInv` ties the number of exchanges to the vector and
  the repetition, from which the range of the tags follows.
- `NoClaimWithoutDifferenceTheorem`, from a counting argument: the first reaction
  of a vector is the server's own or every repetition so far was disturbed, and an
  encrypted alert agrees with nothing but noise.
- `FindsTheDifferenceTheorem`, where `classifyCBC` of three reactions that are
  not all equal is never empty, and `ContractTheorem`.

`HandshakeProofs`
- `TypeCorrectness`, with the limits of the record loops, and
  `EndsInTimeTheorem`, from what each deadline is in each phase.
- `TranscriptTheorem`. `TranscriptAgrees` says nothing before the Finished is
  awaited, so it is far from inductive. `FlightInv` says where a client is: the
  read buffer is what lies between the end of the messages taken and the end of
  the records read, and the transcript is the messages taken. A record moves the
  one end and a message the other, and the length in a header at the front of the
  buffer is that of the next message of the flight. `FinishedInv` is its
  counterpart behind the client's Finished, over the reaction of the server;
  `StreamInv` is both.
- `ContractTheorem`: each step is a step of `ProbeContract` or leaves its
  variables alone. `OutcomeInv`, from `StreamInv`, says that what a client holds
  the server offers: a change of cipher is only read of a server that accepted.
- `RobotReadsTheKeyTheorem` and `FindsTheSessionTheorem`. As long as nothing was
  lost and no deadline has passed, such a server is never refused: a flight that
  is `Usable` and `Clear` fits the buffers and the limits at every cut
  (`FlightGoesOn`), and the last record in brings the answer (`KeyIsReturned`,
  `SessionIsReturned`). `FoundInv` carries this to the end, with `DeadlineInv` for
  the time of the read.

`HeartbleedProofs`
- `TypeCorrectness` and `EndsInTimeTheorem`. `TimeInv` says how far the clock may
  be in each phase and what the two deadlines are there.
- `AlignedClaimTheorem` and `FindsTheLeakTheorem`. `StreamInv` says where in the
  whole stream, flight and answer, the cells lie that were drained, that arrived
  and that are coming: nothing is lost or reordered before the connection ends.
  The header read next is then a known cell of the flight or of the answer.

`RawProofs`
- `EndsInTimeTheorem`: the deadline is set once, behind the dial.
- `TypeCorrectness`. `TypeOK` bounds the cells taken by those that arrived, which
  needs to know that they are the ones in front of the record being read
  (`Reads`).
- `FindsTheExtension`, about `serverHelloHasExtension` alone: for every
  ServerHello with right lengths the walk stops at the extension that is wanted or
  at the end, since it goes from the start of one extension to the start of the
  next (`HelloLies`). The walk is a recursive function of the position, so that
  it has a value at all is a lemma too (`WalkExists`).
- `NoFalseClaimTheorem` and `FindsTheFlawTheorem`. `Assembled` says that the
  buffer is the records read so far, joined: a prefix of what the server sent. A
  verdict over such a prefix is right or leaves off (`VerdictIsRight`,
  `JudgeIsRight`), which makes `VerdictInv` inductive. `FindsTheFlaw` says nothing
  of a ServerHello longer than `MaxLen`, which `readServerHelloMessage` refuses.

`Flattening`: `FlattenAt` says where the parts of a flattened sequence lie in it.
A flight and its records are flattened sequences, and `FlattenSeq` is a fold, so
this takes an induction over their number. The induction theorems of the library
have an operator for a parameter, which the provers do not instantiate;
`SetInduction` takes a set of numbers instead (the set of those for which the
fact holds), and follows from the least element that `WFMin` gives of a set.

`ServiceProofs`
- `TypeCorrectness`: whatever a probe skips stays within the script.
- `EndsInTimeTheorem` and `CbcOverrunTheorem`: a connection begins within its
  context, so its deadline lies a dial and a hold behind it. Neither assumes that
  the durations fit their word.

Only model-checked: liveness, which is out of the prover's reach. That is
`Termination`, `Answered`, and the part of `ImplementsContract` that says a probe
decides in the end.

## Not modelled

- `/healthz`, the start of the server, the text and the JSON that are printed.
- Names, dates and issuers in the certificate, and `ChainComplete`, which nothing
  reads.
- The key derivation and the ciphers themselves: in `Handshake` two ends agree
  when their transcripts do, in `CbcOracle` a record is its layout.
- The bytes of a PKCS#1 block and of the hellos, down to what a server tells
  apart. RSA keys of fewer than 59 bytes, for which `buildPKCS1Vector` has no
  room, are left out.
- Which address a dial reaches. `guardTarget` resolves the name once and each dial
  resolves it again, so what was checked need not be what is connected to. The
  code says nothing of the two answers; `Service` models the check and leaves the
  address of a dial open, and no property is stated about it.

## Plan

1. A composition of `Service` with `Scan`, in which the evidence says which
   probes were cut short.
2. Pools of several backends in `Handshake`, so that a key and a session may come
   from different ones.
