-------------------------------- MODULE Scan --------------------------------
(***************************************************************************)
(* One call of tlsscan.Scan (pkg/tlsscan/scanner.go): the target guard,    *)
(* the probes of each phase, one connection at a time, the evidence they   *)
(* leave in the Result, and the rating.                                    *)
(*                                                                         *)
(* A host name may be served by several backends: every connection of a    *)
(* probe may be answered by any backend of the pool.  The environment can  *)
(* make a dial fail, cut a connection or disturb an exchange MaxFaults     *)
(* times (a refused connection, a reset, a deadline that passes), and the  *)
(* context of the call can expire at any moment.                           *)
(*                                                                         *)
(* The active probes are taken by the contracts that RawProbes, Heartbleed,*)
(* RobotProbe and CbcOracle establish: within its contract a probe reports *)
(* some of the flaws of the backend, beyond it anything it can report.     *)
(***************************************************************************)
EXTENDS Grading, Sequences

CONSTANTS Catalog,    \* the part of cipherCatalog the instance enumerates
          Pools,      \* the pools of backends a scan may meet
          MaxFaults,  \* bound: dials and connections the network may fail
          NoConn      \* no connection is open

(***************************************************************************)
(* Backends.  Suites outside the catalogue exist; the scan never offers    *)
(* them by name, but crypto/tls does in its default ClientHello.  beyond:  *)
(* the probes whose contract does not cover the backend: its flight leaves *)
(* part of a record to be read (Heartbleed), the lengths in its            *)
(* ServerHello do not fit (InsecureRenegotiation), the length of its name  *)
(* makes the badPad record a well-formed one (CBC).                        *)
(***************************************************************************)
Uncatalogued == {"ECDHE_ECDSA_AES_256_GCM_SHA384"}

Backends ==
  [versions : SUBSET Versions, suites : SUBSET (Suites \cup Uncatalogued),
   leaf : LeafCertificates, h2 : BOOLEAN, scsv : BOOLEAN, flaws : SUBSET Flaws,
   beyond : SUBSET {"Heartbleed", "InsecureRenegotiation", "CBC"}]

ASSUME CatalogAssumption == Catalog \subseteq Suites
ASSUME PoolsAssumption   == \A pool \in Pools : pool \subseteq Backends
ASSUME FaultsAssumption  == MaxFaults \in Nat

\* External (crypto/tls): what a client that leaves CipherSuites nil offers,
\* no suite with RSA key exchange, no RC4; and the suites that exist before
\* TLS 1.2.
ClientDefaults ==
  {"ECDHE_RSA_AES_128_GCM", "ECDHE_RSA_AES_256_GCM", "ECDHE_ECDSA_AES_128_GCM",
   "ECDHE_RSA_AES_128_CBC_SHA"} \cup Uncatalogued
OldSuites ==
  {"ECDHE_RSA_AES_128_CBC_SHA", "RSA_AES_128_CBC_SHA", "RSA_3DES_EDE_CBC_SHA",
   "ECDHE_RSA_RC4_128_SHA"}

\* External (crypto/tls): backend b completes a handshake pinned to version v
\* with a client that offers the suites of offered (TLS 1.3 suites cannot be
\* chosen by a Go client: they are always offered).
Negotiates(b, v, offered) ==
  /\ v \in b.versions
  /\ \/ v = "TLS13"
     \/ v = "TLS12" /\ b.suites \cap offered # {}
     \/ v \in {"TLS10", "TLS11"} /\ b.suites \cap offered \cap OldSuites # {}

----------------------------------------------------------------------------
(* Probes, and the order in which the code runs them.  The cipher phase    *)
(* ranges over a Go map: its order is arbitrary.                           *)

FlawProbes ==
  {"Heartbleed", "Freak", "Logjam", "InsecureRenegotiation", "Robot",
   "TLSFallbackSCSV", "CBC"}
CertificateProbes == {"cert13", "cert12"}
Probes == Versions \cup CertificateProbes \cup Suites \cup FlawProbes

\* The probes that pass the context to crypto/tls: a handshake in flight is
\* aborted when it expires.  The others watch the context only while dialling.
ContextProbes == TLSVersions \cup CertificateProbes \cup Suites

\* The probes that open a connection for each of their exchanges, every vector
\* Repetitions times.
OracleProbes == {"Robot", "CBC"}
Repetitions  == 2

ProgramOrder ==
  <<"TLS10", "TLS11", "TLS12", "TLS13", "SSL3", "SSL2", "cert13", "cert12",
    "Heartbleed", "Freak", "Logjam", "InsecureRenegotiation", "Robot",
    "TLSFallbackSCSV", "CBC">>

Before(p, q) ==
  \E i, j \in DOMAIN ProgramOrder : i < j /\ ProgramOrder[i] = p /\ ProgramOrder[j] = q

ActiveProbes(protocols) ==
  IF fallbackProbeVersion(protocols) = NoFallback
  THEN FlawProbes \ {"TLSFallbackSCSV"} ELSE FlawProbes

----------------------------------------------------------------------------

VARIABLES pool,            \* the backends behind the name, fixed
          opts,            \* [host, checkVulns], fixed
          expired,         \* the context of the call is done
          faults,          \* network faults so far
          pc,              \* where Scan is
          pending,         \* probes the phase has still to run
          conn,            \* the probe in flight: [probe, backend, others,
                           \* disturbed], the backend of its first connection,
                           \* those of later ones, exchanges disturbed
          protocols, certificate, http2, accepted, vulnerabilities, errors,
                           \* the Result so far
          report           \* rate's answer

scenario == <<pool, opts>>
evidence == <<protocols, certificate, http2, accepted, vulnerabilities>>
vars     == <<scenario, expired, faults, pc, pending, conn, evidence, errors, report>>

Phases == {"protocols", "certificate", "ciphers", "vulnerabilities"}
Hosts  == {"public", "internal", "unresolved"}

NoReport == [numeric |-> 0, grade |-> "R", caps |-> {}]

Init ==
  /\ pool \in Pools
  /\ opts \in [host : Hosts, checkVulns : BOOLEAN]
  /\ expired = FALSE /\ faults = 0
  /\ pc = "guard" /\ pending = {} /\ conn = NoConn
  /\ protocols = {} /\ certificate = NoCertificate /\ http2 = FALSE
  /\ accepted = {} /\ vulnerabilities = {} /\ errors = {}
  /\ report = NoReport

----------------------------------------------------------------------------
(* Connections. *)

\* It is p's turn: probes of a phase run in program order, suites in any order.
Turn(p) ==
  /\ pc \in Phases /\ conn = NoConn
  /\ p \in pending
  /\ \A q \in pending : ~Before(q, p)

\* Mutant: retries the certificate for as long as there is none.
AfterMissRetryForever(p) == IF p \in CertificateProbes THEN {"cert12"} ELSE pending \ {p}

\* What is left of the phase after probe p brought nothing: fetchCertificate
\* retries once, capped at TLS 1.2.
AfterMiss(p) == IF p = "cert13" THEN {"cert12"} ELSE pending \ {p}

Connected(p, b) == [probe |-> p, backend |-> b, others |-> {}, disturbed |-> 0]

\* Mutant: dials without the context.
DialWithoutContext(p) ==
  /\ Turn(p)
  /\ \E b \in pool : conn' = Connected(p, b)
  /\ UNCHANGED <<scenario, expired, faults, pc, pending, evidence, errors, report>>

\* DialContext connects probe p to a backend.  A context that is done fails
\* every dial.
Dial(p) ==
  /\ Turn(p) /\ ~expired
  /\ \E b \in pool : conn' = Connected(p, b)
  /\ UNCHANGED <<scenario, expired, faults, pc, pending, evidence, errors, report>>

\* The dial fails: the context is done, nobody answers for the name, or the
\* network loses it.  Every probe reads that as "not supported".
DialFails(p) ==
  /\ Turn(p)
  /\ IF expired \/ pool = {} THEN UNCHANGED faults
     ELSE faults < MaxFaults /\ faults' = faults + 1
  /\ pending' = AfterMiss(p)
  /\ UNCHANGED <<scenario, expired, pc, conn, evidence, errors, report>>

\* A later exchange of an oracle probe is answered by a backend that answered
\* none of its exchanges before.
NextExchange ==
  /\ conn # NoConn /\ conn.probe \in OracleProbes /\ ~expired
  /\ \E b \in pool \ ({conn.backend} \cup conn.others) :
       conn' = [conn EXCEPT !.others = @ \cup {b}]
  /\ UNCHANGED <<scenario, expired, faults, pc, pending, evidence, errors, report>>

\* The network loses or replaces a reaction an oracle probe waits for.
Disturb ==
  /\ conn # NoConn /\ conn.probe \in OracleProbes
  /\ faults < MaxFaults /\ faults' = faults + 1
  /\ conn' = [conn EXCEPT !.disturbed = @ + 1]
  /\ UNCHANGED <<scenario, expired, pc, pending, evidence, errors, report>>

\* The probe ends before it has its answer: reset, deadline, or the end of the
\* context, in a handshake of crypto/tls or before the next dial of an oracle
\* probe.
ConnLost ==
  /\ conn # NoConn
  /\ IF expired /\ conn.probe \in ContextProbes \cup OracleProbes THEN UNCHANGED faults
     ELSE faults < MaxFaults /\ faults' = faults + 1
  /\ pending' = AfterMiss(conn.probe)
  /\ conn' = NoConn
  /\ UNCHANGED <<scenario, expired, pc, evidence, errors, report>>

\* The probe in flight may still conclude.
Concludes == conn # NoConn /\ ~(expired /\ conn.probe \in ContextProbes)

----------------------------------------------------------------------------
(* The answer of each kind of probe. *)

\* handshakeAt for TLS 1.0 to 1.3; for SSL 2 and 3 the raw probes, taken by
\* contract.
Supports(b, v) ==
  IF v \in TLSVersions THEN Negotiates(b, v, ClientDefaults) ELSE v \in b.versions

FinishVersion ==
  /\ Concludes /\ conn.probe \in Versions
  /\ protocols' = IF Supports(conn.backend, conn.probe)
                  THEN protocols \cup {conn.probe} ELSE protocols
  /\ pending' = pending \ {conn.probe}
  /\ conn' = NoConn
  /\ UNCHANGED <<scenario, expired, faults, pc, certificate, http2, accepted,
                 vulnerabilities, errors, report>>

\* fetchCertificateAt offers TLS 1.0 up to the cap.
GivesChain(b, p) ==
  \E v \in TLSVersions \ (IF p = "cert12" THEN {"TLS13"} ELSE {}) :
    Negotiates(b, v, ClientDefaults)

FinishCertificate ==
  /\ Concludes /\ conn.probe \in CertificateProbes
  /\ IF GivesChain(conn.backend, conn.probe)
     THEN /\ certificate' = analyseCertificate(conn.backend.leaf)
          /\ http2' = conn.backend.h2
          /\ pending' = {}
     ELSE /\ pending' = AfterMiss(conn.probe)
          /\ UNCHANGED <<certificate, http2>>
  /\ conn' = NoConn
  /\ UNCHANGED <<scenario, expired, faults, pc, protocols, accepted,
                 vulnerabilities, errors, report>>

\* Mutant: leaves crypto/tls its default suites.
AcceptsAnySuite(b, s) == s \notin TLS13Suites /\ Negotiates(b, "TLS12", ClientDefaults)

\* cipherAccepted pins TLS 1.2 and offers one suite; a TLS 1.3 suite is no
\* TLS 1.2 suite, so its handshake fails on every server.
Accepts(b, s) == s \notin TLS13Suites /\ Negotiates(b, "TLS12", {s})

FinishCipher ==
  /\ Concludes /\ conn.probe \in Suites
  /\ accepted' = IF Accepts(conn.backend, conn.probe)
                 THEN accepted \cup {conn.probe} ELSE accepted
  /\ pending' = pending \ {conn.probe}
  /\ conn' = NoConn
  /\ UNCHANGED <<scenario, expired, faults, pc, protocols, certificate, http2,
                 vulnerabilities, errors, report>>

\* The downgrade probe concludes "missing" when the backend answers the
\* ClientHello pinned to version fb: it raises inappropriate_fallback only if
\* it honours the SCSV and has a newer version.
AnswersFallback(b, fb) ==
  /\ fb \in b.versions
  /\ b.scsv => \A v \in b.versions \cap TLSVersions : Age[v] <= Age[fb]

ClaimsOf(p) == IF p = "CBC" THEN CBCFamily ELSE {p}

\* The probe met one backend that its contract covers, and fewer disturbances
\* than its repetitions can tell from a reaction.
WithinContract(c) ==
  /\ c.probe \notin c.backend.beyond
  /\ c.probe \in OracleProbes => c.others = {} /\ c.disturbed < Repetitions

\* What a probe may report.  It may always miss a flaw ("at the cost of possibly
\* missing a marginal oracle").
MayShow(c) ==
  IF c.probe = "TLSFallbackSCSV"
  THEN {IF AnswersFallback(c.backend, fallbackProbeVersion(protocols))
        THEN {c.probe} ELSE {}}
  ELSE SUBSET (IF WithinContract(c) THEN ClaimsOf(c.probe) \cap c.backend.flaws
                                    ELSE ClaimsOf(c.probe))

FinishFlaw ==
  /\ Concludes /\ conn.probe \in FlawProbes
  /\ \E shown \in MayShow(conn) : vulnerabilities' = vulnerabilities \cup shown
  /\ pending' = pending \ {conn.probe}
  /\ conn' = NoConn
  /\ UNCHANGED <<scenario, expired, faults, pc, protocols, certificate, http2,
                 accepted, errors, report>>

----------------------------------------------------------------------------
(* The phases of Scan. *)

Start(phase, probes) == pc' = phase /\ pending' = probes

Finished(phase) == pc = phase /\ pending = {} /\ conn = NoConn

guardTarget ==
  /\ pc = "guard"
  /\ IF opts.host = "public" THEN Start("protocols", Versions) ELSE Start("refused", {})
  /\ UNCHANGED <<scenario, expired, faults, conn, evidence, errors, report>>

EndProtocols ==
  /\ Finished("protocols")
  /\ Start("certificate", {"cert13"})
  /\ UNCHANGED <<scenario, expired, faults, conn, evidence, errors, report>>

EndCertificate ==
  /\ Finished("certificate")
  /\ errors' = IF certificate = NoCertificate THEN {"certificate"} ELSE {}
  /\ Start("ciphers", Catalog)
  /\ UNCHANGED <<scenario, expired, faults, conn, evidence, report>>

\* Mutant: starts the active probes from an empty record, without the inferences.
EndCiphersNotInferring ==
  /\ Finished("ciphers")
  /\ Start(IF opts.checkVulns THEN "vulnerabilities" ELSE "rate",
           IF opts.checkVulns THEN ActiveProbes(protocols) ELSE {})
  /\ UNCHANGED <<scenario, expired, faults, conn, evidence, errors, report>>

\* probeVulnerabilities first infers, then probes.
EndCiphers ==
  /\ Finished("ciphers")
  /\ IF opts.checkVulns
     THEN /\ vulnerabilities' = Inferred(protocols, accepted)
          /\ Start("vulnerabilities", ActiveProbes(protocols))
     ELSE Start("rate", {}) /\ UNCHANGED vulnerabilities
  /\ UNCHANGED <<scenario, expired, faults, conn, protocols, certificate, http2,
                 accepted, errors, report>>

EndVulnerabilities ==
  /\ Finished("vulnerabilities")
  /\ Start("rate", {})
  /\ UNCHANGED <<scenario, expired, faults, conn, evidence, errors, report>>

Rate ==
  /\ pc = "rate"
  /\ report' = rate([protocols |-> protocols, certificate |-> certificate,
                     accepted |-> accepted, vulnerabilities |-> vulnerabilities])
  /\ Start("done", {})
  /\ UNCHANGED <<scenario, expired, faults, conn, evidence, errors>>

\* The caller's deadline passes while the scan runs.
Expire ==
  /\ pc \notin {"done", "refused"} /\ ~expired
  /\ expired' = TRUE
  /\ UNCHANGED <<scenario, faults, pc, pending, conn, evidence, errors, report>>

Terminated == pc \in {"done", "refused"} /\ UNCHANGED vars

Finish == FinishVersion \/ FinishCertificate \/ FinishCipher \/ FinishFlaw

Step ==
  \/ guardTarget \/ EndProtocols \/ EndCertificate \/ EndCiphers
  \/ EndVulnerabilities \/ Rate
  \/ \E p \in Probes : Dial(p) \/ DialFails(p)
  \/ NextExchange
  \/ ConnLost
  \/ Finish

Next == Step \/ Disturb \/ Expire \/ Terminated

\* Every dial and every connection has a deadline, so the scanner never stops
\* for good while it has something to do.
Spec == Init /\ [][Next]_vars /\ WF_vars(Step)

----------------------------------------------------------------------------
(* Properties. *)

\* Every variable has its type.
TypeOK ==
  /\ pool \in Pools
  /\ opts \in [host : Hosts, checkVulns : BOOLEAN]
  /\ expired \in BOOLEAN
  /\ faults \in 0..MaxFaults
  /\ pc \in {"guard", "rate", "done", "refused"} \cup Phases
  /\ pending \subseteq Probes
  /\ conn \in [probe : Probes, backend : pool, others : SUBSET pool,
               disturbed : 0..MaxFaults] \cup {NoConn}
  /\ protocols \subseteq Versions
  /\ certificate \in Certificates
  /\ http2 \in BOOLEAN
  /\ accepted \subseteq Catalog
  /\ vulnerabilities \subseteq Vulnerabilities
  /\ errors \subseteq {"certificate"}
  /\ report \in Reports

\* The probe that looks for flaw f.
ProbeFor(f) == IF f \in CBCFamily THEN "CBC" ELSE f

\* No scan of this pool takes probe p beyond its contract: each backend is
\* covered, and an oracle probe meets one backend and few faults.
Covered(p) ==
  /\ \A b \in pool : p \notin b.beyond
  /\ p \in OracleProbes => faults < Repetitions /\ \A b, c \in pool : b = c

\* Whatever the network loses and whenever the context expires, the Result
\* only ever says what is true of a backend: each version, suite and certificate
\* reported exists behind the name, each inferred flaw has its cause there, and
\* a flaw that a probe reports is one of a backend's, as long as the probes'
\* contracts cover the pool (the FAIL-SAFE rule of vulns.go).
EvidenceIsGenuine ==
  /\ \A v \in protocols : \E b \in pool : v \in b.versions
  /\ \A s \in accepted : \E b \in pool : s \in b.suites /\ "TLS12" \in b.versions
  /\ certificate # NoCertificate =>
       \E b \in pool : certificate = analyseCertificate(b.leaf)
  /\ \A f \in vulnerabilities \cap Flaws :
       Covered(ProbeFor(f)) => \E b \in pool : f \in b.flaws
  /\ "Poodle" \in vulnerabilities => \E b \in pool : "SSL3" \in b.versions
  /\ "Drown"  \in vulnerabilities => \E b \in pool : "SSL2" \in b.versions
  /\ "Beast"  \in vulnerabilities =>
       /\ \E b \in pool : "TLS10" \in b.versions
       /\ \E b \in pool : \E s \in b.suites \cap Suites : cipherCatalog[s].cbc
  /\ "Sweet32" \in vulnerabilities => \E b \in pool : "RSA_3DES_EDE_CBC_SHA" \in b.suites

\* A missing TLS_FALLBACK_SCSV is reported only of a host that ignores the
\* SCSV, however many version probes were lost before the downgrade version was
\* chosen.  The pool must be uniform: the version below the newest of one backend
\* may be the newest of another, which then rightly answers.
Uniform == \A b, c \in pool : b.versions = c.versions

FallbackClaimIsSound ==
  Uniform /\ "TLSFallbackSCSV" \in vulnerabilities => \E b \in pool : ~b.scsv

\* A scan of one backend that nothing disturbs reports all that its handshakes
\* can find, whatever the order in which the suites were tried: the versions,
\* the suites, whether there is a certificate, the flaws inferred from them and
\* the missing SCSV are a function of the server.  What the other active probes
\* find is not: they may miss a flaw.
Undisturbed == faults = 0 /\ ~expired

CompleteWhenUndisturbed ==
  pc = "done" /\ Undisturbed =>
    \A b \in pool :
      (pool = {b}) =>
        /\ protocols = {v \in Versions : Supports(b, v)}
        /\ accepted = {s \in Catalog : Accepts(b, s)}
        /\ (certificate = NoCertificate) = (\A v \in TLSVersions : ~Supports(b, v))
        /\ opts.checkVulns =>
             /\ "Poodle" \in vulnerabilities <=> "SSL3" \in b.versions
             /\ "Drown" \in vulnerabilities <=> "SSL2" \in b.versions
             /\ ~b.scsv /\ Cardinality(protocols \cap TLSVersions) > 1 =>
                  "TLSFallbackSCSV" \in vulnerabilities

\* Once the context has expired and the connection in flight is gone the
\* evidence is frozen: the scan runs to its end without learning anything (the
\* inferences from what it has are drawn all the same).
ExpiryFreezesEvidence ==
  [][expired /\ conn = NoConn =>
       /\ conn' = NoConn
       /\ UNCHANGED <<protocols, certificate, http2, accepted>>
       /\ vulnerabilities' \in {vulnerabilities, Inferred(protocols, accepted)}]_vars

\* A scan that never saw a certificate says so, in Errors and in GradeCaps, and
\* is graded neither A nor A+; no other scan reports an error.
NoCertificateIsReported ==
  pc = "done" =>
    /\ (errors # {}) = (certificate = NoCertificate)
    /\ certificate = NoCertificate =>
         "certificateTrust" \in report.caps /\ report.grade \notin {"Aplus", "A"}

\* A+ is earned: TLS 1.3 and a forward-secret strong suite were seen and no
\* weak one, no SSL version, no problem of trust and no critical flaw.
APlusIsEarned ==
  pc = "done" /\ report.grade = "Aplus" =>
    /\ "TLS13" \in protocols /\ protocols \cap {"SSL2", "SSL3"} = {}
    /\ accepted # {} /\ \A s \in accepted : cipherCatalog[s].class = "strong"
    /\ ForwardSecrecy(accepted)
    /\ ~TrustProblem(certificate) /\ certificate.daysToExpiry > 30
    /\ vulnerabilities \cap CriticalFlaws = {}

\* Every scan ends, whatever the network does.
Termination == <>(pc \in {"done", "refused"})

----------------------------------------------------------------------------
(* What the documentation says of the report and the code does otherwise:  *)
(* the property of a run that refutes it.                                  *)

\* README.md: "Critical vulnerability ... F" in the table of grade caps, and
\* "returns the lower (worse) of current and ceiling" above capAt: no server
\* with a critical flaw is graded better than F.
CriticalFlawMeansF ==
  pc = "done" /\ Undisturbed /\ vulnerabilities \cap CriticalFlaws # {} =>
    gradeRank[report.grade] >= gradeRank["F"]
=============================================================================
