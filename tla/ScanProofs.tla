----------------------------- MODULE ScanProofs -----------------------------
(***************************************************************************)
(* Theorems about Scan, for every catalogue, every set of pools and every  *)
(* number of faults.                                                       *)
(***************************************************************************)
EXTENDS Scan, FiniteSetTheorems, TLAPS

----------------------------------------------------------------------------
(* The pure operators return what their types say. *)

\* The analysis of any leaf is a Certificate, and never the zero value.
LEMMA CertificateType ==
  ASSUME NEW leaf \in LeafCertificates
  PROVE  /\ analyseCertificate(leaf) \in Certificates
         /\ analyseCertificate(leaf) # NoCertificate
<1>1. WholeDays(leaf.hoursLeft) \in Int
  BY DEF LeafCertificates, WholeDays
<1>2. leaf.bits \in Nat /\ leaf.hoursLeft \in Int /\ leaf.started \in BOOLEAN
      /\ leaf.issuerIsSubject \in BOOLEAN /\ leaf.sha1 \in BOOLEAN
      /\ leaf.namesHost \in BOOLEAN
  BY DEF LeafCertificates
<1>3. analyseCertificate(leaf).keyType \in {"RSA", "ECDSA", "unknown"}
  BY DEF analyseCertificate
<1>4. NoCertificate.keyType = ""
  BY DEF NoCertificate
<1>5. (leaf.started /\ leaf.hoursLeft > 0) \in BOOLEAN
  OBVIOUS
<1> QED
  BY <1>1, <1>2, <1>3, <1>4, <1>5 DEF analyseCertificate, Certificates

\* The zero Certificate is a Certificate.
LEMMA NoCertificateType == NoCertificate \in Certificates
  BY DEF NoCertificate, Certificates

\* The weighted score stays a percentage.
LEMMA NumericType ==
  ASSUME NEW r, r.certificate \in Certificates
  PROVE  numericScore(r) \in 0..100
<1>1. protocolScore(r.protocols) \in {0, 20, 70, 90, 100}
  BY DEF protocolScore
<1>2. cipherScore(r.accepted) \in {0, 20, 50, 80, 100}
  BY DEF cipherScore
<1>3. keyScore(r.certificate) \in {0, 20, 40, 60, 90, 100}
  <2>1. r.certificate.keyBits \in Nat
    BY DEF Certificates
  <2> QED
    BY <2>1 DEF keyScore
<1>4. keyExchangeScore(r.certificate, ForwardSecrecy(r.accepted)) \in 0..100
  BY <1>3 DEF keyExchangeScore
<1> QED
  BY <1>1, <1>2, <1>4 DEF numericScore

\* Every grade the rating can name is one of Grade's values.
LEMMA GradeNames ==
  /\ Grades = {"Aplus", "A", "B", "C", "D", "E", "F", "T", "R"}
  /\ CapNames = {"certificateTrust", "criticalVulnerability", "ssl2Enabled",
                 "ssl3Enabled", "noForwardSecrecy", "insecureCipher", "exportCipher"}
  /\ \A c \in CapNames : CapGrade[c] \in Grades
  BY DEF Grades, gradeRank, CapNames, CapGrade

\* Applying a cap gives a grade.
LEMMA ApplyType ==
  ASSUME NEW caps, NEW cap \in CapNames, NEW grade \in Grades
  PROVE  Apply(caps, cap, grade) \in Grades
  BY GradeNames DEF Apply, capAt

\* The caps of rate, applied in order, give a grade.
LEMMA CappedType ==
  ASSUME NEW grade \in Grades, NEW caps
  PROVE  Capped(grade, caps) \in Grades
<1> DEFINE trust    == IF "certificateTrust" \in caps THEN "T" ELSE grade
           critical == IF "criticalVulnerability" \in caps THEN "F" ELSE trust
           ssl2     == IF "ssl2Enabled" \in caps THEN "F" ELSE critical
           ssl3     == Apply(caps, "ssl3Enabled", ssl2)
           fs       == Apply(caps, "noForwardSecrecy", ssl3)
           insecure == Apply(caps, "insecureCipher", fs)
<1>1. ssl2 \in Grades
  BY GradeNames
<1> HIDE DEF ssl2
<1>2. ssl3 \in Grades
  BY <1>1, ApplyType, GradeNames
<1> HIDE DEF ssl3
<1>3. fs \in Grades
  BY <1>2, ApplyType, GradeNames
<1> HIDE DEF fs
<1>4. insecure \in Grades
  BY <1>3, ApplyType, GradeNames
<1> HIDE DEF insecure
<1>5. Apply(caps, "exportCipher", insecure) \in Grades
  BY <1>4, ApplyType, GradeNames
<1>6. Capped(grade, caps) = Apply(caps, "exportCipher", insecure)
  BY DEF Capped, insecure, fs, ssl3, ssl2
<1> QED
  BY <1>5, <1>6

\* rate returns a report whatever the evidence.
LEMMA RateType ==
  ASSUME NEW r, r.certificate \in Certificates
  PROVE  rate(r) \in Reports
<1>1. numericScore(r) \in 0..100
  BY NumericType
<1>2. numericToGrade(numericScore(r)) \in Grades
  BY <1>1, GradeNames DEF numericToGrade
<1> DEFINE grade == Capped(numericToGrade(numericScore(r)), Caps(r))
<1>3. grade \in Grades
  BY <1>2, CappedType
<1>4. (IF EarnsAPlus(r, grade) THEN "Aplus" ELSE grade) \in Grades
  BY <1>3, GradeNames
<1>5. Caps(r) \in SUBSET CapNames
  BY DEF Caps
<1> QED
  BY <1>1, <1>4, <1>5 DEF rate, Reports

----------------------------------------------------------------------------
(* Types.  TypeOK is not inductive: that only suites of the catalogue are  *)
(* accepted depends on which probes a phase runs.                          *)

ProbesOf ==
  [protocols |-> Versions, certificate |-> CertificateProbes,
   ciphers |-> Catalog, vulnerabilities |-> FlawProbes]

\* The probes pending are those of the phase, the one in flight is pending, and
\* between the phases nothing is.
PhaseInv ==
  /\ pc \in Phases => pending \subseteq ProbesOf[pc]
  /\ pc \notin Phases => pending = {} /\ conn = NoConn
  /\ conn # NoConn => conn.probe \in pending

\* What disturbed the probe in flight counts among the faults, and the backends
\* of its later exchanges are others than that of the first.
ConnInv ==
  conn # NoConn => conn.disturbed <= faults /\ conn.backend \notin conn.others

TypeInv == TypeOK /\ PhaseInv /\ ConnInv

\* Whatever a pool presents is a backend.
LEMMA ConnType ==
  ASSUME TypeOK, conn # NoConn
  PROVE  /\ conn.probe \in Probes
         /\ conn.backend \in pool
         /\ conn.backend \in Backends
         /\ conn.others \subseteq pool
         /\ conn.disturbed \in 0..MaxFaults
  BY PoolsAssumption DEF TypeOK

\* A flaw probe shows names of Vulnerabilities: its own flaws.
LEMMA ShowsType ==
  ASSUME NEW c, c.probe \in FlawProbes, NEW shown \in MayShow(c)
  PROVE  /\ shown \subseteq ClaimsOf(c.probe)
         /\ shown \subseteq Vulnerabilities
<1>1. shown \subseteq ClaimsOf(c.probe)
  BY DEF MayShow, ClaimsOf
<1>2. ClaimsOf(c.probe) \subseteq Vulnerabilities
  BY DEF ClaimsOf, FlawProbes, Vulnerabilities, Flaws, CBCFamily
<1> QED
  BY <1>1, <1>2

\* The inferences are names of Vulnerabilities.
LEMMA InferredType ==
  ASSUME NEW P, NEW A PROVE Inferred(P, A) \subseteq Inferable
  BY DEF Inferred

\* The probe in flight names the phase.
LEMMA ProbePhase ==
  ASSUME TypeInv, conn # NoConn
  PROVE  /\ pc \in Phases
         /\ conn.probe \in ProbesOf[pc]
         /\ conn.probe \in Suites => pc = "ciphers"
         /\ conn.probe \in Versions => pc = "protocols"
         /\ conn.probe \in CertificateProbes => pc = "certificate"
         /\ conn.probe \in FlawProbes => pc = "vulnerabilities"
<1>1. pc \in Phases /\ conn.probe \in ProbesOf[pc]
  BY DEF TypeInv, PhaseInv
<1>2. Suites = {"TLS_AES_128_GCM_SHA256", "TLS_AES_256_GCM_SHA384",
        "TLS_CHACHA20_POLY1305_SHA256", "ECDHE_RSA_AES_128_GCM",
        "ECDHE_RSA_AES_256_GCM", "ECDHE_ECDSA_AES_128_GCM",
        "ECDHE_RSA_AES_128_CBC_SHA", "RSA_AES_128_GCM", "RSA_AES_128_CBC_SHA",
        "RSA_3DES_EDE_CBC_SHA", "ECDHE_RSA_RC4_128_SHA"}
  BY DEF Suites, cipherCatalog
<1>3. ProbesOf["protocols"] = Versions /\ ProbesOf["certificate"] = CertificateProbes
      /\ ProbesOf["ciphers"] = Catalog /\ ProbesOf["vulnerabilities"] = FlawProbes
  BY DEF ProbesOf
<1>4. /\ Versions \cap Suites = {} /\ Versions \cap CertificateProbes = {}
      /\ Versions \cap FlawProbes = {} /\ Suites \cap CertificateProbes = {}
      /\ Suites \cap FlawProbes = {} /\ CertificateProbes \cap FlawProbes = {}
  BY <1>2 DEF Versions, TLSVersions, CertificateProbes, FlawProbes
<1> QED
  BY <1>1, <1>3, <1>4, CatalogAssumption DEF Phases

\* What the exchanges of an oracle probe change of its connection.
LEMMA ConnChange ==
  ASSUME TypeOK, ConnInv
  PROVE  /\ NextExchange =>
              /\ conn' \in [probe : Probes, backend : pool, others : SUBSET pool,
                             disturbed : 0..MaxFaults]
              /\ conn'.probe = conn.probe /\ conn'.backend = conn.backend
              /\ conn'.disturbed = conn.disturbed /\ conn.backend \notin conn'.others
         /\ Disturb =>
              /\ conn' \in [probe : Probes, backend : pool, others : SUBSET pool,
                             disturbed : 0..MaxFaults]
              /\ conn'.probe = conn.probe /\ conn'.backend = conn.backend
              /\ conn'.disturbed = conn.disturbed + 1 /\ conn'.others = conn.others
<1> DEFINE Conns == [probe : Probes, backend : pool, others : SUBSET pool,
                     disturbed : 0..MaxFaults]
<1>1. conn # NoConn => conn \in Conns
  BY DEF TypeOK
<1>2. ASSUME NextExchange
      PROVE  /\ conn' \in Conns
             /\ conn'.probe = conn.probe /\ conn'.backend = conn.backend
             /\ conn'.disturbed = conn.disturbed /\ conn.backend \notin conn'.others
  <2>1. conn \in Conns /\ conn # NoConn
    BY <1>1, <1>2 DEF NextExchange
  <2>2. PICK b \in pool \ ({conn.backend} \cup conn.others) :
          conn' = [conn EXCEPT !.others = @ \cup {b}]
    BY <1>2 DEF NextExchange
  <2> QED
    BY <2>1, <2>2 DEF ConnInv
<1>3. ASSUME Disturb
      PROVE  /\ conn' \in Conns
             /\ conn'.probe = conn.probe /\ conn'.backend = conn.backend
             /\ conn'.disturbed = conn.disturbed + 1 /\ conn'.others = conn.others
  <2>1. conn \in Conns /\ conn # NoConn
    BY <1>1, <1>3 DEF Disturb
  <2>2. conn' = [conn EXCEPT !.disturbed = @ + 1] /\ faults < MaxFaults
    BY <1>3 DEF Disturb
  <2>3. conn.disturbed + 1 \in 0..MaxFaults
    BY <2>1, <2>2, FaultsAssumption DEF ConnInv, TypeOK
  <2> QED
    BY <2>1, <2>2, <2>3
<1> QED
  BY <1>2, <1>3

\* Scan starts well typed.
LEMMA InitTypes == Init => TypeInv
<1> SUFFICES ASSUME Init PROVE TypeInv
  OBVIOUS
<1>1. report \in Reports
  BY GradeNames DEF Init, NoReport, Reports
<1>2. TypeOK
  <2>1. faults \in 0..MaxFaults
    BY FaultsAssumption DEF Init
  <2>2. conn = NoConn
    BY DEF Init
  <2>3. certificate \in Certificates
    BY NoCertificateType DEF Init
  <2> QED
    BY <1>1, <2>1, <2>2, <2>3 DEF Init, TypeOK
<1>3. PhaseInv
  BY DEF Init, PhaseInv, Phases
<1> QED
  BY <1>2, <1>3 DEF TypeInv, ConnInv, Init

\* What is left of a phase after a miss are probes of that phase.
LEMMA AfterMissType ==
  ASSUME TypeInv, pc \in Phases, NEW p \in pending
  PROVE  AfterMiss(p) \subseteq ProbesOf[pc] /\ AfterMiss(p) \subseteq Probes
<1>1. pending \subseteq ProbesOf[pc] /\ pending \subseteq Probes
  BY DEF TypeInv, TypeOK, PhaseInv
<1>2. CASE p # "cert13"
  BY <1>1, <1>2 DEF AfterMiss
<1>3. CASE p = "cert13"
  <2>1. "cert13" \notin Catalog /\ "cert13" \notin Versions /\ "cert13" \notin FlawProbes
    BY CatalogAssumption DEF Suites, cipherCatalog, Versions, TLSVersions, FlawProbes
  <2>2. pc = "certificate"
    BY <1>1, <1>3, <2>1 DEF ProbesOf, Phases
  <2> QED
    BY <1>3, <2>2 DEF AfterMiss, ProbesOf, CertificateProbes, Probes
<1> QED
  BY <1>2, <1>3

\* Every step keeps what is known of the probe in flight.
LEMMA ConnStep == TypeOK /\ ConnInv /\ [Next]_vars => ConnInv'
<1> SUFFICES ASSUME TypeOK, ConnInv, [Next]_vars PROVE ConnInv'
  OBVIOUS
<1>1. ASSUME UNCHANGED <<conn, faults>> PROVE ConnInv'
  BY <1>1 DEF ConnInv
<1>2. ASSUME conn' = NoConn PROVE ConnInv'
  BY <1>2 DEF ConnInv
<1>3. faults \in Nat
  BY FaultsAssumption DEF TypeOK
<1>4. ASSUME NEW p \in Probes, Dial(p) PROVE ConnInv'
  <2>1. PICK b \in pool : conn' = Connected(p, b)
    BY <1>4 DEF Dial
  <2>2. conn'.disturbed = 0 /\ conn'.others = {} /\ faults' = faults
    BY <1>4, <2>1 DEF Dial, Connected
  <2> QED
    BY <1>3, <2>2 DEF ConnInv
<1>5. CASE NextExchange
  <2>1. UNCHANGED faults /\ conn # NoConn
    BY <1>5 DEF NextExchange
  <2>2. conn'.disturbed = conn.disturbed /\ conn'.backend = conn.backend
        /\ conn.backend \notin conn'.others
    BY <1>5, ConnChange
  <2> QED
    BY <2>1, <2>2 DEF ConnInv
<1>6. CASE Disturb
  <2>1. faults' = faults + 1 /\ conn # NoConn
    BY <1>6 DEF Disturb
  <2>2. conn'.disturbed = conn.disturbed + 1 /\ conn'.backend = conn.backend
        /\ conn'.others = conn.others
    BY <1>6, ConnChange
  <2>3. conn.disturbed \in Nat
    BY <2>1, ConnType, FaultsAssumption
  <2> QED
    BY <1>3, <2>1, <2>2, <2>3 DEF ConnInv
<1>7. CASE guardTarget \/ EndProtocols \/ EndCertificate \/ EndCiphers \/ EndVulnerabilities
           \/ Rate \/ Expire \/ UNCHANGED vars
  BY <1>1, <1>7 DEF guardTarget, EndProtocols, EndCertificate, EndCiphers,
                    EndVulnerabilities, Rate, Expire, vars
<1>8. CASE ConnLost \/ Finish
  BY <1>2, <1>8 DEF ConnLost, Finish, FinishVersion, FinishCertificate, FinishCipher,
                    FinishFlaw
<1>9. ASSUME NEW p \in Probes, DialFails(p) PROVE ConnInv'
  BY <1>2, <1>9 DEF DialFails, Turn
<1> QED
  BY <1>4, <1>5, <1>6, <1>7, <1>8, <1>9 DEF Next, Step, Terminated

\* Every step of a scan keeps its types and the probes of its phase.
LEMMA StepTypes == TypeInv /\ [Next]_vars => TypeInv'
<1> SUFFICES ASSUME TypeInv, [Next]_vars PROVE TypeOK' /\ PhaseInv'
  BY ConnStep DEF TypeInv
<1> USE DEF TypeInv
<1>1. CASE UNCHANGED vars
  BY <1>1 DEF vars, scenario, evidence, TypeOK, PhaseInv
<1>2. CASE guardTarget
  <2>1. TypeOK'
    BY <1>2 DEF guardTarget, Start, TypeOK, scenario, evidence, Probes, Phases
  <2>2. PhaseInv'
    BY <1>2 DEF guardTarget, Start, TypeOK, PhaseInv, scenario, evidence, ProbesOf, Phases
  <2> QED
    BY <2>1, <2>2
<1>3. CASE EndProtocols
  <2>1. TypeOK'
    BY <1>3 DEF EndProtocols, Start, TypeOK, scenario, evidence, Probes, Phases,
                CertificateProbes
  <2>2. PhaseInv'
    BY <1>3 DEF EndProtocols, Finished, Start, PhaseInv, scenario, ProbesOf, Phases,
                CertificateProbes
  <2> QED
    BY <2>1, <2>2
<1>4. CASE EndCertificate
  <2>1. TypeOK'
    BY <1>4, CatalogAssumption
       DEF EndCertificate, Start, TypeOK, scenario, evidence, Probes, Phases
  <2>2. PhaseInv'
    BY <1>4 DEF EndCertificate, Finished, Start, PhaseInv, scenario, ProbesOf, Phases
  <2> QED
    BY <2>1, <2>2
<1>5. CASE EndCiphers
  <2>1. ActiveProbes(protocols) \subseteq FlawProbes
    BY DEF ActiveProbes
  <2>2. Inferable \subseteq Vulnerabilities
    BY DEF Vulnerabilities
  <2>3. TypeOK'
    BY <1>5, <2>1, <2>2, InferredType
       DEF EndCiphers, Start, TypeOK, scenario, evidence, Probes, Phases
  <2>4. PhaseInv'
    BY <1>5, <2>1 DEF EndCiphers, Finished, Start, PhaseInv, scenario, ProbesOf, Phases
  <2> QED
    BY <2>3, <2>4
<1>6. CASE EndVulnerabilities
  BY <1>6 DEF EndVulnerabilities, Finished, Start, TypeOK, PhaseInv, scenario, evidence,
              Phases
<1>7. CASE Rate
  <2> DEFINE r == [protocols |-> protocols, certificate |-> certificate,
                   accepted |-> accepted, vulnerabilities |-> vulnerabilities]
  <2>1. rate(r) \in Reports
    BY RateType DEF TypeOK
  <2>2. TypeOK'
    BY <1>7, <2>1 DEF Rate, Start, TypeOK, scenario, evidence, Phases
  <2>3. PhaseInv'
    BY <1>7 DEF Rate, Start, PhaseInv, scenario, Phases
  <2> QED
    BY <2>2, <2>3
<1>8. ASSUME NEW p \in Probes, Dial(p) PROVE TypeOK' /\ PhaseInv'
  <2>1. 0 \in 0..MaxFaults
    BY FaultsAssumption
  <2>2. PICK b \in pool : conn' = Connected(p, b)
    BY <1>8 DEF Dial
  <2>3. conn' \in [probe : Probes, backend : pool, others : SUBSET pool,
                   disturbed : 0..MaxFaults]
    BY <2>1, <2>2 DEF Connected
  <2>4. conn'.probe \in pending
    BY <1>8, <2>2 DEF Dial, Turn, Connected
  <2> QED
    BY <1>8, <2>3, <2>4 DEF Dial, Turn, TypeOK, PhaseInv, scenario, evidence
<1>9. ASSUME NEW p \in Probes, DialFails(p) PROVE TypeOK' /\ PhaseInv'
  <2>1. pc \in Phases /\ p \in pending /\ conn = NoConn
    BY <1>9 DEF DialFails, Turn
  <2>2. AfterMiss(p) \subseteq ProbesOf[pc] /\ AfterMiss(p) \subseteq Probes
    BY <2>1, AfterMissType
  <2>3. faults' \in 0..MaxFaults
    BY <1>9, FaultsAssumption DEF DialFails, TypeOK
  <2> QED
    BY <1>9, <2>1, <2>2, <2>3 DEF DialFails, TypeOK, PhaseInv, scenario, evidence
<1>10. CASE ConnLost
  <2>1. pc \in Phases /\ conn.probe \in pending
    BY <1>10 DEF ConnLost, PhaseInv
  <2>2. AfterMiss(conn.probe) \subseteq ProbesOf[pc] /\ AfterMiss(conn.probe) \subseteq Probes
    BY <2>1, AfterMissType
  <2>3. faults' \in 0..MaxFaults
    BY <1>10, FaultsAssumption DEF ConnLost, TypeOK
  <2> QED
    BY <1>10, <2>1, <2>2, <2>3 DEF ConnLost, TypeOK, PhaseInv, scenario, evidence
<1>11. CASE FinishVersion
  <2>1. pc = "protocols" /\ conn.probe \in Versions
    BY <1>11, ProbePhase DEF FinishVersion, Concludes
  <2> QED
    BY <1>11, <2>1 DEF FinishVersion, TypeOK, PhaseInv, scenario
<1>12. CASE FinishCertificate
  <2>1. /\ pc \in Phases /\ conn.probe \in pending
        /\ conn.backend \in Backends
    BY <1>12, ConnType DEF FinishCertificate, Concludes, PhaseInv
  <2>2. AfterMiss(conn.probe) \subseteq ProbesOf[pc] /\ AfterMiss(conn.probe) \subseteq Probes
    BY <2>1, AfterMissType
  <2>3. conn.backend.leaf \in LeafCertificates /\ conn.backend.h2 \in BOOLEAN
    BY <2>1 DEF Backends
  <2>4. analyseCertificate(conn.backend.leaf) \in Certificates
    BY <2>3, CertificateType
  <2>5. certificate' \in Certificates /\ http2' \in BOOLEAN
    BY <1>12, <2>3, <2>4 DEF FinishCertificate, TypeOK
  <2>6. pending' \subseteq ProbesOf[pc] /\ pending' \subseteq Probes
    BY <1>12, <2>2 DEF FinishCertificate
  <2> QED
    BY <1>12, <2>1, <2>5, <2>6 DEF FinishCertificate, TypeOK, PhaseInv, scenario
<1>13. CASE FinishCipher
  <2>1. pc = "ciphers" /\ conn.probe \in Catalog
    BY <1>13, ProbePhase DEF FinishCipher, Concludes, ProbesOf
  <2> QED
    BY <1>13, <2>1 DEF FinishCipher, TypeOK, PhaseInv, scenario
<1>14. CASE FinishFlaw
  <2>1. pc = "vulnerabilities" /\ conn.probe \in FlawProbes
    BY <1>14, ProbePhase DEF FinishFlaw, Concludes
  <2>2. \A shown \in MayShow(conn) : shown \subseteq Vulnerabilities
    BY <2>1, ShowsType
  <2>3. vulnerabilities' \subseteq Vulnerabilities
    BY <1>14, <2>2 DEF FinishFlaw, TypeOK
  <2> QED
    BY <1>14, <2>1, <2>3 DEF FinishFlaw, TypeOK, PhaseInv, scenario
<1>15. CASE Expire
  BY <1>15 DEF Expire, TypeOK, PhaseInv, scenario, evidence
<1>16. CASE NextExchange
  <2>1. conn' \in [probe : Probes, backend : pool, others : SUBSET pool,
                   disturbed : 0..MaxFaults] /\ conn'.probe = conn.probe
    BY <1>16, ConnChange
  <2> QED
    BY <1>16, <2>1 DEF NextExchange, TypeOK, PhaseInv, scenario, evidence
<1>17. CASE Disturb
  <2>1. faults' \in 0..MaxFaults
    BY <1>17, FaultsAssumption DEF Disturb, TypeOK
  <2>2. conn' \in [probe : Probes, backend : pool, others : SUBSET pool,
                   disturbed : 0..MaxFaults] /\ conn'.probe = conn.probe
    BY <1>17, ConnChange
  <2> QED
    BY <1>17, <2>1, <2>2 DEF Disturb, TypeOK, PhaseInv, scenario, evidence
<1> QED
  BY <1>1, <1>2, <1>3, <1>4, <1>5, <1>6, <1>7, <1>8, <1>9, <1>10, <1>11, <1>12, <1>13,
     <1>14, <1>15, <1>16, <1>17 DEF Next, Step, Finish, Terminated

\* Every reachable state of a scan is well typed: the score is a percentage,
\* only suites of the catalogue are accepted, the report names known caps.
THEOREM TypeCorrectness == Spec => []TypeOK
<1>1. TypeInv => TypeOK
  BY DEF TypeInv
<1> QED
  BY <1>1, InitTypes, StepTypes, PTL DEF Spec

----------------------------------------------------------------------------
(* Evidence. *)

\* crypto/tls only negotiates a version the backend has.
LEMMA NegotiatesMeans ==
  ASSUME NEW b, NEW v, NEW offered, Negotiates(b, v, offered)
  PROVE  v \in b.versions
  BY DEF Negotiates

\* A version probe succeeds only on a backend that has the version.
LEMMA SupportsMeans ==
  ASSUME NEW b, NEW v, Supports(b, v)
  PROVE  v \in b.versions
  BY NegotiatesMeans DEF Supports

\* cipherAccepted succeeds only on a backend that has TLS 1.2 and the suite.
LEMMA AcceptsMeans ==
  ASSUME NEW b, NEW s, Accepts(b, s)
  PROVE  "TLS12" \in b.versions /\ s \in b.suites
  BY DEF Accepts, Negotiates

\* Within its contract a flaw probe shows only flaws of its backend; it never
\* shows an inferred one, nor one that another probe looks for.
LEMMA ShowsMeans ==
  ASSUME NEW c, c.probe \in FlawProbes, NEW shown \in MayShow(c)
  PROVE  /\ WithinContract(c) => shown \cap Flaws \subseteq c.backend.flaws
         /\ \A f \in shown \cap Flaws : ProbeFor(f) = c.probe
         /\ shown \cap Inferable = {}
         /\ c.probe = "TLSFallbackSCSV" /\ AnswersFallback(c.backend, fallbackProbeVersion(protocols))
              <=> "TLSFallbackSCSV" \in shown
<1>1. "TLSFallbackSCSV" \notin Flaws /\ "TLSFallbackSCSV" \notin CBCFamily
  BY DEF Flaws, CBCFamily
<1>2. FlawProbes \cap Inferable = {} /\ CBCFamily \cap Inferable = {}
  BY DEF FlawProbes, Inferable, CBCFamily
<1>3. shown \subseteq ClaimsOf(c.probe)
  BY ShowsType
<1>4. shown \cap Inferable = {}
  BY <1>2, <1>3 DEF ClaimsOf
<1>5. \A f \in shown \cap Flaws : ProbeFor(f) = c.probe
  <2>1. FlawProbes \cap CBCFamily = {}
    BY DEF FlawProbes, CBCFamily
  <2> QED
    BY <1>3, <2>1 DEF ClaimsOf, ProbeFor
<1>6. CASE c.probe = "TLSFallbackSCSV"
  <2>1. shown = IF AnswersFallback(c.backend, fallbackProbeVersion(protocols))
                THEN {c.probe} ELSE {}
    BY <1>6 DEF MayShow
  <2> QED
    BY <1>1, <1>4, <1>5, <1>6, <2>1
<1>7. CASE c.probe # "TLSFallbackSCSV"
  <2>1. "TLSFallbackSCSV" \notin shown
    BY <1>1, <1>3, <1>7 DEF ClaimsOf
  <2>2. WithinContract(c) => shown \subseteq c.backend.flaws
    BY <1>7 DEF MayShow
  <2> QED
    BY <1>4, <1>5, <1>7, <2>1, <2>2
<1> QED
  BY <1>6, <1>7

\* Each inference names the evidence it is drawn from.
LEMMA InferredMeans ==
  ASSUME NEW P, NEW A
  PROVE  /\ Inferred(P, A) \cap Flaws = {}
         /\ "TLSFallbackSCSV" \notin Inferred(P, A)
         /\ "Poodle"  \in Inferred(P, A) => "SSL3" \in P
         /\ "Drown"   \in Inferred(P, A) => "SSL2" \in P
         /\ "Beast"   \in Inferred(P, A) => "TLS10" \in P /\ hasCBC(A)
         /\ "Sweet32" \in Inferred(P, A) => "RSA_3DES_EDE_CBC_SHA" \in A
  BY DEF Inferred, Inferable, Flaws, CBCFamily, has3DES

\* In a pool that the contract of the probe in flight covers, the probe is within
\* its contract: it met the one backend, and no more disturbances than faults.
LEMMA CoveredMeans ==
  ASSUME TypeOK, ConnInv, conn # NoConn, Covered(conn.probe)
  PROVE  WithinContract(conn)
<1>1. /\ conn.backend \in pool /\ conn.others \subseteq pool
      /\ conn.disturbed \in 0..MaxFaults /\ faults \in 0..MaxFaults
  BY ConnType DEF TypeOK
<1>2. conn.probe \notin conn.backend.beyond
  BY <1>1 DEF Covered
<1>3. ASSUME conn.probe \in OracleProbes
      PROVE  conn.others = {} /\ conn.disturbed < Repetitions
  <2>1. faults < Repetitions /\ \A b, c \in pool : b = c
    BY <1>3 DEF Covered
  <2>2. conn.others = {}
    BY <1>1, <2>1 DEF ConnInv
  <2>3. conn.disturbed < Repetitions
    BY <1>1, <2>1, FaultsAssumption DEF ConnInv, Repetitions
  <2> QED
    BY <2>2, <2>3
<1> QED
  BY <1>2, <1>3 DEF WithinContract

\* The pool is fixed and faults are only ever added: what is covered after a step
\* was before it.
LEMMA FaultsGrow ==
  ASSUME TypeInv, [Next]_vars
  PROVE  pool' = pool /\ \A p : Covered(p)' => Covered(p)
<1>1. faults \in Nat
  BY FaultsAssumption DEF TypeInv, TypeOK
<1>2. pool' = pool /\ (faults' = faults \/ faults' = faults + 1)
  <2>1. CASE guardTarget \/ EndProtocols \/ EndCertificate \/ EndCiphers
             \/ EndVulnerabilities \/ Rate \/ Expire \/ UNCHANGED vars
    BY <2>1 DEF guardTarget, EndProtocols, EndCertificate, EndCiphers, EndVulnerabilities,
                Rate, Expire, vars, scenario
  <2>2. CASE \E p \in Probes : Dial(p) \/ DialFails(p)
    BY <2>2 DEF Dial, DialFails, scenario
  <2>3. CASE NextExchange \/ Disturb \/ ConnLost
    BY <2>3 DEF NextExchange, Disturb, ConnLost, scenario
  <2>4. CASE Finish
    BY <2>4 DEF Finish, FinishVersion, FinishCertificate, FinishCipher, FinishFlaw, scenario
  <2> QED
    BY <2>1, <2>2, <2>3, <2>4 DEF Next, Step, Terminated
<1> QED
  BY <1>1, <1>2 DEF Covered, Repetitions

\* No evidence, nothing to prove.
LEMMA EvidenceInit == Init => EvidenceIsGenuine
  BY DEF Init, EvidenceIsGenuine

\* Every step of a scan adds only evidence of a backend of its pool.
LEMMA EvidenceStep ==
  TypeInv /\ EvidenceIsGenuine /\ [Next]_vars => EvidenceIsGenuine'
<1> SUFFICES ASSUME TypeInv, EvidenceIsGenuine, [Next]_vars PROVE EvidenceIsGenuine'
  OBVIOUS
\* Faults are only ever added: what is covered after a step was before it.
<1>0. pool' = pool /\ \A p : Covered(p)' => Covered(p)
  BY FaultsGrow
\* The steps that leave the evidence alone.
<1>1. ASSUME UNCHANGED evidence PROVE EvidenceIsGenuine'
  BY <1>0, <1>1 DEF evidence, EvidenceIsGenuine
<1>2. CASE FinishVersion
  <2>1. conn.backend \in pool
    BY <1>2, ConnType DEF FinishVersion, Concludes, TypeInv
  <2>2. \A v \in protocols' : \E b \in pool : v \in b.versions
    BY <1>2, <2>1, SupportsMeans DEF FinishVersion, EvidenceIsGenuine
  <2> QED
    BY <1>0, <1>2, <2>2 DEF FinishVersion, EvidenceIsGenuine
<1>3. CASE FinishCertificate
  <2>1. conn.backend \in pool
    BY <1>3, ConnType DEF FinishCertificate, Concludes, TypeInv
  <2>2. certificate' # NoCertificate =>
          \E b \in pool : certificate' = analyseCertificate(b.leaf)
    BY <1>3, <2>1 DEF FinishCertificate, EvidenceIsGenuine
  <2> QED
    BY <1>0, <1>3, <2>2 DEF FinishCertificate, EvidenceIsGenuine
<1>4. CASE FinishCipher
  <2>1. conn.backend \in pool
    BY <1>4, ConnType DEF FinishCipher, Concludes, TypeInv
  <2>2. \A s \in accepted' : \E b \in pool : s \in b.suites /\ "TLS12" \in b.versions
    BY <1>4, <2>1, AcceptsMeans DEF FinishCipher, EvidenceIsGenuine
  <2> QED
    BY <1>0, <1>4, <2>2 DEF FinishCipher, EvidenceIsGenuine
<1>5. CASE FinishFlaw
  <2>1. conn.backend \in pool /\ conn.probe \in FlawProbes
    BY <1>5, ConnType DEF FinishFlaw, Concludes, TypeInv
  <2>2. PICK shown \in MayShow(conn) : vulnerabilities' = vulnerabilities \cup shown
    BY <1>5 DEF FinishFlaw
  <2>3. Covered(conn.probe) => WithinContract(conn)
    BY <1>5, CoveredMeans DEF FinishFlaw, Concludes, TypeInv
  <2>4. /\ WithinContract(conn) => shown \cap Flaws \subseteq conn.backend.flaws
        /\ \A f \in shown \cap Flaws : ProbeFor(f) = conn.probe
        /\ shown \cap Inferable = {}
    BY <2>1, ShowsMeans
  <2>5. \A f \in vulnerabilities' \cap Flaws :
          Covered(ProbeFor(f)) => \E b \in pool : f \in b.flaws
    BY <2>1, <2>2, <2>3, <2>4 DEF EvidenceIsGenuine
  <2>6. \A f \in Inferable : f \in vulnerabilities' => f \in vulnerabilities
    BY <2>2, <2>4
  <2>7. UNCHANGED <<protocols, accepted, certificate>>
    BY <1>5 DEF FinishFlaw
  <2> QED
    BY <1>0, <2>5, <2>6, <2>7 DEF EvidenceIsGenuine, Inferable
<1>6. CASE EndCiphers
  <2>1. UNCHANGED <<protocols, certificate, http2, accepted>>
    BY <1>6 DEF EndCiphers
  <2>2. CASE UNCHANGED vulnerabilities
    BY <1>1, <2>1, <2>2 DEF evidence
  <2>3. CASE vulnerabilities' = Inferred(protocols, accepted)
    <3>1. hasCBC(accepted) =>
            \E b \in pool : \E s \in b.suites \cap Suites : cipherCatalog[s].cbc
      <4>1. accepted \subseteq Suites
        BY CatalogAssumption DEF TypeInv, TypeOK
      <4> QED
        BY <4>1 DEF hasCBC, EvidenceIsGenuine
    <3> QED
      BY <1>0, <2>1, <2>3, <3>1, InferredMeans DEF EvidenceIsGenuine
  <2> QED
    BY <1>6, <2>2, <2>3 DEF EndCiphers
<1>7. ASSUME NEW p \in Probes, Dial(p) \/ DialFails(p) PROVE EvidenceIsGenuine'
  BY <1>1, <1>7 DEF Dial, DialFails
<1>8. CASE guardTarget \/ EndProtocols \/ EndCertificate \/ EndVulnerabilities \/ Rate
           \/ NextExchange \/ Disturb \/ ConnLost \/ Expire \/ UNCHANGED vars
  BY <1>1, <1>8 DEF guardTarget, EndProtocols, EndCertificate, EndVulnerabilities, Rate,
                    NextExchange, Disturb, ConnLost, Expire, vars
<1> QED
  BY <1>2, <1>3, <1>4, <1>5, <1>6, <1>7, <1>8 DEF Next, Step, Finish, Terminated

\* EvidenceIsGenuine: whatever fails, expires or is answered by another backend,
\* the versions, suites, certificate and inferred flaws of a Result exist behind
\* the name, and so do the flaws of the probes whose contracts cover the pool.
THEOREM EvidenceTheorem == Spec => []EvidenceIsGenuine
  BY InitTypes, StepTypes, EvidenceInit, EvidenceStep, PTL DEF Spec

----------------------------------------------------------------------------
(* The downgrade probe. *)

\* Ages are natural numbers.
LEMMA Ages ==
  /\ Age["TLS10"] = 0 /\ Age["TLS11"] = 1 /\ Age["TLS12"] = 2 /\ Age["TLS13"] = 3
  /\ \A v \in TLSVersions : Age[v] \in 0..3
<1>1. Age["TLS10"] = 0 /\ Age["TLS11"] = 1 /\ Age["TLS12"] = 2 /\ Age["TLS13"] = 3
  BY DEF Age, TLSVersions
<1> QED
  BY <1>1 DEF TLSVersions

\* A non-empty set of versions has a newest one.
LEMMA NewestIsNewest ==
  ASSUME NEW S \in SUBSET TLSVersions, S # {}
  PROVE  Newest(S) \in S /\ \A w \in S : Age[w] <= Age[Newest(S)]
<1>1. \E v \in S : \A w \in S : Age[w] <= Age[v]
  <2>1. CASE "TLS13" \in S
    BY <2>1, Ages
  <2>2. CASE "TLS13" \notin S /\ "TLS12" \in S
    BY <2>2, Ages DEF TLSVersions
  <2>3. CASE "TLS13" \notin S /\ "TLS12" \notin S /\ "TLS11" \in S
    BY <2>3, Ages DEF TLSVersions
  <2>4. CASE S = {"TLS10"}
    BY <2>4, Ages
  <2> QED
    BY <2>1, <2>2, <2>3, <2>4 DEF TLSVersions
<1> QED
  BY <1>1 DEF Newest

\* Two versions of the same age are the same.
LEMMA AgeIsInjective ==
  ASSUME NEW v \in TLSVersions, NEW w \in TLSVersions, Age[v] = Age[w] PROVE v = w
  BY Ages DEF TLSVersions

\* The version the downgrade probe pins is below one the scan has seen.
LEMMA FallbackIsBelow ==
  ASSUME NEW P \in SUBSET Versions, fallbackProbeVersion(P) # NoFallback
  PROVE  /\ fallbackProbeVersion(P) \in TLSVersions
         /\ \E w \in P \cap TLSVersions : Age[w] > Age[fallbackProbeVersion(P)]
<1> DEFINE sub13 == P \cap {"TLS10", "TLS11", "TLS12"}
           below == sub13 \ {Newest(sub13)}
<1>1. sub13 \in SUBSET TLSVersions /\ sub13 # {}
  BY DEF fallbackProbeVersion, TLSVersions
<1>2. Newest(sub13) \in sub13 /\ \A w \in sub13 : Age[w] <= Age[Newest(sub13)]
  BY <1>1, NewestIsNewest
<1>3. CASE "TLS13" \in P
  <2>1. fallbackProbeVersion(P) = Newest(sub13)
    BY <1>1, <1>3 DEF fallbackProbeVersion
  <2>2. Age[Newest(sub13)] < Age["TLS13"]
    BY <1>2, Ages
  <2> QED
    BY <1>1, <1>2, <1>3, <2>1, <2>2 DEF TLSVersions
<1>4. CASE "TLS13" \notin P
  <2>1. below # {} /\ fallbackProbeVersion(P) = Newest(below)
    BY <1>1, <1>4 DEF fallbackProbeVersion
  <2>2. Newest(below) \in below
    BY <1>1, <2>1, NewestIsNewest
  <2>3. Newest(below) # Newest(sub13) /\ Newest(below) \in sub13
    BY <2>2
  <2>4. Age[Newest(below)] < Age[Newest(sub13)]
    BY <1>1, <1>2, <2>3, Ages, AgeIsInjective
  <2> QED
    BY <1>1, <1>2, <2>1, <2>3, <2>4
<1> QED
  BY <1>3, <1>4

\* While the downgrade probe has still to conclude it has a version to pin.
FallbackPending ==
  pc = "vulnerabilities" /\ "TLSFallbackSCSV" \in pending =>
    fallbackProbeVersion(protocols) # NoFallback

FallbackInv == FallbackPending /\ FallbackClaimIsSound

\* Every step keeps the downgrade claim sound.
LEMMA FallbackStep ==
  TypeInv /\ EvidenceIsGenuine /\ FallbackInv /\ [Next]_vars => FallbackInv'
<1> SUFFICES ASSUME TypeInv, EvidenceIsGenuine, FallbackInv, [Next]_vars
             PROVE  FallbackInv'
  OBVIOUS
\* The steps that neither claim nor enter the phase.
<1>1. ASSUME UNCHANGED <<pool, protocols, vulnerabilities>>,
             pc' = "vulnerabilities" => pc = "vulnerabilities" /\ pending' \subseteq pending
      PROVE  FallbackInv'
  BY <1>1 DEF FallbackInv, FallbackPending, FallbackClaimIsSound, Uniform
<1>2. CASE FinishFlaw
  <2> DEFINE fb == fallbackProbeVersion(protocols)
  <2>0. PICK shown \in MayShow(conn) : vulnerabilities' = vulnerabilities \cup shown
    BY <1>2 DEF FinishFlaw
  <2>1. /\ conn.backend \in pool /\ conn.probe \in FlawProbes
        /\ pc = "vulnerabilities" /\ conn.probe \in pending
    BY <1>2, ConnType, ProbePhase DEF FinishFlaw, Concludes, TypeInv, PhaseInv
  <2>2. /\ UNCHANGED <<pool, pc, protocols>> /\ pending' \subseteq pending
        /\ vulnerabilities' = vulnerabilities \cup shown
    BY <1>2, <2>0 DEF FinishFlaw, scenario
  <2>3. FallbackPending'
    BY <2>2 DEF FallbackInv, FallbackPending
  <2>4. ASSUME Uniform, "TLSFallbackSCSV" \in shown
        PROVE  ~conn.backend.scsv
    <3>1. conn.probe = "TLSFallbackSCSV" /\ AnswersFallback(conn.backend, fb)
      BY <2>1, <2>4, ShowsMeans
    <3>2. protocols \in SUBSET Versions
      BY DEF TypeInv, TypeOK
    <3>3. fb # NoFallback
      BY <2>1, <3>1 DEF FallbackInv, FallbackPending
    <3>4. PICK w \in protocols \cap TLSVersions : Age[w] > Age[fb]
      BY <3>2, <3>3, FallbackIsBelow
    <3>5. w \in conn.backend.versions \cap TLSVersions
      BY <2>1, <2>4, <3>4 DEF EvidenceIsGenuine, Uniform
    <3>6. Age[w] \in 0..3 /\ Age[fb] \in 0..3
      BY <3>2, <3>3, <3>4, FallbackIsBelow, Ages
    <3> QED
      BY <3>1, <3>4, <3>5, <3>6 DEF AnswersFallback
  <2>5. FallbackClaimIsSound'
    BY <2>1, <2>2, <2>4 DEF FallbackInv, FallbackClaimIsSound, Uniform
  <2> QED
    BY <2>3, <2>5 DEF FallbackInv
<1>3. CASE EndCiphers
  <2>1. UNCHANGED <<pool, protocols>> /\ pc = "ciphers"
    BY <1>3 DEF EndCiphers, Finished, scenario
  <2>2. FallbackPending'
    BY <1>3 DEF EndCiphers, Start, FallbackPending, ActiveProbes
  <2>3. "TLSFallbackSCSV" \in vulnerabilities' => "TLSFallbackSCSV" \in vulnerabilities
    BY <1>3, InferredMeans DEF EndCiphers
  <2> QED
    BY <2>1, <2>2, <2>3 DEF FallbackInv, FallbackClaimIsSound, Uniform
<1>4. CASE FinishVersion \/ FinishCertificate \/ FinishCipher
  <2>1. pc # "vulnerabilities" /\ pc' = pc
    BY <1>4, ProbePhase DEF FinishVersion, FinishCertificate, FinishCipher, Concludes
  <2>2. UNCHANGED <<pool, vulnerabilities>>
    BY <1>4 DEF FinishVersion, FinishCertificate, FinishCipher, scenario
  <2> QED
    BY <2>1, <2>2 DEF FallbackInv, FallbackPending, FallbackClaimIsSound, Uniform
<1>5. ASSUME NEW p \in Probes, Dial(p) PROVE FallbackInv'
  BY <1>1, <1>5 DEF Dial, scenario, evidence
<1>6. ASSUME NEW p \in Probes, pc \in Phases, p \in pending
      PROVE  pc = "vulnerabilities" => AfterMiss(p) \subseteq pending
  <2>1. "cert13" \notin FlawProbes
    BY DEF FlawProbes
  <2> QED
    BY <1>6, <2>1 DEF AfterMiss, TypeInv, PhaseInv, ProbesOf
<1>7. ASSUME NEW p \in Probes, DialFails(p) PROVE FallbackInv'
  BY <1>1, <1>6, <1>7 DEF DialFails, Turn, scenario, evidence
<1>8. CASE ConnLost
  <2>1. pc \in Phases /\ conn.probe \in pending /\ conn.probe \in Probes
    BY <1>8, ConnType DEF ConnLost, TypeInv, PhaseInv
  <2> QED
    BY <1>1, <1>6, <1>8, <2>1 DEF ConnLost, scenario, evidence
<1>9. CASE guardTarget \/ EndProtocols \/ EndCertificate \/ EndVulnerabilities \/ Rate
  BY <1>1, <1>9 DEF guardTarget, EndProtocols, EndCertificate, EndVulnerabilities, Rate,
                    Start, scenario, evidence
<1>10. CASE Expire \/ UNCHANGED vars
  BY <1>1, <1>10 DEF Expire, vars, scenario, evidence
<1>11. CASE NextExchange \/ Disturb
  BY <1>1, <1>11 DEF NextExchange, Disturb, scenario, evidence
<1> QED
  BY <1>2, <1>3, <1>4, <1>5, <1>7, <1>8, <1>9, <1>10, <1>11
  DEF Next, Step, Finish, Terminated

\* A uniform pool that honours the SCSV is never said to miss it, whichever of
\* the version probes were lost before the downgrade version was chosen.
THEOREM FallbackTheorem == Spec => []FallbackClaimIsSound
<1>1. Init => FallbackInv
  BY DEF Init, FallbackInv, FallbackPending, FallbackClaimIsSound
<1>2. FallbackInv => FallbackClaimIsSound
  BY DEF FallbackInv
<1> QED
  BY <1>1, <1>2, InitTypes, StepTypes, EvidenceInit, EvidenceStep, FallbackStep, PTL
  DEF Spec

----------------------------------------------------------------------------
(* The end of the context. *)

\* ExpiryFreezesEvidence: what the scan knew when its context was done, and its
\* last connection gone, is all it will ever report, inferences apart.
THEOREM ExpiryTheorem == Spec => ExpiryFreezesEvidence
<1>1. ASSUME [Next]_vars, expired, conn = NoConn
      PROVE  /\ conn' = NoConn
             /\ UNCHANGED <<protocols, certificate, http2, accepted>>
             /\ vulnerabilities' \in {vulnerabilities, Inferred(protocols, accepted)}
  <2>1. CASE EndCiphers
    BY <1>1, <2>1 DEF EndCiphers
  <2>2. ASSUME UNCHANGED <<conn, evidence>>
        PROVE  /\ conn' = NoConn
               /\ UNCHANGED <<protocols, certificate, http2, accepted>>
               /\ vulnerabilities' \in {vulnerabilities, Inferred(protocols, accepted)}
    BY <1>1, <2>2 DEF evidence
  <2>3. CASE guardTarget \/ EndProtocols \/ EndCertificate \/ EndVulnerabilities \/ Rate
    BY <2>2, <2>3 DEF guardTarget, EndProtocols, EndCertificate, EndVulnerabilities, Rate
  <2>4. CASE \E p \in Probes : Dial(p) \/ DialFails(p)
    BY <1>1, <2>2, <2>4 DEF Dial, DialFails
  <2>5. CASE NextExchange \/ Disturb \/ ConnLost \/ Finish
    BY <1>1, <2>5 DEF NextExchange, Disturb, ConnLost, Finish, FinishVersion, FinishCertificate, FinishCipher,
                      FinishFlaw, Concludes
  <2>6. CASE Expire \/ UNCHANGED vars
    BY <2>2, <2>6 DEF Expire, vars
  <2> QED
    BY <1>1, <2>1, <2>3, <2>4, <2>5, <2>6 DEF Next, Step, Terminated
<1>2. [Next]_vars =>
        [expired /\ conn = NoConn =>
           /\ conn' = NoConn
           /\ UNCHANGED <<protocols, certificate, http2, accepted>>
           /\ vulnerabilities' \in {vulnerabilities, Inferred(protocols, accepted)}]_vars
  BY <1>1
<1> QED
  BY <1>2, PTL DEF Spec, ExpiryFreezesEvidence

----------------------------------------------------------------------------
(* The report. *)

Evidence ==
  [protocols |-> protocols, certificate |-> certificate, accepted |-> accepted,
   vulnerabilities |-> vulnerabilities]

\* Errors speak of the certificate once its phase is over, and the report is the
\* rating of the evidence as it stands at the end.
ErrorsInv ==
  /\ pc \in {"guard", "protocols", "certificate", "refused"} => errors = {}
  /\ pc \in {"ciphers", "vulnerabilities", "rate", "done"} =>
       (errors # {}) = (certificate = NoCertificate)
ReportInv == ErrorsInv /\ (pc = "done" => report = rate(Evidence))

LEMMA ReportStep == TypeInv /\ ReportInv /\ [Next]_vars => ReportInv'
<1> SUFFICES ASSUME TypeInv, ReportInv, [Next]_vars PROVE ReportInv'
  OBVIOUS
<1>1. ASSUME pc # "done", pc' = pc, UNCHANGED <<errors, certificate>> PROVE ReportInv'
  BY <1>1 DEF ReportInv, ErrorsInv
<1>2. CASE Rate
  BY <1>2 DEF Rate, Start, ReportInv, ErrorsInv, Evidence, evidence
<1>3. CASE EndCertificate
  BY <1>3 DEF EndCertificate, Finished, Start, ReportInv, ErrorsInv, evidence
<1>4. CASE guardTarget \/ EndProtocols \/ EndCiphers \/ EndVulnerabilities
  BY <1>4 DEF guardTarget, EndProtocols, EndCiphers, EndVulnerabilities, Finished, Start,
              ReportInv, ErrorsInv, evidence
<1>5. CASE FinishCertificate
  <2>1. pc = "certificate"
    BY <1>5, ProbePhase DEF FinishCertificate, Concludes
  <2> QED
    BY <1>5, <2>1 DEF FinishCertificate, ReportInv, ErrorsInv
<1>6. CASE FinishVersion \/ FinishCipher \/ FinishFlaw
  <2>1. pc # "done"
    BY <1>6, ProbePhase DEF FinishVersion, FinishCipher, FinishFlaw, Concludes, Phases
  <2> QED
    BY <1>1, <1>6, <2>1 DEF FinishVersion, FinishCipher, FinishFlaw
<1>7. CASE ConnLost
  <2>1. pc # "done"
    BY <1>7, ProbePhase DEF ConnLost, Phases
  <2> QED
    BY <1>1, <1>7, <2>1 DEF ConnLost, evidence
<1>8. CASE \E p \in Probes : Dial(p) \/ DialFails(p)
  BY <1>1, <1>8 DEF Dial, DialFails, Turn, Phases, evidence
<1>9. CASE Expire
  BY <1>1, <1>9 DEF Expire, evidence
<1>10. CASE UNCHANGED vars
  BY <1>10 DEF vars, ReportInv, ErrorsInv, Evidence, evidence
<1>11. CASE NextExchange \/ Disturb
  <2>1. pc # "done"
    BY <1>11, ProbePhase DEF NextExchange, Disturb, Phases
  <2> QED
    BY <1>1, <1>11, <2>1 DEF NextExchange, Disturb, evidence
<1> QED
  BY <1>2, <1>3, <1>4, <1>5, <1>6, <1>7, <1>8, <1>9, <1>10, <1>11
  DEF Next, Step, Finish, Terminated

LEMMA ReportInvariant == Spec => [](TypeInv /\ ReportInv)
<1>1. Init => ReportInv
  BY DEF Init, ReportInv, ErrorsInv
<1> QED
  BY <1>1, InitTypes, StepTypes, ReportStep, PTL DEF Spec

\* A grade that is not A is not made one by the caps that are applied to it.
LEMMA ApplyNeverA ==
  ASSUME NEW caps, NEW cap \in CapNames, NEW grade \in Grades, Apply(caps, cap, grade) = "A"
  PROVE  grade = "A"
<1>1. \A c \in CapNames : CapGrade[c] # "A"
  BY DEF CapNames, CapGrade
<1> QED
  BY <1>1 DEF Apply, capAt

\* An A at the end was an A before the caps, and none of the caps that overwrite
\* the grade applied.
LEMMA CappedToA ==
  ASSUME NEW grade \in Grades, NEW caps, Capped(grade, caps) = "A"
  PROVE  /\ grade = "A"
         /\ {"certificateTrust", "criticalVulnerability", "ssl2Enabled"} \cap caps = {}
<1> DEFINE trust    == IF "certificateTrust" \in caps THEN "T" ELSE grade
           critical == IF "criticalVulnerability" \in caps THEN "F" ELSE trust
           ssl2     == IF "ssl2Enabled" \in caps THEN "F" ELSE critical
           ssl3     == Apply(caps, "ssl3Enabled", ssl2)
           fs       == Apply(caps, "noForwardSecrecy", ssl3)
           insecure == Apply(caps, "insecureCipher", fs)
<1>1. Apply(caps, "exportCipher", insecure) = "A"
  BY DEF Capped, insecure, fs, ssl3, ssl2
<1>2. ssl2 \in Grades
  BY GradeNames
<1>3. ssl2 = "A"
  <2> HIDE DEF ssl2
  <2>1. ssl3 \in Grades
    BY <1>2, ApplyType, GradeNames
  <2>2. ssl3 = "A" => ssl2 = "A"
    BY <1>2, ApplyNeverA, GradeNames
  <2> HIDE DEF ssl3
  <2>3. fs \in Grades
    BY <2>1, ApplyType, GradeNames
  <2>4. fs = "A" => ssl3 = "A"
    BY <2>1, ApplyNeverA, GradeNames
  <2> HIDE DEF fs
  <2>5. insecure \in Grades
    BY <2>3, ApplyType, GradeNames
  <2>6. insecure = "A" => fs = "A"
    BY <2>3, ApplyNeverA, GradeNames
  <2> HIDE DEF insecure
  <2>7. insecure = "A"
    BY <1>1, <2>5, ApplyNeverA, GradeNames
  <2> QED
    BY <2>2, <2>4, <2>6, <2>7
<1> QED
  BY <1>3

\* numericToGrade gives an A for 80 points and never an A+.
LEMMA NumericGrade ==
  ASSUME NEW n \in Int
  PROVE  /\ numericToGrade(n) \in Grades \ {"Aplus"}
         /\ numericToGrade(n) = "A" => n >= 80
  BY GradeNames DEF numericToGrade

\* Nor do the caps.
LEMMA CappedNeverAplus ==
  ASSUME NEW grade \in Grades \ {"Aplus"}, NEW caps
  PROVE  Capped(grade, caps) # "Aplus"
<1>1. \A c \in CapNames : CapGrade[c] # "Aplus"
  BY DEF CapNames, CapGrade
<1>2. \A cap \in CapNames : \A g : g # "Aplus" => Apply(caps, cap, g) # "Aplus"
  BY <1>1 DEF Apply, capAt
<1> QED
  BY <1>2, GradeNames DEF Capped

\* What a grade of A, and so of A+, presupposes.
LEMMA GradeOfA ==
  ASSUME NEW r, r.certificate \in Certificates, rate(r).grade \in {"A", "Aplus"}
  PROVE  /\ numericScore(r) >= 80
         /\ {"certificateTrust", "criticalVulnerability", "ssl2Enabled"} \cap Caps(r) = {}
         /\ rate(r).grade = "Aplus" => EarnsAPlus(r, "A")
<1> DEFINE base  == numericToGrade(numericScore(r))
           grade == Capped(base, Caps(r))
<1>1. numericScore(r) \in Int
  BY NumericType
<1>2. base \in Grades \ {"Aplus"} /\ (base = "A" => numericScore(r) >= 80)
  BY <1>1, NumericGrade
<1>3. rate(r).grade = IF EarnsAPlus(r, grade) THEN "Aplus" ELSE grade
  BY DEF rate
<1> HIDE DEF base
<1>4. grade # "Aplus"
  BY <1>2, CappedNeverAplus
<1>5. grade = "A"
  BY <1>3, <1>4 DEF EarnsAPlus
<1>6. base = "A" /\ {"certificateTrust", "criticalVulnerability", "ssl2Enabled"} \cap Caps(r) = {}
  BY <1>2, <1>5, CappedToA
<1> QED
  BY <1>2, <1>3, <1>5, <1>6

\* The caps that overwrite the grade, by what raises them.
LEMMA OverwritingCaps ==
  ASSUME NEW r
  PROVE  /\ TrustProblem(r.certificate) => "certificateTrust" \in Caps(r)
         /\ r.vulnerabilities \cap CriticalFlaws # {} => "criticalVulnerability" \in Caps(r)
         /\ "SSL2" \in r.protocols => "ssl2Enabled" \in Caps(r)
  BY GradeNames DEF Caps

\* NoCertificateIsReported: a scan that never saw a certificate says so and gets
\* no A; any other scan reports no error.
THEOREM NoCertificateTheorem == Spec => []NoCertificateIsReported
<1>1. TypeInv /\ ReportInv => NoCertificateIsReported
  <2> SUFFICES ASSUME TypeInv, ReportInv, pc = "done"
               PROVE  /\ (errors # {}) = (certificate = NoCertificate)
                      /\ certificate = NoCertificate =>
                           /\ "certificateTrust" \in report.caps
                           /\ report.grade \notin {"Aplus", "A"}
    BY DEF NoCertificateIsReported
  <2>1. report = rate(Evidence) /\ (errors # {}) = (certificate = NoCertificate)
    BY DEF ReportInv, ErrorsInv
  <2>2. Evidence.certificate = certificate /\ certificate \in Certificates
    BY DEF Evidence, TypeInv, TypeOK
  <2>3. report.caps = Caps(Evidence)
    BY <2>1 DEF rate
  <2>4. ASSUME certificate = NoCertificate PROVE "certificateTrust" \in Caps(Evidence)
    <3>1. TrustProblem(certificate)
      BY <2>4 DEF TrustProblem, NoCertificate
    <3> QED
      BY <2>2, <3>1, OverwritingCaps
  <2> QED
    BY <2>1, <2>2, <2>3, <2>4, GradeOfA
<1> QED
  BY <1>1, ReportInvariant, PTL

\* A strong suite of TLS 1.2 has forward secrecy.
LEMMA StrongIsForwardSecret ==
  \A s \in Suites : cipherCatalog[s].class = "strong" => cipherCatalog[s].forwardS
  BY DEF Suites, cipherCatalog, Suite

\* Every suite is of one of three classes.
LEMMA ThreeClasses ==
  \A s \in Suites : cipherCatalog[s].class \in {"strong", "weak", "insecure"}
  BY DEF Suites, cipherCatalog, Suite

\* Eighty points need a suite and no version of SSL.
LEMMA EightyPoints ==
  ASSUME NEW r, r.certificate \in Certificates, numericScore(r) >= 80
  PROVE  r.accepted # {} /\ r.protocols \cap {"SSL2", "SSL3"} = {}
<1>1. protocolScore(r.protocols) \in {0, 20, 70, 90, 100}
  BY DEF protocolScore
<1>2. cipherScore(r.accepted) \in {0, 20, 50, 80, 100}
  BY DEF cipherScore
<1>3. keyExchangeScore(r.certificate, ForwardSecrecy(r.accepted)) \in 0..100
  <2>1. keyScore(r.certificate) \in {0, 20, 40, 60, 90, 100}
    <3>1. r.certificate.keyBits \in Nat
      BY DEF Certificates
    <3> QED
      BY <3>1 DEF keyScore
  <2> QED
    BY <2>1 DEF keyExchangeScore
<1>4. protocolScore(r.protocols) # 20 /\ cipherScore(r.accepted) # 0
  BY <1>1, <1>2, <1>3 DEF numericScore
<1> QED
  BY <1>4 DEF protocolScore, cipherScore, OfClass

\* APlusIsEarned: an A+ had TLS 1.3, suites that are all strong, one of them
\* with forward secrecy, a trusted certificate with more than 30 days, no version
\* of SSL and no critical flaw.
THEOREM APlusTheorem == Spec => []APlusIsEarned
<1>1. TypeInv /\ ReportInv => APlusIsEarned
  <2> SUFFICES ASSUME TypeInv, ReportInv, pc = "done", report.grade = "Aplus"
               PROVE  /\ "TLS13" \in protocols /\ protocols \cap {"SSL2", "SSL3"} = {}
                      /\ accepted # {}
                      /\ \A s \in accepted : cipherCatalog[s].class = "strong"
                      /\ ForwardSecrecy(accepted)
                      /\ ~TrustProblem(certificate) /\ certificate.daysToExpiry > 30
                      /\ vulnerabilities \cap CriticalFlaws = {}
    BY DEF APlusIsEarned
  <2> DEFINE r == Evidence
  <2>1. /\ r.protocols = protocols /\ r.certificate = certificate
        /\ r.accepted = accepted /\ r.vulnerabilities = vulnerabilities
    BY DEF Evidence
  <2>2. /\ r.certificate \in Certificates /\ accepted \subseteq Suites
    BY <2>1, CatalogAssumption DEF TypeInv, TypeOK
  <2>3. rate(r).grade = "Aplus"
    BY DEF ReportInv
  <2> HIDE DEF r
  <2>4. /\ numericScore(r) >= 80 /\ EarnsAPlus(r, "A")
        /\ {"certificateTrust", "criticalVulnerability", "ssl2Enabled"} \cap Caps(r) = {}
    BY <2>2, <2>3, GradeOfA
  <2>5. accepted # {} /\ protocols \cap {"SSL2", "SSL3"} = {}
    BY <2>1, <2>2, <2>4, EightyPoints
  <2>6. ~TrustProblem(certificate) /\ vulnerabilities \cap CriticalFlaws = {}
    BY <2>1, <2>4, OverwritingCaps
  <2>7. /\ "TLS13" \in protocols /\ certificate.daysToExpiry > 30
        /\ OfClass(accepted, "weak") = {} /\ OfClass(accepted, "insecure") = {}
    BY <2>1, <2>4 DEF EarnsAPlus
  <2>8. \A s \in accepted : cipherCatalog[s].class = "strong"
    BY <2>2, <2>7, ThreeClasses DEF OfClass
  <2>9. ForwardSecrecy(accepted)
    BY <2>2, <2>5, <2>8, StrongIsForwardSecret DEF ForwardSecrecy
  <2> QED
    BY <2>5, <2>6, <2>7, <2>8, <2>9
<1> QED
  BY <1>1, ReportInvariant, PTL

----------------------------------------------------------------------------
(* Completeness.  While nothing disturbs a scan of a single backend, what   *)
(* its handshakes found is a function of the backend and of the probes the  *)
(* phase has still to run.                                                  *)

AfterProtocols   == pc \in {"certificate", "ciphers", "vulnerabilities", "rate", "done"}
AfterCertificate == pc \in {"ciphers", "vulnerabilities", "rate", "done"}
AfterCiphers     == pc \in {"vulnerabilities", "rate", "done"}

VersionsFound(b) ==
  /\ pc = "guard" => protocols = {}
  /\ pc = "protocols" => protocols = {v \in Versions \ pending : Supports(b, v)}
  /\ AfterProtocols => protocols = {v \in Versions : Supports(b, v)}

\* No version of TLS is negotiated with backend b.
Mute(b)             == \A v \in TLSVersions : ~Supports(b, v)
CertificateKnown(b) == (certificate = NoCertificate) = Mute(b)

CertificateFound(b) ==
  /\ pc \in {"guard", "protocols"} => certificate = NoCertificate
  /\ pc = "certificate" =>
       \/ pending = {"cert13"} /\ certificate = NoCertificate
       \/ pending = {"cert12"} /\ certificate = NoCertificate /\ Mute(b)
       \/ pending = {} /\ CertificateKnown(b)
  /\ AfterCertificate => CertificateKnown(b)

SuitesFound(b) ==
  /\ pc \in {"guard", "protocols", "certificate"} => accepted = {}
  /\ pc = "ciphers" => accepted = {s \in Catalog \ pending : Accepts(b, s)}
  /\ AfterCiphers => accepted = {s \in Catalog : Accepts(b, s)}

TwoVersions == Cardinality(protocols \cap TLSVersions) > 1

FlawsFound(b) ==
  pc = "vulnerabilities" \/ (pc \in {"rate", "done"} /\ opts.checkVulns) =>
    /\ "Poodle" \in vulnerabilities <=> "SSL3" \in protocols
    /\ "Drown" \in vulnerabilities <=> "SSL2" \in protocols
    /\ ~b.scsv /\ TwoVersions =>
         "TLSFallbackSCSV" \in vulnerabilities \/ "TLSFallbackSCSV" \in pending

CompleteInv ==
  Undisturbed =>
    \A b \in pool : pool = {b} => /\ VersionsFound(b) /\ CertificateFound(b)
                                  /\ SuitesFound(b) /\ FlawsFound(b)

\* A step that leaves a scan of one backend undisturbed is one of the scanner's
\* own, and no dial or connection fails in it.
Smooth ==
  \/ guardTarget \/ EndProtocols \/ EndCertificate \/ EndCiphers \/ EndVulnerabilities
  \/ Rate \/ Finish \/ (\E p \in Probes : Dial(p)) \/ UNCHANGED vars

LEMMA UndisturbedStep ==
  ASSUME TypeInv, NEW b, pool = {b}, [Next]_vars, Undisturbed'
  PROVE  /\ Undisturbed /\ Smooth /\ UNCHANGED <<pool, opts>>
         /\ conn # NoConn => conn.backend = b
<1>1. faults \in Nat
  BY FaultsAssumption DEF TypeInv, TypeOK
<1>2. ~\E p \in Probes : DialFails(p)
  BY <1>1 DEF DialFails, Undisturbed
<1>3. ~ConnLost /\ ~Disturb
  BY <1>1 DEF ConnLost, Disturb, Undisturbed
<1>4. ~Expire /\ ~NextExchange
  BY ConnType DEF Expire, NextExchange, Undisturbed, TypeInv
<1>5. Smooth
  BY <1>2, <1>3, <1>4 DEF Next, Step, Terminated, Smooth
<1>6. UNCHANGED <<pool, opts, expired, faults>>
  BY <1>5 DEF Smooth, guardTarget, EndProtocols, EndCertificate, EndCiphers,
              EndVulnerabilities, Rate, Finish, FinishVersion, FinishCertificate,
              FinishCipher, FinishFlaw, Dial, vars, scenario
<1>7. conn # NoConn => conn.backend = b
  BY ConnType DEF TypeInv
<1> QED
  BY <1>5, <1>6, <1>7 DEF Undisturbed

\* The phase of each kind of answer.
LEMMA FinishPhases ==
  ASSUME TypeInv
  PROVE  /\ FinishVersion => pc = "protocols" /\ conn.probe \in pending
         /\ FinishCertificate => pc = "certificate" /\ conn.probe \in pending
         /\ FinishCipher => pc = "ciphers" /\ conn.probe \in pending
         /\ FinishFlaw => pc = "vulnerabilities" /\ conn.probe \in pending
  BY ProbePhase DEF TypeInv, PhaseInv, FinishVersion, FinishCertificate, FinishCipher,
                    FinishFlaw, Concludes

LEMMA VersionsStep ==
  ASSUME TypeInv, Smooth, NEW b, VersionsFound(b), conn # NoConn => conn.backend = b
  PROVE  VersionsFound(b)'
<1>1. CASE FinishVersion
  <2>1. pc = "protocols" /\ pc' = pc /\ conn.probe \in pending /\ conn.backend = b
        /\ conn.probe \in Versions
    BY <1>1, FinishPhases DEF FinishVersion, Concludes
  <2>2. pending' = pending \ {conn.probe}
        /\ protocols' = IF Supports(b, conn.probe) THEN protocols \cup {conn.probe}
                        ELSE protocols
    BY <1>1, <2>1 DEF FinishVersion
  <2> QED
    BY <2>1, <2>2 DEF VersionsFound, AfterProtocols
<1>2. CASE guardTarget
  <2>1. pc = "guard" /\ protocols' = protocols
        /\ \/ pc' = "protocols" /\ pending' = Versions
           \/ pc' = "refused"
    BY <1>2 DEF guardTarget, Start, evidence
  <2> QED
    BY <2>1 DEF VersionsFound, AfterProtocols
<1>3. CASE EndProtocols
  <2>1. pc = "protocols" /\ pending = {} /\ protocols' = protocols /\ pc' = "certificate"
    BY <1>3 DEF EndProtocols, Finished, Start, evidence
  <2> QED
    BY <2>1 DEF VersionsFound, AfterProtocols
<1>4. CASE EndCertificate \/ EndCiphers \/ EndVulnerabilities \/ Rate
  BY <1>4 DEF EndCertificate, EndCiphers, EndVulnerabilities, Rate, Finished, Start, evidence,
              VersionsFound, AfterProtocols
<1>5. CASE FinishCertificate \/ FinishCipher \/ FinishFlaw
  BY <1>5, FinishPhases DEF FinishCertificate, FinishCipher, FinishFlaw, VersionsFound,
                            AfterProtocols
<1>6. CASE (\E p \in Probes : Dial(p)) \/ UNCHANGED vars
  BY <1>6 DEF Dial, vars, evidence, VersionsFound, AfterProtocols
<1> QED
  BY <1>1, <1>2, <1>3, <1>4, <1>5, <1>6 DEF Smooth, Finish

LEMMA CertificateStep ==
  ASSUME TypeInv, Smooth, NEW b \in Backends, CertificateFound(b),
         conn # NoConn => conn.backend = b
  PROVE  CertificateFound(b)'
<1>1. CASE FinishCertificate
  <2>1. pc = "certificate" /\ pc' = pc /\ conn.probe \in pending /\ conn.backend = b
        /\ conn.probe \in CertificateProbes
    BY <1>1, FinishPhases DEF FinishCertificate, Concludes
  <2>2. /\ pending = {"cert13"} /\ conn.probe = "cert13"
             /\ certificate = NoCertificate
        \/ /\ pending = {"cert12"} /\ conn.probe = "cert12"
           /\ certificate = NoCertificate /\ Mute(b)
    BY <2>1 DEF CertificateFound
  <2>3. GivesChain(b, "cert13") <=> ~Mute(b)
    BY DEF GivesChain, Mute, Supports
  <2>4. Mute(b) => ~GivesChain(b, "cert12")
    BY DEF GivesChain, Mute, Supports
  <2>5. analyseCertificate(b.leaf) # NoCertificate
    BY CertificateType DEF Backends
  <2>6. CASE GivesChain(b, conn.probe)
    <3>1. pending' = {} /\ certificate' = analyseCertificate(b.leaf)
      BY <1>1, <2>1, <2>6 DEF FinishCertificate
    <3>2. ~Mute(b)
      BY <2>2, <2>3, <2>4, <2>6
    <3> QED
      BY <2>1, <2>5, <3>1, <3>2 DEF CertificateFound, CertificateKnown, AfterCertificate, Mute
  <2>7. CASE ~GivesChain(b, conn.probe)
    <3>1. pending' = AfterMiss(conn.probe) /\ certificate' = NoCertificate
      BY <1>1, <2>1, <2>2, <2>7 DEF FinishCertificate
    <3>2. Mute(b)
      BY <2>2, <2>3, <2>7
    <3>3. pending' = IF conn.probe = "cert13" THEN {"cert12"} ELSE {}
      BY <2>2, <3>1 DEF AfterMiss
    <3> QED
      BY <2>1, <3>1, <3>2, <3>3 DEF CertificateFound, CertificateKnown, AfterCertificate
  <2> QED
    BY <2>6, <2>7
<1>2. CASE guardTarget \/ EndProtocols
  BY <1>2 DEF guardTarget, EndProtocols, Finished, Start, evidence, CertificateFound,
              AfterCertificate
<1>3. CASE EndCertificate
  BY <1>3 DEF EndCertificate, Finished, Start, evidence, CertificateFound, CertificateKnown,
              AfterCertificate
<1>4. CASE EndCiphers \/ EndVulnerabilities \/ Rate
  BY <1>4 DEF EndCiphers, EndVulnerabilities, Rate, Finished, Start, evidence,
              CertificateFound, CertificateKnown, AfterCertificate
<1>5. CASE FinishVersion \/ FinishCipher \/ FinishFlaw
  BY <1>5, FinishPhases DEF FinishVersion, FinishCipher, FinishFlaw, CertificateFound,
                            CertificateKnown, AfterCertificate
<1>6. CASE (\E p \in Probes : Dial(p)) \/ UNCHANGED vars
  BY <1>6 DEF Dial, vars, evidence, CertificateFound, CertificateKnown, AfterCertificate
<1> QED
  BY <1>1, <1>2, <1>3, <1>4, <1>5, <1>6 DEF Smooth, Finish

LEMMA SuitesStep ==
  ASSUME TypeInv, Smooth, NEW b, SuitesFound(b), conn # NoConn => conn.backend = b
  PROVE  SuitesFound(b)'
<1>1. CASE FinishCipher
  <2>1. pc = "ciphers" /\ pc' = pc /\ conn.probe \in pending /\ conn.backend = b
        /\ conn.probe \in Catalog
    BY <1>1, FinishPhases, ProbePhase DEF FinishCipher, Concludes, ProbesOf
  <2>2. pending' = pending \ {conn.probe}
        /\ accepted' = IF Accepts(b, conn.probe) THEN accepted \cup {conn.probe} ELSE accepted
    BY <1>1, <2>1 DEF FinishCipher
  <2> QED
    BY <2>1, <2>2 DEF SuitesFound, AfterCiphers
<1>2. CASE guardTarget \/ EndProtocols
  BY <1>2 DEF guardTarget, EndProtocols, Finished, Start, evidence, SuitesFound, AfterCiphers
<1>3. CASE EndCertificate
  <2>1. pc = "certificate" /\ accepted' = accepted /\ pc' = "ciphers" /\ pending' = Catalog
    BY <1>3 DEF EndCertificate, Finished, Start, evidence
  <2> QED
    BY <2>1 DEF SuitesFound, AfterCiphers
<1>4. CASE EndCiphers
  <2>1. pc = "ciphers" /\ pending = {} /\ accepted' = accepted
        /\ pc' \in {"vulnerabilities", "rate"}
    BY <1>4 DEF EndCiphers, Finished, Start
  <2> QED
    BY <2>1 DEF SuitesFound, AfterCiphers
<1>5. CASE EndVulnerabilities \/ Rate
  BY <1>5 DEF EndVulnerabilities, Rate, Finished, Start, evidence, SuitesFound, AfterCiphers
<1>6. CASE FinishVersion \/ FinishCertificate \/ FinishFlaw
  BY <1>6, FinishPhases DEF FinishVersion, FinishCertificate, FinishFlaw, SuitesFound,
                            AfterCiphers
<1>7. CASE (\E p \in Probes : Dial(p)) \/ UNCHANGED vars
  BY <1>7 DEF Dial, vars, evidence, SuitesFound, AfterCiphers
<1> QED
  BY <1>1, <1>2, <1>3, <1>4, <1>5, <1>6, <1>7 DEF Smooth, Finish

\* Of two TLS versions one can be pinned below the other.
LEMMA TwoVersionsHaveAFallback ==
  ASSUME NEW P \in SUBSET Versions, Cardinality(P \cap TLSVersions) > 1
  PROVE  fallbackProbeVersion(P) # NoFallback
<1> DEFINE sub13 == P \cap {"TLS10", "TLS11", "TLS12"}
           below == sub13 \ {Newest(sub13)}
<1>1. \A x : ~(P \cap TLSVersions \subseteq {x})
  <2> SUFFICES ASSUME NEW x, P \cap TLSVersions \subseteq {x} PROVE FALSE
    OBVIOUS
  <2>1. IsFiniteSet({x}) /\ Cardinality({x}) = 1
    BY FS_Singleton
  <2>2. Cardinality(P \cap TLSVersions) <= Cardinality({x}) /\ IsFiniteSet(P \cap TLSVersions)
    BY <2>1, FS_Subset
  <2>3. Cardinality(P \cap TLSVersions) \in Nat
    BY <2>2, FS_CardinalityType
  <2> QED
    BY <2>1, <2>2, <2>3
<1>2. sub13 # {}
  <2>1. sub13 = {} => P \cap TLSVersions \subseteq {"TLS13"}
    BY DEF TLSVersions
  <2> QED
    BY <1>1, <2>1
<1>3. "TLS13" \notin P => below # {}
  <2>1. "TLS13" \notin P => P \cap TLSVersions = sub13
    BY DEF TLSVersions
  <2> QED
    BY <1>1, <2>1
<1>4. \A S \in SUBSET TLSVersions : S # {} => Newest(S) # NoFallback
  BY NewestIsNewest DEF NoFallback, TLSVersions
<1>5. sub13 \in SUBSET TLSVersions /\ below \in SUBSET TLSVersions
  BY DEF TLSVersions
<1> QED
  BY <1>2, <1>3, <1>4, <1>5 DEF fallbackProbeVersion

LEMMA FlawsStep ==
  ASSUME TypeInv, Smooth, NEW b \in Backends, VersionsFound(b), FlawsFound(b), FallbackPending,
         UNCHANGED opts, conn # NoConn => conn.backend = b
  PROVE  FlawsFound(b)'
<1>1. CASE FinishFlaw
  <2>1. /\ pc = "vulnerabilities" /\ pc' = pc /\ conn.probe \in pending /\ conn.backend = b
        /\ conn.probe \in FlawProbes
        /\ pending' = pending \ {conn.probe} /\ UNCHANGED protocols
    BY <1>1, FinishPhases DEF FinishFlaw, Concludes
  <2>2. PICK shown \in MayShow(conn) : vulnerabilities' = vulnerabilities \cup shown
    BY <1>1 DEF FinishFlaw
  <2>3. "Poodle" \notin shown /\ "Drown" \notin shown
    BY <2>1, ShowsMeans DEF Inferable
  <2>4. ASSUME ~b.scsv, conn.probe = "TLSFallbackSCSV" PROVE "TLSFallbackSCSV" \in shown
    <3>1. protocols \in SUBSET Versions /\ fallbackProbeVersion(protocols) # NoFallback
      BY <2>1, <2>4 DEF FallbackPending, TypeInv, TypeOK
    <3>2. fallbackProbeVersion(protocols) \in protocols
      <4> DEFINE sub13 == protocols \cap {"TLS10", "TLS11", "TLS12"}
                 below == sub13 \ {Newest(sub13)}
      <4>1. sub13 \in SUBSET TLSVersions /\ below \in SUBSET TLSVersions /\ sub13 # {}
        BY <3>1 DEF TLSVersions, fallbackProbeVersion
      <4>2. Newest(sub13) \in protocols
        BY <4>1, NewestIsNewest
      <4>3. below # {} => Newest(below) \in protocols
        BY <4>1, NewestIsNewest
      <4> QED
        BY <3>1, <4>1, <4>2, <4>3 DEF fallbackProbeVersion
    <3>3. fallbackProbeVersion(protocols) \in b.versions
      BY <2>1, <3>2, SupportsMeans DEF VersionsFound, AfterProtocols
    <3>4. AnswersFallback(conn.backend, fallbackProbeVersion(protocols))
      BY <2>1, <2>4, <3>3 DEF AnswersFallback
    <3> QED
      BY <2>1, <2>4, <3>4, ShowsMeans
  <2>6. ~b.scsv /\ TwoVersions' =>
          "TLSFallbackSCSV" \in vulnerabilities' \/ "TLSFallbackSCSV" \in pending'
    BY <2>1, <2>2, <2>4 DEF FlawsFound, TwoVersions
  <2> QED
    BY <2>1, <2>2, <2>3, <2>6 DEF FlawsFound
<1>2. CASE EndCiphers
  <2>1. UNCHANGED protocols /\ protocols \in SUBSET Versions
    BY <1>2 DEF EndCiphers, TypeInv, TypeOK
  <2>2. CASE opts.checkVulns
    <3>1. /\ vulnerabilities' = Inferred(protocols, accepted)
          /\ pending' = ActiveProbes(protocols)
      BY <1>2, <2>2 DEF EndCiphers, Start
    <3>3. /\ "Poodle" \in vulnerabilities' <=> "SSL3" \in protocols
          /\ "Drown" \in vulnerabilities' <=> "SSL2" \in protocols
      BY <3>1 DEF Inferred, Inferable
    <3>4. TwoVersions => "TLSFallbackSCSV" \in pending'
      BY <2>1, <3>1, TwoVersionsHaveAFallback DEF TwoVersions, ActiveProbes, FlawProbes
    <3> QED
      BY <2>1, <3>3, <3>4 DEF FlawsFound, TwoVersions
  <2>3. CASE ~opts.checkVulns
    BY <1>2, <2>3 DEF EndCiphers, Start, FlawsFound
  <2> QED
    BY <2>2, <2>3
<1>3. CASE EndVulnerabilities
  BY <1>3 DEF EndVulnerabilities, Finished, Start, evidence, FlawsFound, TwoVersions
<1>4. CASE Rate
  <2>1. pending = {} /\ pending' = {}
    BY <1>4 DEF Rate, Start, TypeInv, PhaseInv, Phases
  <2> QED
    BY <1>4, <2>1 DEF Rate, Start, evidence, FlawsFound, TwoVersions
<1>5. CASE guardTarget \/ EndProtocols \/ EndCertificate
  BY <1>5 DEF guardTarget, EndProtocols, EndCertificate, Finished, Start, FlawsFound
<1>6. CASE FinishVersion \/ FinishCertificate \/ FinishCipher
  BY <1>6, FinishPhases DEF FinishVersion, FinishCertificate, FinishCipher, FlawsFound
<1>7. CASE (\E p \in Probes : Dial(p)) \/ UNCHANGED vars
  BY <1>7 DEF Dial, vars, evidence, FlawsFound, TwoVersions
<1> QED
  BY <1>1, <1>2, <1>3, <1>4, <1>5, <1>6, <1>7 DEF Smooth, Finish

LEMMA CompleteStep ==
  TypeInv /\ FallbackInv /\ CompleteInv /\ [Next]_vars => CompleteInv'
<1> SUFFICES ASSUME TypeInv, FallbackInv, CompleteInv, [Next]_vars, Undisturbed',
                    NEW b \in pool', pool' = {b}
             PROVE  /\ VersionsFound(b)' /\ CertificateFound(b)'
                    /\ SuitesFound(b)' /\ FlawsFound(b)'
  BY DEF CompleteInv
<1>1. pool' = pool
  BY DEF Next, Step, Finish, guardTarget, EndProtocols, EndCertificate, EndCiphers,
         EndVulnerabilities, Rate, Dial, DialFails, NextExchange, Disturb, ConnLost,
         FinishVersion, FinishCertificate, FinishCipher, FinishFlaw, Expire, Terminated, vars,
         scenario
<1>2. pool = {b} /\ b \in Backends
  BY <1>1, PoolsAssumption DEF TypeInv, TypeOK
<1>3. Undisturbed /\ Smooth /\ opts' = opts /\ (conn # NoConn => conn.backend = b)
  BY <1>2, UndisturbedStep
<1>4. VersionsFound(b) /\ CertificateFound(b) /\ SuitesFound(b) /\ FlawsFound(b)
  BY <1>2, <1>3 DEF CompleteInv
<1> QED
  BY <1>2, <1>3, <1>4, VersionsStep, CertificateStep, SuitesStep, FlawsStep DEF FallbackInv

\* CompleteWhenUndisturbed: a scan of one backend that loses no connection and
\* does not expire reports every version and suite there is to find, whether there
\* is a certificate, the flaws inferred from the versions and the missing SCSV, in
\* whatever order the suites were tried.
THEOREM CompletenessTheorem == Spec => []CompleteWhenUndisturbed
<1>1. Init => CompleteInv /\ FallbackInv
  BY DEF Init, CompleteInv, VersionsFound, CertificateFound, SuitesFound, FlawsFound,
         AfterProtocols, AfterCertificate, AfterCiphers, FallbackInv, FallbackPending,
         FallbackClaimIsSound
<1>2. TypeInv /\ CompleteInv => CompleteWhenUndisturbed
  <2> SUFFICES ASSUME TypeInv, CompleteInv, pc = "done", Undisturbed, NEW b \in pool, pool = {b}
               PROVE  /\ protocols = {v \in Versions : Supports(b, v)}
                      /\ accepted = {s \in Catalog : Accepts(b, s)}
                      /\ (certificate = NoCertificate) = (\A v \in TLSVersions : ~Supports(b, v))
                      /\ opts.checkVulns =>
                           /\ "Poodle" \in vulnerabilities <=> "SSL3" \in b.versions
                           /\ "Drown" \in vulnerabilities <=> "SSL2" \in b.versions
                           /\ ~b.scsv /\ Cardinality(protocols \cap TLSVersions) > 1 =>
                                "TLSFallbackSCSV" \in vulnerabilities
    BY DEF CompleteWhenUndisturbed
  <2>1. VersionsFound(b) /\ CertificateFound(b) /\ SuitesFound(b) /\ FlawsFound(b)
    BY DEF CompleteInv
  <2>2. pending = {}
    BY DEF TypeInv, PhaseInv, Phases
  <2>3. protocols = {v \in Versions : Supports(b, v)}
    BY <2>1 DEF VersionsFound, AfterProtocols
  <2>4. /\ "SSL3" \in protocols <=> "SSL3" \in b.versions
        /\ "SSL2" \in protocols <=> "SSL2" \in b.versions
    BY <2>3 DEF Supports, Versions, TLSVersions
  <2>5. (certificate = NoCertificate) = (\A v \in TLSVersions : ~Supports(b, v))
    BY <2>1 DEF CertificateFound, CertificateKnown, AfterCertificate, Mute
  <2>6. accepted = {s \in Catalog : Accepts(b, s)}
    BY <2>1 DEF SuitesFound, AfterCiphers
  <2>7. ASSUME opts.checkVulns
        PROVE  /\ "Poodle" \in vulnerabilities <=> "SSL3" \in protocols
               /\ "Drown" \in vulnerabilities <=> "SSL2" \in protocols
               /\ ~b.scsv /\ TwoVersions => "TLSFallbackSCSV" \in vulnerabilities
    BY <2>1, <2>2, <2>7 DEF FlawsFound
  <2> QED
    BY <2>3, <2>4, <2>5, <2>6, <2>7 DEF TwoVersions
<1> QED
  BY <1>1, <1>2, InitTypes, StepTypes, EvidenceInit, EvidenceStep, FallbackStep, CompleteStep,
     PTL DEF Spec
=============================================================================
