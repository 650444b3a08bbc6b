------------------------------ MODULE Grading ------------------------------
(***************************************************************************)
(* The pure part of a scan: what pkg/tlsscan makes of the evidence its     *)
(* probes collected.  cipherCatalog (ciphers.go), analyseCertificate       *)
(* (scanner.go), the inferred vulnerabilities and the choice of the        *)
(* downgrade version (vulns.go), and the rating (rating.go).               *)
(*                                                                         *)
(* A list of the Go code whose order no reader of it depends on (accepted  *)
(* suites, grade caps) is a set; the Boolean fields of Protocols and of    *)
(* Vulnerabilities are the set of the names of the fields that are true.   *)
(***************************************************************************)
EXTENDS Integers, FiniteSets

----------------------------------------------------------------------------
(* Protocol versions, oldest first. *)

TLSVersions == {"TLS10", "TLS11", "TLS12", "TLS13"}
Versions    == {"SSL2", "SSL3"} \cup TLSVersions

Age == [v \in TLSVersions |->
          CASE v = "TLS10" -> 0 [] v = "TLS11" -> 1
            [] v = "TLS12" -> 2 [] v = "TLS13" -> 3]

----------------------------------------------------------------------------
(* The cipher catalogue. *)

Suite(class, forwardS, cbc) ==
  [class |-> class, forwardS |-> forwardS, cbc |-> cbc]

\* cbc says that the name of the entry contains "CBC", all that hasCBC reads.
cipherCatalog ==
  [TLS_AES_128_GCM_SHA256       |-> Suite("strong",   TRUE,  FALSE),
   TLS_AES_256_GCM_SHA384       |-> Suite("strong",   TRUE,  FALSE),
   TLS_CHACHA20_POLY1305_SHA256 |-> Suite("strong",   TRUE,  FALSE),
   ECDHE_RSA_AES_128_GCM        |-> Suite("strong",   TRUE,  FALSE),
   ECDHE_RSA_AES_256_GCM        |-> Suite("strong",   TRUE,  FALSE),
   ECDHE_ECDSA_AES_128_GCM      |-> Suite("strong",   TRUE,  FALSE),
   ECDHE_RSA_AES_128_CBC_SHA    |-> Suite("weak",     TRUE,  TRUE),
   RSA_AES_128_GCM              |-> Suite("weak",     FALSE, FALSE),
   RSA_AES_128_CBC_SHA          |-> Suite("weak",     FALSE, TRUE),
   RSA_3DES_EDE_CBC_SHA         |-> Suite("insecure", FALSE, TRUE),
   ECDHE_RSA_RC4_128_SHA        |-> Suite("insecure", TRUE,  FALSE)]

Suites      == DOMAIN cipherCatalog
TLS13Suites == {"TLS_AES_128_GCM_SHA256", "TLS_AES_256_GCM_SHA384",
                "TLS_CHACHA20_POLY1305_SHA256"}

OfClass(accepted, class) == {s \in accepted : cipherCatalog[s].class = class}
ForwardSecrecy(accepted) == \E s \in accepted : cipherCatalog[s].forwardS
hasCBC(accepted)         == \E s \in accepted : cipherCatalog[s].cbc
has3DES(accepted)        == "RSA_3DES_EDE_CBC_SHA" \in accepted

----------------------------------------------------------------------------
(* The certificate as a server presents it, and what the scan keeps of it. *)

LeafCertificates ==
  [keyAlg  : {"RSA", "ECDSA", "Ed25519"}, bits : Nat, sha1 : BOOLEAN,
   started : BOOLEAN, hoursLeft : Int,
   issuerIsSubject : BOOLEAN, namesHost : BOOLEAN]

Certificates ==
  [valid : BOOLEAN, selfSigned : BOOLEAN, distrusted : BOOLEAN,
   hostnameMatch : BOOLEAN, keyType : {"", "RSA", "ECDSA", "unknown"},
   keyBits : Nat, daysToExpiry : Int]

\* The zero value of the Certificate struct: no handshake gave a chain.
NoCertificate ==
  [valid |-> FALSE, selfSigned |-> FALSE, distrusted |-> FALSE,
   hostnameMatch |-> FALSE, keyType |-> "", keyBits |-> 0, daysToExpiry |-> 0]

\* int(hours / 24) truncates towards zero, for a certificate long expired too.
WholeDays(hours) == IF hours >= 0 THEN hours \div 24 ELSE -((-hours) \div 24)

analyseCertificate(leaf) ==
  LET known == leaf.keyAlg \in {"RSA", "ECDSA"}
  IN [valid         |-> leaf.started /\ leaf.hoursLeft > 0,
      selfSigned    |-> leaf.issuerIsSubject,
      distrusted    |-> leaf.sha1,
      hostnameMatch |-> leaf.namesHost,
      keyType       |-> IF known THEN leaf.keyAlg ELSE "unknown",
      keyBits       |-> IF known THEN leaf.bits ELSE 0,
      daysToExpiry  |-> WholeDays(leaf.hoursLeft)]

----------------------------------------------------------------------------
(* Vulnerabilities: those inferred from the evidence, and the version the  *)
(* fallback probe pins.                                                    *)

CBCFamily == {"GoldenDoodle", "ZombiePoodle", "SleepingPoodle",
              "ZeroLengthPaddingCVE"}
Inferable == {"Poodle", "Drown", "Beast", "Sweet32"}
Flaws     == {"Heartbleed", "Freak", "Logjam", "InsecureRenegotiation",
              "Robot"} \cup CBCFamily
Vulnerabilities == Inferable \cup Flaws \cup {"TLSFallbackSCSV"}

Inferred(protocols, accepted) ==
  {f \in Inferable :
     \/ f = "Poodle"  /\ "SSL3" \in protocols
     \/ f = "Drown"   /\ "SSL2" \in protocols
     \/ f = "Beast"   /\ "TLS10" \in protocols /\ hasCBC(accepted)
     \/ f = "Sweet32" /\ has3DES(accepted)}

NoFallback == "none"

Newest(versions) == CHOOSE v \in versions : \A w \in versions : Age[w] <= Age[v]

\* Mutant: pins the newest version below 1.3 even when nothing is above it.
fallbackOfNewest(protocols) ==
  LET sub13 == protocols \cap {"TLS10", "TLS11", "TLS12"}
  IN IF sub13 = {} THEN NoFallback ELSE Newest(sub13)

fallbackProbeVersion(protocols) ==
  LET sub13 == protocols \cap {"TLS10", "TLS11", "TLS12"}
      below == sub13 \ {Newest(sub13)}
  IN IF sub13 = {}                  THEN NoFallback
     ELSE IF "TLS13" \in protocols  THEN Newest(sub13)
     ELSE IF below = {}             THEN NoFallback
     ELSE Newest(below)

----------------------------------------------------------------------------
(* The rating. *)

gradeRank == [Aplus |-> 0, A |-> 1, B |-> 2, C |-> 3, D |-> 4, E |-> 5,
              F |-> 6, T |-> 7, R |-> 8]
Grades    == DOMAIN gradeRank

protocolScore(protocols) ==
  IF protocols \cap {"SSL2", "SSL3"} # {} THEN 20
  ELSE IF protocols \cap {"TLS10", "TLS11"} # {} THEN 70
  ELSE IF "TLS13" \in protocols THEN 100
  ELSE IF "TLS12" \in protocols THEN 90
  ELSE 0

keyScore(c) ==
  IF c.keyType = "RSA"
  THEN IF c.keyBits >= 4096 THEN 100 ELSE IF c.keyBits >= 2048 THEN 90
       ELSE IF c.keyBits >= 1024 THEN 40 ELSE 20
  ELSE IF c.keyType = "ECDSA" THEN (IF c.keyBits >= 256 THEN 100 ELSE 60)
  ELSE 0

keyExchangeScore(c, fs) ==
  LET score == keyScore(c) - (IF fs THEN 0 ELSE 20)
  IN IF score < 0 THEN 0 ELSE score

cipherScore(accepted) ==
  LET strong   == OfClass(accepted, "strong") # {}
      weak     == OfClass(accepted, "weak") # {}
      insecure == OfClass(accepted, "insecure") # {}
  IN IF insecure THEN 20
     ELSE IF weak THEN (IF strong THEN 80 ELSE 50)
     ELSE IF strong THEN 100
     ELSE 0

numericToGrade(n) ==
  IF n >= 80 THEN "A" ELSE IF n >= 65 THEN "B" ELSE IF n >= 50 THEN "C"
  ELSE IF n >= 35 THEN "D" ELSE IF n >= 20 THEN "E" ELSE "F"

capAt(current, ceiling) ==
  IF gradeRank[current] > gradeRank[ceiling] THEN ceiling ELSE current

CriticalFlaws == {"Heartbleed", "Robot", "Drown", "InsecureRenegotiation"} \cup CBCFamily
ExportFlaws   == {"Freak", "Logjam"}

\* Mutant: asks only what a certificate positively says.
TrustProblemStated(c) == c.selfSigned \/ c.distrusted

TrustProblem(c) == ~c.valid \/ c.selfSigned \/ c.distrusted \/ ~c.hostnameMatch

\* The conditions that append to GradeCaps, and the grade each one stands for.
CapGrade ==
  [certificateTrust      |-> "T", criticalVulnerability |-> "F",
   ssl2Enabled           |-> "F", ssl3Enabled           |-> "C",
   noForwardSecrecy      |-> "B", insecureCipher        |-> "C",
   exportCipher          |-> "C"]
CapNames == DOMAIN CapGrade

Caps(r) ==
  {c \in CapNames :
     \/ c = "certificateTrust"      /\ TrustProblem(r.certificate)
     \/ c = "criticalVulnerability" /\ r.vulnerabilities \cap CriticalFlaws # {}
     \/ c = "ssl2Enabled"           /\ "SSL2" \in r.protocols
     \/ c = "ssl3Enabled"           /\ "SSL3" \in r.protocols
                                    /\ "SSL2" \notin r.protocols
     \/ c = "noForwardSecrecy"      /\ ~ForwardSecrecy(r.accepted)
     \/ c = "insecureCipher"        /\ OfClass(r.accepted, "insecure") # {}
     \/ c = "exportCipher"          /\ r.vulnerabilities \cap ExportFlaws # {}}

\* The first three caps overwrite the grade; the others go through capAt, in
\* this order.
Apply(caps, cap, grade) == IF cap \in caps THEN capAt(grade, CapGrade[cap]) ELSE grade

Capped(grade, caps) ==
  LET trust    == IF "certificateTrust" \in caps THEN "T" ELSE grade
      critical == IF "criticalVulnerability" \in caps THEN "F" ELSE trust
      ssl2     == IF "ssl2Enabled" \in caps THEN "F" ELSE critical
      ssl3     == Apply(caps, "ssl3Enabled", ssl2)
      fs       == Apply(caps, "noForwardSecrecy", ssl3)
      insecure == Apply(caps, "insecureCipher", fs)
  IN Apply(caps, "exportCipher", insecure)

\* Mutant: looks for insecure suites only.
EarnsAPlusDespiteWeak(r, grade) ==
  /\ grade = "A" /\ "TLS13" \in r.protocols
  /\ OfClass(r.accepted, "insecure") = {} /\ r.certificate.daysToExpiry > 30

EarnsAPlus(r, grade) ==
  /\ grade = "A"
  /\ "TLS13" \in r.protocols
  /\ OfClass(r.accepted, "weak") = {} /\ OfClass(r.accepted, "insecure") = {}
  /\ r.certificate.daysToExpiry > 30

\* Mutant: forgets to divide by the sum of the weights.
numericScoreUndivided(r) ==
  protocolScore(r.protocols) * 30
    + keyExchangeScore(r.certificate, ForwardSecrecy(r.accepted)) * 30
    + cipherScore(r.accepted) * 40

numericScore(r) ==
  (protocolScore(r.protocols) * 30
     + keyExchangeScore(r.certificate, ForwardSecrecy(r.accepted)) * 30
     + cipherScore(r.accepted) * 40) \div 100

rate(r) ==
  LET grade == Capped(numericToGrade(numericScore(r)), Caps(r))
  IN [numeric |-> numericScore(r),
      grade   |-> IF EarnsAPlus(r, grade) THEN "Aplus" ELSE grade,
      caps    |-> Caps(r)]

Reports == [numeric : 0..100, grade : Grades, caps : SUBSET CapNames]
=============================================================================
