------------------------------- MODULE MCScan -------------------------------
(***************************************************************************)
(* Servers and pools for the model-checking runs of Scan.                  *)
(***************************************************************************)
EXTENDS Scan

Leaf(alg, bits, hours) ==
  [keyAlg |-> alg, bits |-> bits, sha1 |-> FALSE, started |-> TRUE,
   hoursLeft |-> hours, issuerIsSubject |-> FALSE, namesHost |-> TRUE]

GoodLeaf    == Leaf("RSA", 2048, 2000)
ECDSALeaf   == Leaf("ECDSA", 256, 2000)
ExpiredLeaf == Leaf("RSA", 2048, -30)
SelfSigned  == [GoodLeaf EXCEPT !.issuerIsSubject = TRUE]
SoonLeaf    == Leaf("ECDSA", 256, 743)   \* 30 days and 23 hours

Server(versions, suites, leaf) ==
  [versions |-> versions, suites |-> suites, leaf |-> leaf, h2 |-> TRUE,
   scsv |-> TRUE, flaws |-> {}, beyond |-> {}]

GCM     == "ECDHE_RSA_AES_128_GCM"
CBC     == "ECDHE_RSA_AES_128_CBC_SHA"
RSACBC  == "RSA_AES_128_CBC_SHA"
DES3    == "RSA_3DES_EDE_CBC_SHA"

Modern    == Server({"TLS12", "TLS13"}, {GCM}, GoodLeaf)
Expiring  == Server({"TLS12", "TLS13"}, {GCM}, SoonLeaf)
TLS12Only == Server({"TLS12"}, {GCM}, ECDSALeaf)
RSAOnly   == Server({"TLS12"}, {RSACBC}, GoodLeaf)
Ancient   == Server({"SSL2", "SSL3"}, {}, GoodLeaf)
Lapsed    == [Server({"TLS12", "TLS13"}, {GCM}, ExpiredLeaf)
                EXCEPT !.beyond = {"Heartbleed", "InsecureRenegotiation", "CBC"}]
Beastly   == [Server({"TLS10", "TLS11", "TLS12"}, {GCM, CBC}, SelfSigned)
                EXCEPT !.h2 = FALSE]
NoSCSV    == [Server({"TLS11", "TLS12", "TLS13"}, {GCM, CBC}, GoodLeaf)
                EXCEPT !.scsv = FALSE, !.flaws = {"Robot", "ZombiePoodle"}]
Legacy    == [Server({"SSL3", "TLS10", "TLS12"}, {GCM, CBC, DES3}, GoodLeaf)
                EXCEPT !.scsv = FALSE,
                       !.flaws = {"Heartbleed", "Freak", "InsecureRenegotiation"}]

SmallCatalog == {"TLS_AES_128_GCM_SHA256", GCM, CBC, DES3}

SoundPools == {{}, {Modern}, {Expiring}, {RSAOnly}, {Ancient}, {Lapsed},
               {Beastly}, {NoSCSV}, {Legacy}, {Modern, TLS12Only}}

WeakPools     == {{Beastly}, {Legacy}}
=============================================================================
