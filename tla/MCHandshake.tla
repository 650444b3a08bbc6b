---------------------------- MODULE MCHandshake ----------------------------
(***************************************************************************)
(* Servers for the model-checking run of Handshake.                        *)
(***************************************************************************)
EXTENDS Handshake

\* The flight of cells in records that end at the given cells.
Framed(cells, cuts) ==
  LET IsEnd(i) == i \in cuts \/ i = Len(cells)
      ends     == SelectSeq([i \in DOMAIN cells |-> i], IsEnd)
  IN [i \in DOMAIN ends |->
        [content |-> "handshake",
         cells   |-> SubSeq(cells, (IF i = 1 THEN 0 ELSE ends[i - 1]) + 1, ends[i])]]

Msg(type, len) == [type |-> type, len |-> len]

SH   == Msg("ServerHello", 3)
Cert == Msg("Certificate", 4)
SKE  == Msg("ServerKeyExchange", 3)
Stat == Msg("CertificateStatus", 2)
CReq == Msg("CertificateRequest", 2)
Done == Msg("ServerHelloDone", 2)

EcdheFlight == <<SH, Cert, SKE, Done>>
RsaFlight   == <<SH, Cert, Done>>

Server(suite, leaf, curve, flight, records, accept, refuse) ==
  [suite |-> suite, leaf |-> leaf, curve |-> curve, flight |-> flight,
   records |-> records, accept |-> accept, refuse |-> refuse]

\* One record, one message each, inside a header, inside a body and across
\* messages, and cell by cell.
Cuts == {{}, {3, 7, 10}, {1, 4}, {2, 5, 8}, 1..30}

Good(flight, suite, cuts, accept) ==
  Server(suite, "RSA", "known", flight, Framed(Flattened(flight), cuts), accept, "alert")

GoodServers ==
  {Good(EcdheFlight, "ecdhe", c, "finished") : c \in Cuts}
    \cup {Good(<<SH, Cert, Stat, Done>>, "rsa", c, "finished") : c \in Cuts}
    \cup {Good(RsaFlight, "rsa", {4}, a) : a \in DOMAIN Acceptances}
    \cup {Server("ecdhe", "other", "known", EcdheFlight,
                 Framed(Flattened(EcdheFlight), {5}), "ticket", "alert")}

\* Servers the clients turn down, or that turn down the client.
OddServers ==
  {Server(s, l, c, f, Framed(Flattened(f), {6}), "finished", "request") :
     s \in {"ecdhe", "rsa", "other"}, l \in {"RSA", "other"}, c \in {"known", "unknown"},
     f \in {EcdheFlight, RsaFlight, <<SH, SKE, Done>>, <<Cert, SH, Done>>,
            <<SH, Cert, Stat, SKE, Done>>}}

AskingServers ==
  {Server(s, "RSA", "known", f, Framed(Flattened(f), {8}), "finished", r) :
     s \in {"ecdhe", "rsa"}, r \in DOMAIN Refusals,
     f \in {<<SH, Cert, SKE, CReq, Done>>, <<SH, Cert, CReq, Done>>}}

\* Refusals before and within the flight, a record without content, a message
\* longer than the buffers, and more records than the robot client reads.
Before(n, rest) ==
  SubSeq(Framed(Flattened(RsaFlight), {3, 5}), 1, n) \o rest

Broken ==
  {Server("rsa", "RSA", "known", RsaFlight, Before(n, <<rest>>), "finished", "silence") :
     n \in 0..2, rest \in {Opaque("alert"), Opaque("ccs")}}
    \cup {Server("rsa", "RSA", "known", RsaFlight,
                 <<Opaque("handshake")>> \o Framed(Flattened(RsaFlight), {}),
                 "finished", "silence")}

Long(n) == <<SH, Cert, Msg("CertificateStatus", n), Done>>
LongServers ==
  {Good(Long(n), "rsa", c, "finished") : n \in {7, 9, 20, 40}, c \in {{6}, {6, 30}, 1..30}}

AllServers == GoodServers \cup OddServers \cup AskingServers \cup Broken \cup LongServers
=============================================================================
