----------------------------- MODULE Handshake -----------------------------
(***************************************************************************)
(* The two clients that read a whole TLS 1.2 server flight, each over one  *)
(* connection: establishCBCSession with its hsReader and                   *)
(* expectServerFinished (internal/handshake/cbc.go), which goes through    *)
(* with the handshake, and robotServerRSAKey with readServerHelloAndCert   *)
(* (internal/handshake/robot.go), which wants the RSA key only.            *)
(*                                                                         *)
(* A handshake message is a sequence of cells, HeaderLen of them its       *)
(* header; a record carries any number of cells, of any messages.  Records *)
(* arrive one by one, and the connection may end between any two.  Time    *)
(* passes only while the client is blocked.  Keys and ciphers are left     *)
(* out: the server accepts a client whose transcript is its own.           *)
(***************************************************************************)
EXTENDS Integers, Sequences, FiniteSets, SequencesExt

CONSTANTS Servers,    \* the servers a client may meet
          Timeout,    \* the timeout of the client, in ticks
          MaxBuf      \* 1<<17, the buffer of the robot client; the other has twice that

HeaderLen       == 2  \* cells of the header of a message (4 bytes)
RobotRecords    == 16 \* records readServerHelloAndCert reads at most
FinishedRecords == 6  \* records expectServerFinished reads at most

Clients == {"cbc", "robot"}

Types ==
  {"ClientHello", "ServerHello", "Certificate", "CertificateStatus", "ServerKeyExchange",
   "CertificateRequest", "ServerHelloDone", "ClientKeyExchange"}

Messages == [type : Types, len : Nat]
Cells    == [type : Types, len : Nat, at : Nat]
Records  == [content : {"handshake", "ccs", "alert", "data"}, cells : Seq(Cells)]

MessageCells(m) == [i \in 1..m.len |-> [type |-> m.type, len |-> m.len, at |-> i]]
Opaque(content) == [content |-> content, cells |-> <<>>]

----------------------------------------------------------------------------
(* External: the server.  It sends its flight, cut into records anywhere,  *)
(* and reacts to the client's Finished.                                    *)

Flattened(flight) == FlattenSeq([i \in DOMAIN flight |-> MessageCells(flight[i])])
Carried(records)  == FlattenSeq([i \in DOMAIN records |-> records[i].cells])

\* What a server sends when it accepts: before its Finished a ticket, or
\* several; or application data behind the ChangeCipherSpec, in which the
\* Finished is coalesced.
Acceptances ==
  [finished |-> <<Opaque("ccs"), Opaque("handshake")>>,
   ticket   |-> <<Opaque("handshake"), Opaque("ccs"), Opaque("handshake")>>,
   tickets  |-> <<Opaque("handshake"), Opaque("handshake"), Opaque("handshake"),
                  Opaque("handshake"), Opaque("ccs"), Opaque("handshake")>>,
   data     |-> <<Opaque("ccs"), Opaque("data")>>]

\* And when it does not: it may ask for something before it gives up.
Refusals ==
  [alert   |-> <<Opaque("alert")>>,
   request |-> <<Opaque("handshake"), Opaque("alert")>>,
   silence |-> <<>>]

ServerType ==
  [suite : {"ecdhe", "rsa", "other"}, leaf : {"RSA", "other"}, curve : {"known", "unknown"},
   flight : Seq(Messages), records : Seq(Records),
   accept : DOMAIN Acceptances, refuse : DOMAIN Refusals]

Has(s, type)  == \E i \in DOMAIN s.flight : s.flight[i].type = type
Refuses(s)    == \E i \in DOMAIN s.records : s.records[i].content # "handshake"

\* A record boundary may be anywhere; a server that refuses breaks its flight
\* off, with an alert or some other record.
ASSUME ServersAssumption ==
  \A s \in Servers :
    /\ s \in ServerType
    /\ \A i \in DOMAIN s.flight :
         /\ s.flight[i].len >= HeaderLen
         /\ s.flight[i].type = "ServerHelloDone" => i = Len(s.flight)
    /\ IsPrefix(Carried(s.records), Flattened(s.flight))
    /\ Refuses(s) <=> Carried(s.records) # Flattened(s.flight)
ASSUME TimeoutAssumption == Timeout \in Nat \ {0}
ASSUME MaxBufAssumption  == MaxBuf \in Nat

Hello(type) == [type |-> type, len |-> HeaderLen]

\* The messages of a handshake as the server has them up to the client's
\* Finished.
ServerTranscript(s) ==
  <<Hello("ClientHello")>> \o s.flight \o <<Hello("ClientKeyExchange")>>

\* The Finished of a client verifies against the server's own transcript; a
\* server that asked for a certificate does not go on without the client's.
Accepts(s, t) == t = ServerTranscript(s) /\ ~Has(s, "CertificateRequest")

Reaction(s, t) == IF Accepts(s, t) THEN Acceptances[s.accept] ELSE Refusals[s.refuse]

----------------------------------------------------------------------------

VARIABLES client, server,   \* fixed
          now,              \* ticks since the client began
          writeBy, readBy,  \* deadlines of the connection
          pc,               \* "dial", "hello", the message awaited, "send",
                            \* "finished", "robot", "done"
          coming,           \* records on their way
          inbox,            \* records that arrived and are not read
          ended,            \* how the connection ended: "open", "EOF", "reset"
          buf,              \* cells read and not yet taken for a message
          transcript,       \* messages the cbc client has hashed
          count,            \* records read under a limit
          saw,              \* sawCCS of the one client, sawServerHello of the other
          rsaPub,           \* an RSA key was read from the Certificate
          result            \* "none", "session", "key", "partial": a key, but no end

fixed   == <<client, server>>
clock   == <<now, writeBy, readBy>>
network == <<coming, inbox, ended>>
reader  == <<buf, transcript, count, saw, rsaPub>>
vars    == <<fixed, clock, pc, network, reader, result>>

Init ==
  /\ client \in Clients /\ server \in Servers
  /\ now = 0 /\ writeBy = 0 /\ readBy = 0 /\ pc = "dial"
  /\ coming = <<>> /\ inbox = <<>> /\ ended = "open"
  /\ buf = <<>> /\ transcript = <<>> /\ count = 0 /\ saw = FALSE /\ rsaPub = FALSE
  /\ result = "none"

Return(r) == pc' = "done" /\ result' = r

Dial ==
  /\ pc = "dial" /\ pc' = "hello"
  /\ writeBy' = now + Timeout /\ readBy' = now + Timeout
  /\ UNCHANGED <<fixed, now, network, reader, result>>

DialFails ==
  /\ pc = "dial" /\ Return("none")
  /\ UNCHANGED <<fixed, clock, network, reader>>

WriteFails == now >= writeBy \/ ended = "reset"

SendHello ==
  /\ pc = "hello" /\ ~WriteFails
  /\ pc' = (IF client = "cbc" THEN "ServerHello" ELSE "robot")
  /\ transcript' = <<Hello("ClientHello")>>
  /\ coming' = (IF ended = "open" THEN server.records ELSE <<>>)
  /\ UNCHANGED <<fixed, clock, inbox, ended, buf, count, saw, rsaPub, result>>

SendFails ==
  /\ pc = "hello" /\ WriteFails /\ Return("none")
  /\ UNCHANGED <<fixed, clock, network, reader>>

----------------------------------------------------------------------------
(* Reassembly, by hsReader and by the loop of readServerHelloAndCert.      *)

\* Mutant: a message that ends with the buffer waits for more.
CompleteOffByOne == Len(buf) >= HeaderLen /\ Len(buf) > buf[1].len

\* The buffer begins with a whole message.
Complete == Len(buf) >= HeaderLen /\ Len(buf) >= buf[1].len

Message == [type |-> buf[1].type, len |-> buf[1].len]

Rest == SubSeq(buf, buf[1].len + 1, Len(buf))

IsHandshake(r) == r.content = "handshake" /\ r.cells # <<>>

\* What the client makes of the fields of a message: the suite is one of ours,
\* the curve one it knows, the leaf certificate's key an RSA key.
parseServerHelloSuite(s) == s.suite # "other"
ecdhCurve(s)             == s.curve = "known"
parseLeafRSAKey(s)       == s.leaf = "RSA"

Reassembling == {"ServerHello", "Certificate", "ServerKeyExchange", "SkipToDone"}

\* hsReader.next reads one more record.
NextRecord ==
  /\ pc \in Reassembling /\ ~Complete /\ inbox # <<>>
  /\ buf' = buf \o Head(inbox).cells /\ inbox' = Tail(inbox)
  /\ IF IsHandshake(Head(inbox)) /\ Len(buf') <= 2 * MaxBuf
     THEN UNCHANGED <<pc, result>> ELSE Return("none")
  /\ UNCHANGED <<fixed, clock, coming, ended, transcript, count, saw, rsaPub>>

----------------------------------------------------------------------------
(* establishCBCSession, message by message. *)

\* The next message is taken while the client waits for want, and hashed.
Take(want) ==
  /\ pc = want /\ Complete
  /\ buf' = Rest /\ transcript' = Append(transcript, Message)
  /\ UNCHANGED <<fixed, clock, network, count, saw>>

TakeServerHello ==
  /\ Take("ServerHello") /\ UNCHANGED rsaPub
  /\ IF Message.type = "ServerHello" /\ parseServerHelloSuite(server)
     THEN pc' = "Certificate" /\ UNCHANGED result ELSE Return("none")

TakeCertificate ==
  /\ Take("Certificate")
  /\ rsaPub' = parseLeafRSAKey(server)
  /\ IF Message.type = "Certificate" /\ (server.suite = "ecdhe" \/ rsaPub')
     THEN /\ pc' = (IF server.suite = "ecdhe" THEN "ServerKeyExchange" ELSE "SkipToDone")
          /\ UNCHANGED result
     ELSE Return("none")

TakeServerKeyExchange ==
  /\ Take("ServerKeyExchange") /\ UNCHANGED rsaPub
  /\ IF Message.type = "ServerKeyExchange" /\ ecdhCurve(server)
     THEN pc' = "SkipToDone" /\ UNCHANGED result ELSE Return("none")

\* Mutant: what is skipped is not hashed.
SkipUnhashed ==
  /\ pc = "SkipToDone" /\ Complete
  /\ buf' = Rest
  /\ IF Message.type = "ServerHelloDone"
     THEN pc' = "send" /\ transcript' = Append(transcript, Message)
     ELSE UNCHANGED <<pc, transcript>>
  /\ UNCHANGED <<fixed, clock, network, count, saw, rsaPub, result>>

\* Whatever comes before ServerHelloDone is tolerated.
SkipToDone ==
  /\ Take("SkipToDone")
  /\ pc' = (IF Message.type = "ServerHelloDone" THEN "send" ELSE pc)
  /\ UNCHANGED <<rsaPub, result>>

\* ClientKeyExchange, ChangeCipherSpec and Finished; then the deadline for
\* reads is set anew, the one for writes is not.
SendFinished ==
  /\ pc = "send" /\ ~WriteFails
  /\ transcript' = Append(transcript, Hello("ClientKeyExchange"))
  /\ coming' = coming \o (IF ended = "open" THEN Reaction(server, transcript') ELSE <<>>)
  /\ pc' = "finished" /\ readBy' = now + Timeout
  /\ UNCHANGED <<fixed, now, writeBy, inbox, ended, buf, count, saw, rsaPub, result>>

SendFinishedFails ==
  /\ pc = "send" /\ WriteFails /\ Return("none")
  /\ UNCHANGED <<fixed, clock, network, reader>>

\* Mutant: the ChangeCipherSpec is not waited for.
ProvesAnyway(content) == content \in {"handshake", "data"}

\* A record that only a server which accepted the Finished sends.
Proves(content) == saw /\ content \in {"handshake", "data"}

\* expectServerFinished: one turn of its loop.
ReadFinished ==
  /\ pc = "finished" /\ inbox # <<>>
  /\ LET content == Head(inbox).content
     IN /\ saw' = (saw \/ content = "ccs")
        /\ count' = count + 1 /\ inbox' = Tail(inbox)
        /\ IF Proves(content) THEN Return("session")
           ELSE IF content = "alert" \/ count' = FinishedRecords THEN Return("none")
           ELSE UNCHANGED <<pc, result>>
  /\ UNCHANGED <<fixed, clock, coming, ended, buf, transcript, rsaPub>>

----------------------------------------------------------------------------
(* readServerHelloAndCert. *)

KeySoFar == IF rsaPub THEN "partial" ELSE "none"

\* Mutant: no limit to the records.
MayReadOn == Len(buf) <= MaxBuf

\* Mutant: one record less.
MayReadFewer == count + 1 < RobotRecords /\ Len(buf) <= MaxBuf

MayRead == count < RobotRecords /\ Len(buf) <= MaxBuf

\* Mutant: every record renews the deadline.
RobotRecordRenewing ==
  /\ pc = "robot" /\ ~Complete /\ MayRead /\ inbox # <<>>
  /\ buf' = buf \o Head(inbox).cells /\ inbox' = Tail(inbox) /\ count' = count + 1
  /\ IF IsHandshake(Head(inbox)) THEN UNCHANGED <<pc, result>> ELSE Return("none")
  /\ readBy' = now + Timeout
  /\ UNCHANGED <<fixed, now, writeBy, coming, ended, transcript, saw, rsaPub>>

RobotRecord ==
  /\ pc = "robot" /\ ~Complete /\ MayRead /\ inbox # <<>>
  /\ buf' = buf \o Head(inbox).cells /\ inbox' = Tail(inbox) /\ count' = count + 1
  /\ IF IsHandshake(Head(inbox)) THEN UNCHANGED <<pc, result>> ELSE Return("none")
  /\ UNCHANGED <<fixed, clock, coming, ended, transcript, saw, rsaPub>>

\* The key is kept from the last Certificate that has one.
RobotMessage ==
  /\ pc = "robot" /\ Complete /\ buf' = Rest
  /\ saw' = (saw \/ Message.type = "ServerHello")
  /\ rsaPub' = (rsaPub \/ (Message.type = "Certificate" /\ parseLeafRSAKey(server)))
  /\ IF Message.type = "ServerHelloDone"
     THEN Return(IF saw /\ rsaPub THEN "key" ELSE KeySoFar)
     ELSE UNCHANGED <<pc, result>>
  /\ UNCHANGED <<fixed, clock, network, transcript, count>>

\* Too many records keep the key, too long a message does not.
RobotGivesUp ==
  /\ pc = "robot" /\ ~Complete /\ ~MayRead
  /\ Return(IF Len(buf) > MaxBuf THEN "none" ELSE KeySoFar)
  /\ UNCHANGED <<fixed, clock, network, reader>>

----------------------------------------------------------------------------
(* The network and the clock. *)

Reading ==
  \/ pc \in Reassembling /\ ~Complete
  \/ pc = "robot" /\ ~Complete /\ MayRead
  \/ pc = "finished"

\* A read fails at the end of what arrived, or when its deadline has passed,
\* which counts even when something did arrive.
ReadFails ==
  /\ Reading
  /\ now >= readBy \/ (inbox = <<>> /\ ended # "open")
  /\ Return(IF pc = "robot" THEN KeySoFar ELSE "none")
  /\ UNCHANGED <<fixed, clock, network, reader>>

Deliver ==
  /\ pc # "done" /\ ended = "open" /\ coming # <<>>
  /\ inbox' = Append(inbox, Head(coming)) /\ coming' = Tail(coming)
  /\ UNCHANGED <<fixed, clock, pc, ended, reader, result>>

\* The connection ends; a reset also discards what was not read.
End ==
  /\ pc \notin {"dial", "done"} /\ ended = "open"
  /\ ended' \in {"EOF", "reset"} /\ coming' = <<>>
  /\ inbox' = (IF ended' = "reset" THEN <<>> ELSE inbox)
  /\ UNCHANGED <<fixed, clock, pc, reader, result>>

Blocked ==
  \/ pc = "dial" /\ now < Timeout
  \/ Reading /\ inbox = <<>> /\ ended = "open" /\ now < readBy

Tick ==
  /\ Blocked /\ now' = now + 1
  /\ UNCHANGED <<fixed, writeBy, readBy, pc, network, reader, result>>

Terminated == pc = "done" /\ UNCHANGED vars

Step == \/ Dial \/ DialFails \/ SendHello \/ SendFails \/ NextRecord
        \/ TakeServerHello \/ TakeCertificate \/ TakeServerKeyExchange \/ SkipToDone
        \/ SendFinished \/ SendFinishedFails \/ ReadFinished
        \/ RobotRecord \/ RobotMessage \/ RobotGivesUp \/ ReadFails

Next == Step \/ Deliver \/ End \/ Tick \/ Terminated

\* The client runs when it can, and time passes; nothing need ever arrive.
Spec == Init /\ [][Next]_vars /\ WF_vars(Step) /\ WF_vars(Tick)

----------------------------------------------------------------------------
(* Properties. *)

\* Every variable has its type; in particular no loop reads more records than
\* its limit.
TypeOK ==
  /\ client \in Clients /\ server \in Servers
  /\ now \in Nat /\ writeBy \in Nat /\ readBy \in Nat
  /\ pc \in Reassembling \cup {"dial", "hello", "send", "finished", "robot", "done"}
  /\ coming \in Seq(Records) /\ inbox \in Seq(Records)
  /\ ended \in {"open", "EOF", "reset"}
  /\ buf \in Seq(Cells) /\ transcript \in Seq(Messages)
  /\ count \in 0..RobotRecords /\ saw \in BOOLEAN /\ rsaPub \in BOOLEAN
  /\ result \in {"none", "session", "key", "partial"}

\* However the flight was cut into records, and whatever was skipped on the way
\* to ServerHelloDone, the client's Finished covers the messages the server
\* sent, each once and in order.
TranscriptAgrees == pc = "finished" => transcript = ServerTranscript(server)

\* The flights of RFC 5246 for a server that asks for no client certificate.
TypesOf(s) == [i \in DOMAIN s.flight |-> s.flight[i].type]
Usable(s) ==
  \/ /\ s.suite = "ecdhe" /\ s.curve = "known"
     /\ TypesOf(s) = <<"ServerHello", "Certificate", "ServerKeyExchange", "ServerHelloDone">>
  \/ /\ s.suite = "rsa" /\ s.leaf = "RSA"
     /\ TypesOf(s) \in {<<"ServerHello", "Certificate", "ServerHelloDone">>,
                        <<"ServerHello", "Certificate", "CertificateStatus",
                          "ServerHelloDone">>}

\* What no reader of a flight stumbles over.
Clear(s, limit) ==
  /\ \A i \in DOMAIN s.records : IsHandshake(s.records[i])
  /\ Len(Carried(s.records)) <= limit

\* The server said all it had to, in time: the client neither ends otherwise
\* nor goes on waiting.
Yields(r) ==
  /\ pc = "done" /\ ended = "open" /\ now < readBy => result = r
  /\ Reading /\ ended = "open" => coming # <<>> \/ inbox # <<>>

\* A usable server whose flight and Finished came within the deadlines gives a
\* session, whatever the cut and whatever tickets it sends, and it is never
\* waited for when it has sent everything.
FindsTheSession ==
  client = "cbc" /\ Usable(server) /\ Clear(server, 2 * MaxBuf) => Yields("session")

\* The other client reads the RSA key of every server that completes its flight
\* in RobotRecords records, as soon as it did.
RobotReadsTheKey ==
  client = "robot" /\ server.leaf = "RSA" /\ Usable(server) /\ Clear(server, MaxBuf)
    /\ Len(server.records) <= RobotRecords
  => Yields("key")

\* A dial, a handshake and, in the client that goes through with it, the wait
\* for the Finished each have a timeout of their own, however slowly the server
\* trickles its records.
EndsInTime == now <= (IF client = "cbc" THEN 3 ELSE 2) * Timeout

(***************************************************************************)
(* The contract of an active probe, for the session and the key: neither   *)
(* is claimed of a server that did not accept the Finished, or has no such *)
(* certificate, and the client decides once and in the end.                *)
(***************************************************************************)
Offers(s) ==
  {r \in {"session", "key"} : IF r = "key" THEN s.leaf = "RSA"
                              ELSE Accepts(s, ServerTranscript(s))}

Contract == INSTANCE ProbeContract
  WITH Claims  <- {"session", "key"},
       present <- Offers(server),
       claimed <- CASE result = "session" -> {"session"}
                    [] result \in {"key", "partial"} -> {"key"}
                    [] OTHER -> {},
       decided <- pc = "done"

ImplementsContract == Contract!Spec
=============================================================================
