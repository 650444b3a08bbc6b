--------------------------- MODULE HandshakeProofs ---------------------------
(***************************************************************************)
(* Theorems about Handshake: type correctness, with the limits of the two  *)
(* loops that read records; the deadlines; where a client is in the stream *)
(* of records, and from it that both sides hash the same messages, that    *)
(* nothing is found that is not there, and that a server that answers in   *)
(* time is understood, however its flight was cut into records.            *)
(***************************************************************************)
EXTENDS Handshake, Flattening, TLAPS

\* Whatever a server sends is a sequence of records.
LEMMA ReactionsAreRecords ==
  /\ \A a \in DOMAIN Acceptances : Acceptances[a] \in Seq(Records)
  /\ \A r \in DOMAIN Refusals : Refusals[r] \in Seq(Records)
<1>1. \A c \in {"handshake", "ccs", "alert", "data"} : Opaque(c) \in Records
  BY DEF Opaque, Records
<1>2. DOMAIN Acceptances = {"finished", "ticket", "tickets", "data"} BY DEF Acceptances
<1>3. DOMAIN Refusals = {"alert", "request", "silence"} BY DEF Refusals
<1>4. /\ Acceptances["finished"] \in Seq(Records) /\ Acceptances["ticket"] \in Seq(Records)
      /\ Acceptances["data"] \in Seq(Records)
  BY <1>1 DEF Acceptances
<1>5. Acceptances["tickets"] \in Seq(Records) BY <1>1 DEF Acceptances
<1>6. /\ Refusals["alert"] \in Seq(Records) /\ Refusals["request"] \in Seq(Records)
      /\ Refusals["silence"] \in Seq(Records)
  BY <1>1 DEF Refusals
<1>. QED BY <1>2, <1>3, <1>4, <1>5, <1>6

LEMMA ServersAreTyped ==
  \A s \in Servers : /\ s.records \in Seq(Records)
                     /\ s.accept \in DOMAIN Acceptances /\ s.refuse \in DOMAIN Refusals
BY ServersAssumption DEF ServerType

LEMMA ReactionIsRecords ==
  ASSUME NEW s \in Servers, NEW t PROVE Reaction(s, t) \in Seq(Records)
BY ServersAreTyped, ReactionsAreRecords DEF Reaction

\* What is taken off a buffer is a message, and leaves a buffer.
LEMMA Taking ==
  ASSUME buf \in Seq(Cells), Complete
  PROVE  Message \in Messages /\ Rest \in Seq(Cells)
<1>1. buf[1] \in Cells BY DEF Complete, HeaderLen
<1>2. Message \in Messages BY <1>1 DEF Message, Messages, Cells
<1>3. buf[1].len + 1 \in Nat /\ buf[1].len + 1 >= 1 BY <1>1 DEF Cells
<1>4. \A i \in (buf[1].len + 1)..Len(buf) : buf[i] \in Cells BY <1>3
<1>5. Rest \in Seq(Cells) BY <1>3, <1>4 DEF Rest
<1>. QED BY <1>2, <1>5

\* What is read off the network is a record, and leaves the rest of it.
LEMMA Receiving ==
  ASSUME inbox \in Seq(Records), inbox # <<>>, buf \in Seq(Cells)
  PROVE  /\ Head(inbox) \in Records /\ Tail(inbox) \in Seq(Records)
         /\ buf \o Head(inbox).cells \in Seq(Cells)
<1>1. Head(inbox) \in Records /\ Tail(inbox) \in Seq(Records) OBVIOUS
<1>. QED BY <1>1 DEF Records

\* Up to the Finished the one client counts no record; then it has read less
\* than it may.
CountInv ==
  /\ pc \in Reassembling \cup {"dial", "hello", "send"} => count = 0
  /\ pc = "finished" => count < FinishedRecords

TypeInv == TypeOK /\ CountInv

\* Every step keeps the types and the limits.
LEMMA TypeStep == TypeInv /\ [Next]_vars => TypeInv'
<1>. SUFFICES ASSUME TypeInv, [Next]_vars PROVE TypeInv'  OBVIOUS
<1>. USE TimeoutAssumption DEF TypeInv, TypeOK, CountInv, Reassembling, FinishedRecords,
         RobotRecords, fixed, clock, network, reader, Return
<1>0. \A t \in Types : Hello(t) \in Messages BY DEF Hello, Messages, HeaderLen
<1>1. CASE Dial BY <1>1 DEF Dial
<1>2. CASE DialFails BY <1>2 DEF DialFails
<1>3. CASE SendHello
  <2>1. server.records \in Seq(Records) BY ServersAreTyped
  <2>2. <<Hello("ClientHello")>> \in Seq(Messages) BY <1>0 DEF Types
  <2>3. coming' \in Seq(Records) BY <1>3, <2>1 DEF SendHello
  <2>. QED BY <1>3, <2>2, <2>3 DEF SendHello
<1>4. CASE SendFails BY <1>4 DEF SendFails
<1>5. CASE NextRecord BY <1>5, Receiving DEF NextRecord
<1>6. CASE TakeServerHello BY <1>6, Taking DEF TakeServerHello, Take
<1>7. CASE TakeCertificate BY <1>7, Taking DEF TakeCertificate, Take, parseLeafRSAKey
<1>8. CASE TakeServerKeyExchange BY <1>8, Taking DEF TakeServerKeyExchange, Take
<1>9. CASE SkipToDone BY <1>9, Taking DEF SkipToDone, Take
<1>10. CASE SendFinished
  <2>1. transcript' \in Seq(Messages) BY <1>10, <1>0 DEF SendFinished, Types
  <2>2. Reaction(server, transcript') \in Seq(Records) BY ReactionIsRecords
  <2>3. coming' \in Seq(Records) BY <1>10, <2>2 DEF SendFinished
  <2>. QED BY <1>10, <2>1, <2>3 DEF SendFinished
<1>11. CASE SendFinishedFails BY <1>11 DEF SendFinishedFails
<1>12. CASE ReadFinished BY <1>12, Receiving DEF ReadFinished, Proves
<1>13. CASE RobotRecord BY <1>13, Receiving DEF RobotRecord, MayRead
<1>14. CASE RobotMessage BY <1>14, Taking DEF RobotMessage, KeySoFar, parseLeafRSAKey
<1>15. CASE RobotGivesUp BY <1>15 DEF RobotGivesUp, KeySoFar
<1>16. CASE ReadFails BY <1>16 DEF ReadFails, KeySoFar
<1>17. CASE Deliver
  <2>1. Append(inbox, Head(coming)) \in Seq(Records) /\ Tail(coming) \in Seq(Records)
    BY <1>17 DEF Deliver
  <2>. QED BY <1>17, <2>1 DEF Deliver
<1>18. CASE End BY <1>18 DEF End
<1>19. CASE Tick BY <1>19 DEF Tick
<1>20. CASE UNCHANGED vars BY <1>20 DEF vars
<1>. QED BY <1>1, <1>2, <1>3, <1>4, <1>5, <1>6, <1>7, <1>8, <1>9, <1>10, <1>11, <1>12,
            <1>13, <1>14, <1>15, <1>16, <1>17, <1>18, <1>19, <1>20
         DEF Next, Step, Terminated

LEMMA TypeInvariant == Spec => []TypeInv
<1>1. Init => TypeInv
  <2>1. Init => CountInv BY DEF Init, CountInv, FinishedRecords
  <2>2. <<>> \in Seq(Records) /\ <<>> \in Seq(Cells) /\ <<>> \in Seq(Messages) OBVIOUS
  <2>3. ASSUME Init PROVE TypeOK
    <3>. USE <2>3 DEF Init
    <3>1. client \in Clients /\ server \in Servers OBVIOUS
    <3>2. now \in Nat /\ writeBy \in Nat /\ readBy \in Nat /\ count \in 0..RobotRecords
      BY DEF RobotRecords
    <3>3. coming \in Seq(Records) /\ inbox \in Seq(Records) /\ buf \in Seq(Cells)
            /\ transcript \in Seq(Messages)
      BY <2>2
    <3>4. saw \in BOOLEAN /\ rsaPub \in BOOLEAN OBVIOUS
    <3>. QED BY <3>1, <3>2, <3>3, <3>4 DEF TypeOK
  <2>. QED BY <2>1, <2>3 DEF TypeInv
<1>. QED BY <1>1, TypeStep, PTL DEF Spec

\* TypeOK: every reachable state of the two clients is well typed; in particular
\* neither reads more records than its loop may.
THEOREM TypeCorrectness == Spec => []TypeOK
<1>1. TypeInv => TypeOK BY DEF TypeInv
<1>. QED BY <1>1, TypeInvariant, PTL

----------------------------------------------------------------------------

\* The phases of each client, and how far the clock may be in each: the two
\* deadlines are the same until the Finished is sent, and only then is the one
\* for reads set anew.
CbcPhases == Reassembling \cup {"send", "finished"}
TimeInv ==
  /\ pc = "robot" => client = "robot"
  /\ pc \in CbcPhases => client = "cbc"
  /\ pc = "dial" => now <= Timeout
  /\ pc \in Reassembling \cup {"hello", "send", "robot"} =>
       now <= readBy /\ readBy <= 2 * Timeout
  /\ pc = "finished" => now <= readBy /\ readBy <= 3 * Timeout
  /\ EndsInTime

\* Every step keeps the clock within the deadlines of its phase.
LEMMA TimeStep == TypeInv /\ TimeInv /\ [Next]_vars => TimeInv'
<1>. SUFFICES ASSUME TypeInv, TimeInv, [Next]_vars PROVE TimeInv'  OBVIOUS
<1>. USE TimeoutAssumption DEF TypeInv, TypeOK, TimeInv, CbcPhases, Reassembling,
         EndsInTime, Clients, fixed, clock, network, reader, Return
<1>1. CASE Dial BY <1>1 DEF Dial
<1>2. CASE DialFails BY <1>2 DEF DialFails
<1>3. CASE SendHello BY <1>3 DEF SendHello
<1>4. CASE SendFails BY <1>4 DEF SendFails
<1>5. CASE NextRecord BY <1>5 DEF NextRecord
<1>6. CASE TakeServerHello BY <1>6 DEF TakeServerHello, Take
<1>7. CASE TakeCertificate BY <1>7 DEF TakeCertificate, Take, parseLeafRSAKey
<1>8. CASE TakeServerKeyExchange BY <1>8 DEF TakeServerKeyExchange, Take
<1>9. CASE SkipToDone BY <1>9 DEF SkipToDone, Take
<1>10. CASE SendFinished BY <1>10 DEF SendFinished
<1>11. CASE SendFinishedFails BY <1>11 DEF SendFinishedFails
<1>12. CASE ReadFinished BY <1>12 DEF ReadFinished
<1>13. CASE RobotRecord BY <1>13 DEF RobotRecord
<1>14. CASE RobotMessage BY <1>14 DEF RobotMessage
<1>15. CASE RobotGivesUp BY <1>15 DEF RobotGivesUp
<1>16. CASE ReadFails BY <1>16 DEF ReadFails
<1>17. CASE Deliver BY <1>17 DEF Deliver
<1>18. CASE End BY <1>18 DEF End
<1>19. CASE Tick BY <1>19 DEF Tick, Blocked, Reading
<1>20. CASE UNCHANGED vars BY <1>20 DEF vars
<1>. QED BY <1>1, <1>2, <1>3, <1>4, <1>5, <1>6, <1>7, <1>8, <1>9, <1>10, <1>11, <1>12,
            <1>13, <1>14, <1>15, <1>16, <1>17, <1>18, <1>19, <1>20
         DEF Next, Step, Terminated

LEMMA TimeInvariant == Spec => []TimeInv
<1>1. Init => TimeInv
  BY TimeoutAssumption DEF Init, TimeInv, CbcPhases, Reassembling, EndsInTime
<1>. QED BY <1>1, TypeInvariant, TimeStep, PTL DEF Spec

\* EndsInTime: the dial, the handshake and the wait for the Finished add up, so
\* that the CBC client never takes more than three times its timeout and the
\* ROBOT client never more than twice, whatever the server sends and when.
THEOREM EndsInTimeTheorem == Spec => []EndsInTime
<1>1. TimeInv => EndsInTime BY DEF TimeInv
<1>. QED BY <1>1, TimeInvariant, PTL

----------------------------------------------------------------------------
(* Where the messages and the records of a flight lie in its cells.        *)

\* The cells before the next message when k were sent, and before the next
\* record when r were.
Starts(s, k) == Before([i \in DOMAIN s.flight |-> MessageCells(s.flight[i])], k)
Ends(s, r)   == Before([i \in DOMAIN s.records |-> s.records[i].cells], r)

LEMMA FlightLies ==
  ASSUME NEW s \in Servers
  PROVE  LET wire == Flattened(s.flight)
             n    == Len(s.flight)
         IN  /\ s.flight \in Seq(Messages) /\ wire \in Seq(Cells)
             /\ Starts(s, 0) = 0 /\ Starts(s, n) = Len(wire)
             /\ \A k \in 0..n : Starts(s, k) \in 0..Len(wire)
             /\ \A k \in 1..n :
                  /\ Starts(s, k) = Starts(s, k - 1) + s.flight[k].len
                  /\ \A i \in 1..s.flight[k].len :
                       wire[Starts(s, k - 1) + i]
                         = [type |-> s.flight[k].type, len |-> s.flight[k].len, at |-> i]
<1>. DEFINE parts == [i \in DOMAIN s.flight |-> MessageCells(s.flight[i])]
<1>1. s.flight \in Seq(Messages) BY ServersAssumption DEF ServerType
<1>2. ASSUME NEW m \in Messages
      PROVE  MessageCells(m) \in Seq(Cells) /\ Len(MessageCells(m)) = m.len
  <2>1. m.type \in Types /\ m.len \in Nat BY DEF Messages
  <2>2. \A i \in 1..m.len : [type |-> m.type, len |-> m.len, at |-> i] \in Cells
    BY <2>1 DEF Cells
  <2>. QED BY <2>1, <2>2 DEF MessageCells
<1>3. parts \in Seq(Seq(Cells)) /\ Len(parts) = Len(s.flight)
  BY <1>1, <1>2
<1>4. \A k \in 1..Len(s.flight) :
        parts[k] = MessageCells(s.flight[k]) /\ Len(parts[k]) = s.flight[k].len
  BY <1>1, <1>2
<1>5. Flattened(s.flight) = FlattenSeq(parts) BY DEF Flattened
<1>6. \A k : Starts(s, k) = Before(parts, k) BY DEF Starts
<1>. HIDE DEF parts
<1>7. \A k \in 1..Len(s.flight) : \A i \in 1..s.flight[k].len :
        parts[k][i] = [type |-> s.flight[k].type, len |-> s.flight[k].len, at |-> i]
  BY <1>4 DEF MessageCells
<1>8. LET wire == Flattened(s.flight)
      IN  /\ wire \in Seq(Cells)
          /\ Starts(s, 0) = 0 /\ Starts(s, Len(parts)) = Len(wire)
          /\ \A k \in 0..Len(parts) : Starts(s, k) \in 0..Len(wire)
          /\ \A k \in 1..Len(parts) :
               /\ Starts(s, k) = Starts(s, k - 1) + Len(parts[k])
               /\ \A i \in 1..Len(parts[k]) : wire[Starts(s, k - 1) + i] = parts[k][i]
  BY <1>3, <1>5, <1>6, FlattenAt
<1>9. ASSUME NEW k \in 1..Len(s.flight)
      PROVE  /\ Starts(s, k) = Starts(s, k - 1) + s.flight[k].len
             /\ \A i \in 1..s.flight[k].len :
                  Flattened(s.flight)[Starts(s, k - 1) + i]
                    = [type |-> s.flight[k].type, len |-> s.flight[k].len, at |-> i]
  <2>1. k \in 1..Len(parts) /\ Len(parts[k]) = s.flight[k].len BY <1>3, <1>4
  <2>2. Starts(s, k) = Starts(s, k - 1) + s.flight[k].len BY <1>8, <2>1
  <2>3. \A i \in 1..s.flight[k].len :
          Flattened(s.flight)[Starts(s, k - 1) + i] = parts[k][i]
    BY <1>8, <2>1
  <2>. QED BY <1>7, <2>2, <2>3
<1>. QED BY <1>1, <1>3, <1>8, <1>9

LEMMA RecordsLie ==
  ASSUME NEW s \in Servers
  PROVE  LET wire == Flattened(s.flight)
             n    == Len(s.records)
         IN  /\ s.records \in Seq(Records)
             /\ Ends(s, 0) = 0 /\ Ends(s, n) <= Len(wire)
             /\ Ends(s, n) = Len(Carried(s.records))
             /\ ~Refuses(s) <=> Ends(s, n) = Len(wire)
             /\ \A r \in 0..n : Ends(s, r) \in 0..Ends(s, n)
             /\ \A r \in 1..n :
                  /\ s.records[r].cells \in Seq(Cells)
                  /\ Ends(s, r) = Ends(s, r - 1) + Len(s.records[r].cells)
                  /\ \A i \in 1..Len(s.records[r].cells) :
                       wire[Ends(s, r - 1) + i] = s.records[r].cells[i]
<1>. DEFINE parts == [i \in DOMAIN s.records |-> s.records[i].cells]
            sent  == Carried(s.records)
            wire  == Flattened(s.flight)
<1>1. s.records \in Seq(Records) BY ServersAssumption DEF ServerType
<1>3. \A r \in 1..Len(s.records) : parts[r] = s.records[r].cells /\ s.records[r].cells \in Seq(Cells)
  <2>1. \A x \in Records : x.cells \in Seq(Cells) BY DEF Records
  <2>. QED BY <1>1, <2>1
<1>2. parts \in Seq(Seq(Cells)) /\ Len(parts) = Len(s.records)
  BY <1>1, <1>3
<1>4. sent = FlattenSeq(parts) BY DEF Carried
<1>5. \A r : Ends(s, r) = Before(parts, r) BY DEF Ends
<1>6. IsPrefix(sent, wire) /\ (Refuses(s) <=> sent # wire) BY ServersAssumption
<1>7. wire \in Seq(Cells) BY FlightLies
<1>. HIDE DEF parts, sent, wire
<1>8. /\ sent \in Seq(Cells)
      /\ Ends(s, 0) = 0 /\ Ends(s, Len(s.records)) = Len(sent)
      /\ \A r \in 0..Len(s.records) : Ends(s, r) \in 0..Len(sent)
      /\ \A r \in 1..Len(s.records) :
           /\ Ends(s, r) = Ends(s, r - 1) + Len(s.records[r].cells)
           /\ \A i \in 1..Len(s.records[r].cells) :
                sent[Ends(s, r - 1) + i] = s.records[r].cells[i]
  BY <1>2, <1>3, <1>4, <1>5, FlattenAt
<1>9. Len(sent) <= Len(wire) /\ \A i \in 1..Len(sent) : sent[i] = wire[i]
  BY <1>6, <1>7, <1>8 DEF IsPrefix
<1>10. sent = wire <=> Len(sent) = Len(wire) BY <1>7, <1>8, <1>9
<1>11. ASSUME NEW r \in 1..Len(s.records), NEW i \in 1..Len(s.records[r].cells)
       PROVE  wire[Ends(s, r - 1) + i] = s.records[r].cells[i]
  <2>1. r - 1 \in 0..Len(s.records) /\ r \in 0..Len(s.records) OBVIOUS
  <2>2. Ends(s, r - 1) \in Nat /\ Ends(s, r) <= Len(sent) /\ i \in Nat /\ i >= 1
          /\ i <= Len(s.records[r].cells)
    BY <1>3, <1>8, <2>1
  <2>3. Ends(s, r - 1) + i \in 1..Len(sent)
    BY <1>3, <1>8, <2>1, <2>2
  <2>. QED BY <1>8, <1>9, <2>3
<1>. QED BY <1>1, <1>3, <1>6, <1>8, <1>9, <1>10, <1>11 DEF sent, wire

----------------------------------------------------------------------------
(* Where a client is in the flight.  The buffer is the cells from the      *)
(* messages taken to the records read, and the network holds the records   *)
(* after those.                                                            *)

\* k messages were taken off the cells of r records.
Buffered(k, r) ==
  /\ k \in 0..Len(server.flight) /\ r \in 0..Len(server.records)
  /\ Len(buf) = Ends(server, r) - Starts(server, k)
  /\ \A i \in 1..Len(buf) : buf[i] = Flattened(server.flight)[Starts(server, k) + i]

\* All the server sends, as far as the client has let it.
Sent ==
  IF pc = "finished" THEN server.records \o Reaction(server, ServerTranscript(server))
  ELSE server.records

\* q records were read; an end of the connection loses some from the back.
Arriving(q) ==
  /\ q \in Nat /\ q + Len(inbox) <= Len(Sent)
  /\ \A i \in 1..Len(inbox) : inbox[i] = Sent[q + i]
  /\ ended # "open" => coming = <<>>
  /\ ended = "open" =>
       /\ q + Len(inbox) + Len(coming) = Len(Sent)
       /\ \A i \in 1..Len(coming) : coming[i] = Sent[q + Len(inbox) + i]

\* The transcript is the ClientHello and the messages taken.
Hashed(k) ==
  /\ Len(transcript) = k + 1 /\ transcript[1] = Hello("ClientHello")
  /\ \A i \in 1..k : transcript[i + 1] = server.flight[i]

\* How many messages of a usable flight the client has taken in each phase,
\* and what the robot client has of them.
Progress(k) ==
  /\ pc = "ServerHello" => k = 0
  /\ pc = "Certificate" => k = 1
  /\ pc = "ServerKeyExchange" => k = 2 /\ server.suite = "ecdhe"
  /\ pc = "SkipToDone" => k >= 2 /\ k < Len(server.flight)
  /\ pc = "robot" =>
       /\ k < Len(server.flight)
       /\ k >= 1 => saw
       /\ k >= 2 /\ server.leaf = "RSA" => rsaPub

InFlight == Reassembling \cup {"send", "robot"}

Position(k, r) ==
  /\ Buffered(k, r) /\ Arriving(r)
  /\ pc = "robot" => count = r
  /\ pc # "robot" => Hashed(k)
  /\ pc = "send" => k = Len(server.flight)
  /\ Usable(server) => Progress(k)

FlightInv ==
  /\ pc \in {"dial", "hello"} =>
       coming = <<>> /\ inbox = <<>> /\ buf = <<>> /\ count = 0 /\ saw = FALSE
  /\ pc \in Reassembling \cup {"send"} => saw = FALSE
  /\ pc \in InFlight =>
       \E k \in 0..Len(server.flight), r \in 0..Len(server.records) : Position(k, r)

\* After its Finished the client has the transcript of the server, which then
\* did not break its flight off; if no record was empty, none is left unread.
FinishedInv ==
  pc = "finished" =>
    /\ transcript = ServerTranscript(server) /\ ~Refuses(server)
    /\ \E q \in Nat : Arriving(q)
    /\ (\A i \in DOMAIN server.records : IsHandshake(server.records[i]))
         => Arriving(Len(server.records) + count)

StreamInv == FlightInv /\ FinishedInv

\* A whole message at the front of the buffer is the next one of the flight.
LEMMA TakingAdvances ==
  ASSUME TypeOK, NEW k, NEW r, Buffered(k, r), Complete, buf' = Rest, server' = server
  PROVE  /\ k + 1 \in 1..Len(server.flight) /\ Message = server.flight[k + 1]
         /\ Buffered(k + 1, r)'
<1>. DEFINE wire == Flattened(server.flight)
            n    == Len(server.flight)
            m    == server.flight[k + 1]
<1>1. server \in Servers /\ buf \in Seq(Cells) BY DEF TypeOK
<1>2. /\ server.flight \in Seq(Messages) /\ wire \in Seq(Cells)
      /\ Starts(server, n) = Len(wire)
      /\ \A j \in 0..n : Starts(server, j) \in 0..Len(wire)
      /\ \A j \in 1..n :
           /\ Starts(server, j) = Starts(server, j - 1) + server.flight[j].len
           /\ \A i \in 1..server.flight[j].len :
                wire[Starts(server, j - 1) + i]
                  = [type |-> server.flight[j].type, len |-> server.flight[j].len, at |-> i]
  BY <1>1, FlightLies
<1>3. Ends(server, r) \in 0..Len(wire)
  BY <1>1, RecordsLie DEF Buffered
<1>4. /\ k \in 0..n /\ n \in Nat /\ Len(wire) \in Nat /\ Len(buf) \in Nat
      /\ Len(buf) = Ends(server, r) - Starts(server, k)
      /\ \A i \in 1..Len(buf) : buf[i] = wire[Starts(server, k) + i]
  BY <1>1, <1>2 DEF Buffered
<1>. HIDE DEF wire, n
<1>5. Len(buf) >= 2 /\ Len(buf) >= buf[1].len BY DEF Complete, HeaderLen
<1>6. k # n BY <1>2, <1>3, <1>4, <1>5
<1>7. k + 1 \in 1..n /\ k + 1 \in 0..n /\ (k + 1) - 1 = k BY <1>4, <1>6
<1>8. m \in Messages /\ m.len >= 2 /\ m.len \in Nat
  <2>1. m \in Messages BY <1>2, <1>7 DEF n
  <2>2. k + 1 \in DOMAIN server.flight BY <1>2, <1>7 DEF n
  <2>3. m.len >= 2 BY <1>1, <2>2, ServersAssumption DEF HeaderLen
  <2>. QED BY <2>1, <2>3 DEF Messages
<1>9. /\ Starts(server, k + 1) = Starts(server, k) + m.len
      /\ \A i \in 1..m.len :
           wire[Starts(server, k) + i] = [type |-> m.type, len |-> m.len, at |-> i]
  BY <1>2, <1>7
<1>10. buf[1] = [type |-> m.type, len |-> m.len, at |-> 1]
  BY <1>4, <1>5, <1>8, <1>9
<1>. HIDE DEF m
<1>11. Message = [type |-> m.type, len |-> m.len] /\ Message = m
  BY <1>8, <1>10 DEF Message, Messages
<1>12. Len(buf) >= m.len /\ buf' = SubSeq(buf, m.len + 1, Len(buf))
  <2>1. buf[1].len = m.len BY <1>10
  <2>. QED BY <1>5, <2>1 DEF Rest
<1>13. /\ Len(buf') = Len(buf) - m.len
       /\ \A i \in 1..Len(buf') : buf'[i] = buf[m.len + i] /\ m.len + i \in 1..Len(buf)
  <2>1. m.len + 1 \in Nat /\ m.len + 1 >= 1 /\ m.len + 1 <= Len(buf) + 1 /\ Len(buf) \in Nat
    BY <1>4, <1>8, <1>12
  <2>2. Len(SubSeq(buf, m.len + 1, Len(buf))) = Len(buf) - m.len
    BY <1>1, <1>8, <2>1
  <2>3. ASSUME NEW i \in 1..(Len(buf) - m.len)
        PROVE  /\ SubSeq(buf, m.len + 1, Len(buf))[i] = buf[m.len + i]
               /\ m.len + i \in 1..Len(buf)
    BY <1>1, <1>8, <2>1
  <2>. QED BY <1>12, <2>2, <2>3
<1>14. Len(buf') = Ends(server, r) - Starts(server, k + 1)
  <2>1. Starts(server, k) \in Nat /\ Ends(server, r) \in Nat BY <1>2, <1>3, <1>4
  <2>. QED BY <1>4, <1>8, <1>9, <1>13, <2>1
<1>15. ASSUME NEW i \in 1..Len(buf') PROVE buf'[i] = wire[Starts(server, k + 1) + i]
  <2>1. buf'[i] = wire[Starts(server, k) + (m.len + i)] BY <1>4, <1>13
  <2>2. Starts(server, k) \in Nat /\ i \in Nat BY <1>2, <1>4
  <2>3. Starts(server, k) + (m.len + i) = Starts(server, k + 1) + i BY <1>8, <1>9, <2>2
  <2>. QED BY <2>1, <2>3
<1>16. Buffered(k + 1, r)'
  BY <1>7, <1>14, <1>15 DEF Buffered, n, wire
<1>. QED BY <1>7, <1>11, <1>16 DEF n, m

\* The next record that arrives is the next one sent.
LEMMA ReadingAdvances ==
  ASSUME TypeOK, NEW q, Arriving(q), inbox # <<>>, inbox' = Tail(inbox),
         UNCHANGED <<coming, ended>>, Sent' = Sent
  PROVE  /\ q + 1 \in 1..Len(Sent) /\ Head(inbox) = Sent[q + 1]
         /\ Arriving(q + 1)'
<1>1. inbox \in Seq(Records) /\ coming \in Seq(Records) BY DEF TypeOK
<1>2. /\ q \in Nat /\ q + Len(inbox) <= Len(Sent)
      /\ \A i \in 1..Len(inbox) : inbox[i] = Sent[q + i]
  BY DEF Arriving
<1>3. Len(Sent) \in Nat
  <2>1. server.records \in Seq(Records) /\ Reaction(server, ServerTranscript(server)) \in Seq(Records)
    BY ServersAreTyped, ReactionIsRecords DEF TypeOK
  <2>. QED BY <2>1 DEF Sent
<1>4. Len(inbox') = Len(inbox) - 1 /\ \A i \in 1..Len(inbox') : inbox'[i] = inbox[i + 1]
  BY <1>1
<1>5. Len(inbox) \in Nat \ {0} /\ Head(inbox) = inbox[1] BY <1>1
<1>6. q + 1 \in 1..Len(Sent) /\ Head(inbox) = Sent[q + 1]
  <2>1. q + 1 <= Len(Sent) /\ q + 1 \in Nat /\ q + 1 >= 1 BY <1>2, <1>3, <1>5
  <2>2. 1 \in 1..Len(inbox) BY <1>5
  <2>. QED BY <1>2, <1>3, <1>5, <2>1, <2>2
<1>7. /\ q + 1 \in Nat /\ (q + 1) + Len(inbox') = q + Len(inbox)
      /\ \A i \in 1..Len(inbox') : inbox'[i] = Sent[(q + 1) + i]
  <2>1. \A i \in 1..Len(inbox') :
          i + 1 \in 1..Len(inbox) /\ q + (i + 1) = (q + 1) + i
    BY <1>2, <1>4, <1>5
  <2>2. \A i \in 1..Len(inbox') : inbox'[i] = Sent[q + (i + 1)] BY <1>2, <1>4, <2>1
  <2>3. q + 1 \in Nat /\ (q + 1) + Len(inbox') = q + Len(inbox) BY <1>2, <1>4, <1>5
  <2>. QED BY <2>1, <2>2, <2>3
<1>8. Arriving(q + 1)'
  BY <1>2, <1>7 DEF Arriving
<1>. QED BY <1>6, <1>8

\* Its cells go behind those in the buffer.
LEMMA RecordFillsBuffer ==
  ASSUME TypeOK, NEW k, NEW r, Buffered(k, r), r + 1 \in 1..Len(server.records),
         buf' = buf \o server.records[r + 1].cells, server' = server
  PROVE  Buffered(k, r + 1)'
<1>. DEFINE wire  == Flattened(server.flight)
            cells == server.records[r + 1].cells
<1>1. server \in Servers /\ buf \in Seq(Cells) BY DEF TypeOK
<1>2. k \in 0..Len(server.flight) /\ r \in 0..Len(server.records) /\ r + 1 - 1 = r
  BY DEF Buffered
<1>3. Starts(server, k) \in Nat BY <1>1, <1>2, FlightLies
<1>4. /\ Ends(server, r) \in Nat /\ cells \in Seq(Cells)
      /\ Ends(server, r + 1) = Ends(server, r) + Len(cells)
      /\ \A i \in 1..Len(cells) : wire[Ends(server, r) + i] = cells[i]
  <2>1. /\ server.records \in Seq(Records)
        /\ \A j \in 0..Len(server.records) :
             Ends(server, j) \in 0..Ends(server, Len(server.records))
        /\ \A j \in 1..Len(server.records) :
             /\ server.records[j].cells \in Seq(Cells)
             /\ Ends(server, j) = Ends(server, j - 1) + Len(server.records[j].cells)
             /\ \A i \in 1..Len(server.records[j].cells) :
                  wire[Ends(server, j - 1) + i] = server.records[j].cells[i]
    BY <1>1, RecordsLie
  <2>. HIDE DEF wire
  <2>. QED BY <1>2, <2>1
<1>5. /\ Len(buf) = Ends(server, r) - Starts(server, k)
      /\ \A i \in 1..Len(buf) : buf[i] = wire[Starts(server, k) + i]
  BY DEF Buffered
<1>. HIDE DEF wire, cells
<1>6. /\ Len(buf) \in Nat /\ Len(cells) \in Nat /\ Len(buf \o cells) = Len(buf) + Len(cells)
      /\ \A i \in 1..Len(buf) : (buf \o cells)[i] = buf[i]
      /\ \A i \in 1..Len(cells) : (buf \o cells)[Len(buf) + i] = cells[i]
  BY <1>1, <1>4
<1>7. Len(buf \o cells) = Ends(server, r + 1) - Starts(server, k)
  BY <1>3, <1>4, <1>5, <1>6
<1>8. ASSUME NEW i \in 1..Len(buf \o cells)
      PROVE  (buf \o cells)[i] = wire[Starts(server, k) + i]
  <2>1. CASE i <= Len(buf) BY <1>5, <1>6, <2>1
  <2>2. CASE i > Len(buf)
    <3>1. i \in Nat /\ i <= Len(buf) + Len(cells) BY <1>6
    <3>2. PICK d \in 1..Len(cells) : i = Len(buf) + d
      <4>1. i - Len(buf) \in 1..Len(cells) /\ i = Len(buf) + (i - Len(buf))
        BY <1>6, <2>2, <3>1
      <4>. QED BY <4>1
    <3>3. Ends(server, r) = Starts(server, k) + Len(buf) BY <1>3, <1>4, <1>5, <1>6
    <3>4. Ends(server, r) + d = Starts(server, k) + i BY <1>3, <1>4, <1>6, <3>2, <3>3
    <3>. QED BY <1>4, <1>6, <3>2, <3>4
  <2>. QED BY <1>6, <2>1, <2>2
<1>. QED BY <1>2, <1>7, <1>8 DEF Buffered, wire, cells

\* What the network does on its own keeps the order.
LEMMA NetworkKeepsOrder ==
  ASSUME TypeOK, NEW q, Arriving(q), Deliver \/ End, Sent' = Sent
  PROVE  Arriving(q)'
<1>1. inbox \in Seq(Records) /\ coming \in Seq(Records) BY DEF TypeOK
<1>2. CASE Deliver
  <2>1. ended = "open" /\ ended' = "open" /\ coming # <<>>
    BY <1>2 DEF Deliver
  <2>2. /\ q \in Nat /\ q + Len(inbox) + Len(coming) = Len(Sent)
        /\ \A i \in 1..Len(inbox) : inbox[i] = Sent[q + i]
        /\ \A i \in 1..Len(coming) : coming[i] = Sent[q + Len(inbox) + i]
    BY <2>1 DEF Arriving
  <2>3. /\ Len(inbox') = Len(inbox) + 1 /\ inbox'[Len(inbox) + 1] = coming[1]
        /\ \A i \in 1..Len(inbox) : inbox'[i] = inbox[i]
        /\ Len(coming') = Len(coming) - 1 /\ Len(coming) >= 1
        /\ \A i \in 1..Len(coming') : coming'[i] = coming[i + 1] /\ i + 1 \in 1..Len(coming)
    BY <1>1, <1>2, <2>1 DEF Deliver
  <2>4. Len(inbox) \in Nat /\ Len(coming) \in Nat BY <1>1
  <2>5. q + Len(inbox') + Len(coming') = Len(Sent) /\ q + Len(inbox') <= Len(Sent)
    <3>1. /\ q \in Nat /\ Len(inbox) \in Nat /\ Len(coming) \in Nat
          /\ Len(coming) >= 1 /\ q + Len(inbox) + Len(coming) = Len(Sent)
          /\ Len(inbox') = Len(inbox) + 1 /\ Len(coming') = Len(coming) - 1
      BY <2>2, <2>3, <2>4
    <3>. QED BY <3>1
  <2>6. ASSUME NEW i \in 1..Len(inbox') PROVE inbox'[i] = Sent[q + i]
    <3>1. CASE i = Len(inbox) + 1
      <4>1. coming[1] = Sent[q + Len(inbox) + 1] BY <2>2, <2>3, <2>4
      <4>. QED BY <2>2, <2>3, <2>4, <3>1, <4>1
    <3>2. CASE i \in 1..Len(inbox) BY <2>2, <2>3, <3>2
    <3>. QED BY <2>3, <2>4, <3>1, <3>2
  <2>7. ASSUME NEW i \in 1..Len(coming') PROVE coming'[i] = Sent[q + Len(inbox') + i]
    <3>1. coming'[i] = Sent[q + Len(inbox) + (i + 1)] BY <2>2, <2>3
    <3>2. q + Len(inbox) + (i + 1) = q + Len(inbox') + i BY <2>2, <2>3, <2>4
    <3>. QED BY <3>1, <3>2
  <2>. QED BY <2>1, <2>2, <2>5, <2>6, <2>7 DEF Arriving
<1>3. CASE End
  <2>1. ended' # "open" /\ coming' = <<>> /\ (inbox' = <<>> \/ inbox' = inbox)
    BY <1>3 DEF End
  <2>. QED BY <1>1, <2>1 DEF Arriving
<1>. QED BY <1>2, <1>3

\* What is taken is hashed.
LEMMA HashingAdvances ==
  ASSUME TypeOK, NEW k \in Nat, Hashed(k), k + 1 \in 1..Len(server.flight),
         transcript' = Append(transcript, server.flight[k + 1]), server' = server
  PROVE  Hashed(k + 1)'
<1>1. transcript \in Seq(Messages) /\ Len(transcript) = k + 1 BY DEF TypeOK, Hashed
<1>2. /\ Len(transcript') = k + 2 /\ transcript'[k + 2] = server.flight[k + 1]
      /\ \A i \in 1..(k + 1) : transcript'[i] = transcript[i]
  BY <1>1
<1>3. transcript'[1] = Hello("ClientHello") BY <1>2 DEF Hashed
<1>4. ASSUME NEW i \in 1..(k + 1) PROVE transcript'[i + 1] = server.flight[i]
  <2>1. CASE i = k + 1 BY <1>2, <2>1
  <2>2. CASE i # k + 1
    <3>1. i \in 1..k /\ i + 1 \in 1..(k + 1) BY <2>2
    <3>. QED BY <1>2, <3>1 DEF Hashed
  <2>. QED BY <2>1, <2>2
<1>. QED BY <1>2, <1>3, <1>4 DEF Hashed

\* Nothing comes after a ServerHelloDone.
LEMMA DoneIsLast ==
  ASSUME NEW s \in Servers, NEW i \in 1..Len(s.flight), s.flight[i].type = "ServerHelloDone"
  PROVE  i = Len(s.flight)
<1>1. s.flight \in Seq(Messages) BY FlightLies
<1>2. i \in DOMAIN s.flight BY <1>1
<1>. QED BY <1>2, ServersAssumption

\* Who has taken the whole flight has not met a server that breaks it off.
LEMMA WholeFlight ==
  ASSUME TypeOK, NEW r, Buffered(Len(server.flight), r)
  PROVE  ~Refuses(server)
<1>1. server \in Servers /\ buf \in Seq(Cells) BY DEF TypeOK
<1>2. /\ Starts(server, Len(server.flight)) = Len(Flattened(server.flight))
      /\ Flattened(server.flight) \in Seq(Cells)
  BY <1>1, FlightLies
<1>3. /\ r \in 0..Len(server.records)
      /\ Len(buf) = Ends(server, r) - Starts(server, Len(server.flight))
  BY DEF Buffered
<1>4. /\ Ends(server, Len(server.records)) <= Len(Flattened(server.flight))
      /\ ~Refuses(server)
           <=> Ends(server, Len(server.records)) = Len(Flattened(server.flight))
      /\ Ends(server, r) \in 0..Ends(server, Len(server.records))
      /\ Ends(server, Len(server.records)) \in 0..Ends(server, Len(server.records))
  BY <1>1, <1>3, RecordsLie
<1>5. Len(buf) \in Nat /\ Len(Flattened(server.flight)) \in Nat BY <1>1, <1>2
<1>. QED BY <1>2, <1>3, <1>4, <1>5

\* The messages of a usable flight.
LEMMA UsableFlight ==
  ASSUME NEW s \in Servers, Usable(s)
  PROVE  /\ Len(s.flight) \in 3..4
         /\ s.flight[1].type = "ServerHello" /\ s.flight[2].type = "Certificate"
         /\ \A i \in 1..Len(s.flight) :
              s.flight[i].type = "ServerHelloDone" <=> i = Len(s.flight)
         /\ s.suite \in {"ecdhe", "rsa"} /\ (s.suite = "rsa" => s.leaf = "RSA")
         /\ s.suite = "ecdhe" => s.curve = "known" /\ s.flight[3].type = "ServerKeyExchange"
         /\ ~Has(s, "CertificateRequest")
<1>1. s.flight \in Seq(Messages) BY FlightLies
<1>2. /\ TypesOf(s) \in Seq(Types) /\ Len(TypesOf(s)) = Len(s.flight)
      /\ \A i \in 1..Len(s.flight) : TypesOf(s)[i] = s.flight[i].type
  <2>1. \A m \in Messages : m.type \in Types BY DEF Messages
  <2>2. \A i \in DOMAIN s.flight : s.flight[i].type \in Types BY <1>1, <2>1
  <2>. QED BY <1>1, <2>2 DEF TypesOf
<1>3. CASE /\ s.suite = "ecdhe" /\ s.curve = "known"
           /\ TypesOf(s) = <<"ServerHello", "Certificate", "ServerKeyExchange",
                             "ServerHelloDone">>
  <2>1. Len(s.flight) = 4 BY <1>2, <1>3
  <2>2. /\ s.flight[1].type = "ServerHello" /\ s.flight[2].type = "Certificate"
        /\ s.flight[3].type = "ServerKeyExchange" /\ s.flight[4].type = "ServerHelloDone"
    BY <1>2, <1>3, <2>1
  <2>3. \A i \in 1..Len(s.flight) : i \in {1, 2, 3, 4} BY <2>1
  <2>4. ~Has(s, "CertificateRequest") BY <1>1, <2>2, <2>3 DEF Has
  <2>. QED BY <1>3, <2>1, <2>2, <2>3, <2>4
<1>4. CASE /\ s.suite = "rsa" /\ s.leaf = "RSA"
           /\ TypesOf(s) = <<"ServerHello", "Certificate", "ServerHelloDone">>
  <2>1. Len(s.flight) = 3 BY <1>2, <1>4
  <2>2. /\ s.flight[1].type = "ServerHello" /\ s.flight[2].type = "Certificate"
        /\ s.flight[3].type = "ServerHelloDone"
    BY <1>2, <1>4, <2>1
  <2>3. \A i \in 1..Len(s.flight) : i \in {1, 2, 3} BY <2>1
  <2>4. ~Has(s, "CertificateRequest") BY <1>1, <2>2, <2>3 DEF Has
  <2>. QED BY <1>4, <2>1, <2>2, <2>3, <2>4
<1>5. CASE /\ s.suite = "rsa" /\ s.leaf = "RSA"
           /\ TypesOf(s) = <<"ServerHello", "Certificate", "CertificateStatus",
                             "ServerHelloDone">>
  <2>1. Len(s.flight) = 4 BY <1>2, <1>5
  <2>2. /\ s.flight[1].type = "ServerHello" /\ s.flight[2].type = "Certificate"
        /\ s.flight[3].type = "CertificateStatus" /\ s.flight[4].type = "ServerHelloDone"
    BY <1>2, <1>5, <2>1
  <2>3. \A i \in 1..Len(s.flight) : i \in {1, 2, 3, 4} BY <2>1
  <2>4. ~Has(s, "CertificateRequest") BY <1>1, <2>2, <2>3 DEF Has
  <2>. QED BY <1>5, <2>1, <2>2, <2>3, <2>4
<1>. QED BY <1>3, <1>4, <1>5 DEF Usable

\* The client begins to read with nothing taken and nothing read.
LEMMA PositionAtStart ==
  ASSUME TypeInv, SendHello, FlightInv
  PROVE  Position(0, 0)'
<1>1. server \in Servers BY DEF TypeInv, TypeOK
<1>2. /\ server' = server /\ pc = "hello" /\ pc' \in {"ServerHello", "robot"}
      /\ buf' = <<>> /\ inbox' = <<>> /\ count' = 0 /\ ended' = ended
      /\ coming' = (IF ended = "open" THEN server.records ELSE <<>>)
      /\ transcript' = <<Hello("ClientHello")>>
  BY DEF SendHello, FlightInv, fixed
<1>3. /\ server.flight \in Seq(Messages) /\ server.records \in Seq(Records)
      /\ Starts(server, 0) = 0 /\ Ends(server, 0) = 0
  BY <1>1, FlightLies, RecordsLie
<1>4. Buffered(0, 0)' BY <1>2, <1>3 DEF Buffered
<1>5. Arriving(0)'
  <2>1. Sent' = server.records BY <1>2 DEF Sent
  <2>. QED BY <1>2, <1>3, <2>1 DEF Arriving
<1>6. Hashed(0)' BY <1>2 DEF Hashed
<1>7. Usable(server) => Progress(0)'
  BY <1>1, <1>2, UsableFlight DEF Progress
<1>8. Usable(server)' = Usable(server) BY <1>2 DEF Usable, TypesOf
<1>. QED BY <1>2, <1>4, <1>5, <1>6, <1>7, <1>8 DEF Position

\* A handshake record that is read brings the client on by a record.
LEMMA PositionAfterRecord ==
  ASSUME TypeInv, NEW k, NEW r, Position(k, r), pc \in Reassembling \cup {"robot"},
         inbox # <<>>, inbox' = Tail(inbox), buf' = buf \o Head(inbox).cells,
         UNCHANGED <<fixed, pc, coming, ended, transcript, saw, rsaPub>>,
         IF pc = "robot" THEN count' = count + 1 ELSE count' = count
  PROVE  /\ r + 1 \in 1..Len(server.records) /\ Head(inbox) = server.records[r + 1]
         /\ Position(k, r + 1)'
<1>1. server' = server /\ pc' = pc /\ TypeOK BY DEF fixed, TypeInv
<1>2. Sent = server.records /\ Sent' = Sent BY <1>1 DEF Sent, Reassembling
<1>3. /\ r + 1 \in 1..Len(server.records) /\ Head(inbox) = server.records[r + 1]
      /\ Arriving(r + 1)'
  BY <1>1, <1>2, ReadingAdvances DEF Position
<1>4. Buffered(k, r + 1)'
  BY <1>1, <1>3, RecordFillsBuffer DEF Position
<1>5. /\ pc = "robot" => count' = r + 1
      /\ pc # "robot" => Hashed(k)'
      /\ pc # "send"
  BY <1>1 DEF Position, Hashed, Reassembling
<1>6. Usable(server)' => Progress(k)'
  BY <1>1 DEF Position, Progress, Usable, TypesOf
<1>. QED BY <1>1, <1>3, <1>4, <1>5, <1>6 DEF Position

\* What the network does leaves the client where it is.
LEMMA PositionKept ==
  ASSUME TypeInv, NEW k, NEW r, Position(k, r), pc \in InFlight,
         Deliver \/ End \/ Tick \/ UNCHANGED vars
  PROVE  Position(k, r)'
<1>1. /\ server' = server /\ pc' = pc /\ buf' = buf /\ transcript' = transcript
      /\ count' = count /\ saw' = saw /\ rsaPub' = rsaPub /\ TypeOK
  BY DEF Deliver, End, Tick, vars, fixed, reader, TypeInv
<1>2. Sent' = Sent BY <1>1 DEF Sent, InFlight, Reassembling
<1>3. Arriving(r)'
  <2>1. CASE Deliver \/ End BY <1>1, <1>2, <2>1, NetworkKeepsOrder DEF Position
  <2>2. CASE Tick \/ UNCHANGED vars
    <3>1. inbox' = inbox /\ coming' = coming /\ ended' = ended
      BY <2>2 DEF Tick, vars, network
    <3>. QED BY <1>2, <3>1 DEF Position, Arriving
  <2>. QED BY <2>1, <2>2
<1>4. Buffered(k, r)' BY <1>1 DEF Position, Buffered
<1>5. /\ pc = "robot" => count' = r
      /\ pc # "robot" => Hashed(k)'
      /\ pc = "send" => k = Len(server.flight)
  BY <1>1 DEF Position, Hashed
<1>6. Usable(server)' => Progress(k)'
  BY <1>1 DEF Position, Progress, Usable, TypesOf
<1>. QED BY <1>1, <1>3, <1>4, <1>5, <1>6 DEF Position

\* A message that is taken brings the client on by a message.
LEMMA PositionAfterMessage ==
  ASSUME TypeInv, NEW k, NEW r, Position(k, r), pc \in Reassembling \cup {"robot"},
         pc' \in InFlight, pc' = "robot" <=> pc = "robot",
         Complete, buf' = Rest, UNCHANGED <<fixed, network, count>>,
         pc # "robot" => transcript' = Append(transcript, Message),
         pc' = "send" => Message.type = "ServerHelloDone",
         Usable(server) => Progress(k + 1)'
  PROVE  /\ k + 1 \in 1..Len(server.flight)
         /\ Position(k + 1, r)'
<1>1. /\ server' = server /\ TypeOK /\ server \in Servers
      /\ inbox' = inbox /\ coming' = coming /\ ended' = ended
  BY DEF fixed, network, TypeInv, TypeOK
<1>2. /\ k + 1 \in 1..Len(server.flight) /\ Message = server.flight[k + 1]
      /\ Buffered(k + 1, r)'
  BY <1>1, TakingAdvances DEF Position
<1>3. Arriving(r)'
  <2>1. Sent' = Sent BY <1>1 DEF Sent, InFlight, Reassembling
  <2>. QED BY <1>1, <2>1 DEF Position, Arriving
<1>4. k \in Nat BY DEF Position, Buffered
<1>5. pc # "robot" => Hashed(k + 1)'
  BY <1>1, <1>2, <1>4, HashingAdvances DEF Position
<1>6. pc' = "send" => k + 1 = Len(server.flight)
  BY <1>1, <1>2, DoneIsLast
<1>7. Usable(server)' = Usable(server) BY <1>1 DEF Usable, TypesOf
<1>8. pc' = "robot" => count' = r BY DEF Position
<1>. QED BY <1>1, <1>2, <1>3, <1>5, <1>6, <1>7, <1>8 DEF Position

\* Every step of a client that reads its flight keeps it where it can be.
LEMMA FlightStep == TypeInv /\ FlightInv /\ [Next]_vars => FlightInv'
<1>. SUFFICES ASSUME TypeInv, FlightInv, [Next]_vars PROVE FlightInv'  OBVIOUS
<1>. DEFINE Somewhere ==
       \E k \in 0..Len(server.flight), r \in 0..Len(server.records) : Position(k, r)
<1>0. \A k, r : Position(k, r)' => Somewhere'
  <2>1. ASSUME NEW k, NEW r, Position(k, r)' PROVE Somewhere'
    <3>1. k \in 0..Len(server'.flight) /\ r \in 0..Len(server'.records)
      BY <2>1 DEF Position, Buffered
    <3>. QED BY <2>1, <3>1
  <2>. QED BY <2>1
<1>99. ASSUME pc' = "done" PROVE FlightInv'
  BY <1>99 DEF FlightInv, InFlight, Reassembling
<1>98. ASSUME pc' \in InFlight, Somewhere',
              pc' # "robot" => saw' = FALSE
       PROVE  FlightInv'
  BY <1>98 DEF FlightInv, InFlight, Reassembling
<1>97. ASSUME pc \in InFlight
       PROVE  /\ \E k \in 0..Len(server.flight), r \in 0..Len(server.records) : Position(k, r)
              /\ pc # "robot" => saw = FALSE
  BY <1>97 DEF FlightInv, InFlight, Reassembling
<1>. HIDE DEF Somewhere
<1>1. CASE Dial BY <1>1 DEF Dial, FlightInv, network, reader, InFlight, Reassembling
<1>2. CASE DialFails BY <1>2, <1>99 DEF DialFails, Return
<1>3. CASE SendHello
  <2>1. Position(0, 0)' BY <1>3, PositionAtStart
  <2>2. pc' \in InFlight /\ saw' = FALSE
    BY <1>3 DEF SendHello, FlightInv, InFlight, Reassembling
  <2>. QED BY <1>0, <1>98, <2>1, <2>2
<1>4. CASE SendFails BY <1>4, <1>99 DEF SendFails, Return
<1>5. CASE NextRecord
  <2>1. CASE pc' = "done" BY <1>99, <2>1
  <2>2. CASE pc' # "done"
    <3>1. /\ pc \in Reassembling /\ inbox # <<>> /\ inbox' = Tail(inbox)
          /\ buf' = buf \o Head(inbox).cells /\ pc' = pc /\ saw' = saw
          /\ UNCHANGED <<fixed, pc, coming, ended, transcript, saw, rsaPub>> /\ count' = count
      BY <1>5, <2>2 DEF NextRecord, Return
    <3>2. pc \in InFlight /\ pc # "robot" BY <3>1 DEF InFlight, Reassembling
    <3>3. PICK k, r : Position(k, r) BY <1>97, <3>2
    <3>4. Position(k, r + 1)' BY <3>1, <3>2, <3>3, PositionAfterRecord
    <3>. QED BY <1>0, <1>97, <1>98, <3>1, <3>2, <3>4
  <2>. QED BY <2>1, <2>2
<1>6. CASE TakeServerHello
  <2>1. CASE pc' = "done" BY <1>99, <2>1
  <2>2. CASE pc' # "done"
    <3>1. /\ pc = "ServerHello" /\ Complete /\ buf' = Rest /\ pc' = "Certificate"
          /\ transcript' = Append(transcript, Message) /\ saw' = saw
          /\ UNCHANGED <<fixed, network, count>>
      BY <1>6, <2>2 DEF TakeServerHello, Take, Return
    <3>2. pc \in InFlight /\ pc' \in InFlight /\ pc \in Reassembling
      BY <3>1 DEF InFlight, Reassembling
    <3>3. PICK k, r : Position(k, r) BY <1>97, <3>2
    <3>4. Usable(server) => Progress(k + 1)'
      BY <3>1, <3>3 DEF Position, Progress, Reassembling
    <3>5. Position(k + 1, r)'
      BY <3>1, <3>2, <3>3, <3>4, PositionAfterMessage
    <3>. QED BY <1>0, <1>97, <1>98, <3>1, <3>2, <3>5
  <2>. QED BY <2>1, <2>2
<1>7. CASE TakeCertificate
  <2>1. CASE pc' = "done" BY <1>99, <2>1
  <2>2. CASE pc' # "done"
    <3>1. /\ pc = "Certificate" /\ Complete /\ buf' = Rest
          /\ pc' = (IF server.suite = "ecdhe" THEN "ServerKeyExchange" ELSE "SkipToDone")
          /\ transcript' = Append(transcript, Message) /\ saw' = saw
          /\ UNCHANGED <<fixed, network, count>> /\ server' = server
      BY <1>7, <2>2 DEF TakeCertificate, Take, Return, fixed
    <3>2. pc \in InFlight /\ pc' \in InFlight \ {"robot", "send"} /\ pc \in Reassembling
      BY <3>1 DEF InFlight, Reassembling
    <3>3. PICK k, r : Position(k, r) BY <1>97, <3>2
    <3>4. Usable(server) => Progress(k + 1)'
      BY <3>1, <3>3, UsableFlight DEF Position, Progress, Reassembling, TypeInv, TypeOK
    <3>5. Position(k + 1, r)'
      BY <3>1, <3>2, <3>3, <3>4, PositionAfterMessage
    <3>. QED BY <1>0, <1>97, <1>98, <3>1, <3>2, <3>5
  <2>. QED BY <2>1, <2>2
<1>8. CASE TakeServerKeyExchange
  <2>1. CASE pc' = "done" BY <1>99, <2>1
  <2>2. CASE pc' # "done"
    <3>1. /\ pc = "ServerKeyExchange" /\ Complete /\ buf' = Rest /\ pc' = "SkipToDone"
          /\ transcript' = Append(transcript, Message) /\ saw' = saw
          /\ UNCHANGED <<fixed, network, count>> /\ server' = server
          /\ Message.type = "ServerKeyExchange"
      BY <1>8, <2>2 DEF TakeServerKeyExchange, Take, Return, fixed
    <3>2. pc \in InFlight /\ pc' \in InFlight /\ pc \in Reassembling
      BY <3>1 DEF InFlight, Reassembling
    <3>3. PICK k, r : Position(k, r) BY <1>97, <3>2
    <3>4. Usable(server) => Progress(k + 1)'
      <4>. SUFFICES ASSUME Usable(server) PROVE Progress(k + 1)'  OBVIOUS
      <4>1. k = 2 /\ server \in Servers BY <3>1, <3>3 DEF Position, Progress, TypeInv, TypeOK
      <4>2. /\ k + 1 \in 1..Len(server.flight) /\ Message = server.flight[k + 1]
        BY <3>1, <3>3, TakingAdvances DEF Position, TypeInv
      <4>3. k + 1 # Len(server.flight) BY <3>1, <4>1, <4>2, UsableFlight
      <4>4. k + 1 >= 2 /\ k + 1 < Len(server.flight) BY <4>1, <4>2, <4>3, UsableFlight
      <4>. QED BY <3>1, <4>4 DEF Progress
    <3>5. Position(k + 1, r)'
      BY <3>1, <3>2, <3>3, <3>4, PositionAfterMessage
    <3>. QED BY <1>0, <1>97, <1>98, <3>1, <3>2, <3>5
  <2>. QED BY <2>1, <2>2
<1>9. CASE SkipToDone
  <2>1. /\ pc = "SkipToDone" /\ Complete /\ buf' = Rest
        /\ pc' = (IF Message.type = "ServerHelloDone" THEN "send" ELSE pc)
        /\ transcript' = Append(transcript, Message) /\ saw' = saw
        /\ UNCHANGED <<fixed, network, count>> /\ server' = server
    BY <1>9 DEF SkipToDone, Take, fixed
  <2>2. pc \in InFlight /\ pc' \in InFlight \ {"robot"} /\ pc \in Reassembling
    BY <2>1 DEF InFlight, Reassembling
  <2>3. PICK k, r : Position(k, r) BY <1>97, <2>2
  <2>4. Usable(server) => Progress(k + 1)'
    <3>. SUFFICES ASSUME Usable(server) PROVE Progress(k + 1)'  OBVIOUS
    <3>1. k >= 2 /\ server \in Servers
      BY <2>1, <2>3 DEF Position, Progress, TypeInv, TypeOK
    <3>2. /\ k + 1 \in 1..Len(server.flight) /\ Message = server.flight[k + 1]
      BY <2>1, <2>3, TakingAdvances DEF Position, TypeInv
    <3>3. Message.type = "ServerHelloDone" <=> k + 1 = Len(server.flight)
      BY <3>1, <3>2, UsableFlight
    <3>4. k \in Nat /\ k + 1 >= 2 /\ k + 1 <= Len(server.flight) /\ Len(server.flight) \in Nat
      BY <2>3, <3>1, <3>2, UsableFlight DEF Position, Buffered
    <3>. QED BY <2>1, <3>3, <3>4 DEF Progress
  <2>5. Position(k + 1, r)'
    BY <2>1, <2>2, <2>3, <2>4, PositionAfterMessage
  <2>. QED BY <1>0, <1>97, <1>98, <2>1, <2>2, <2>5
<1>10. CASE SendFinished BY <1>10 DEF SendFinished, FlightInv, InFlight, Reassembling
<1>11. CASE SendFinishedFails BY <1>11, <1>99 DEF SendFinishedFails, Return
<1>12. CASE ReadFinished
  BY <1>12 DEF ReadFinished, Return, FlightInv, InFlight, Reassembling
<1>13. CASE RobotRecord
  <2>1. CASE pc' = "done" BY <1>99, <2>1
  <2>2. CASE pc' # "done"
    <3>1. /\ pc = "robot" /\ inbox # <<>> /\ inbox' = Tail(inbox)
          /\ buf' = buf \o Head(inbox).cells /\ pc' = pc
          /\ UNCHANGED <<fixed, pc, coming, ended, transcript, saw, rsaPub>>
          /\ count' = count + 1
      BY <1>13, <2>2 DEF RobotRecord, Return
    <3>2. pc \in InFlight /\ pc \in Reassembling \cup {"robot"}
      BY <3>1 DEF InFlight, Reassembling
    <3>3. PICK k, r : Position(k, r) BY <1>97, <3>2
    <3>4. Position(k, r + 1)' BY <3>1, <3>2, <3>3, PositionAfterRecord
    <3>. QED BY <1>0, <1>98, <3>1, <3>2, <3>4
  <2>. QED BY <2>1, <2>2
<1>14. CASE RobotMessage
  <2>1. CASE pc' = "done" BY <1>99, <2>1
  <2>2. CASE pc' # "done"
    <3>1. /\ pc = "robot" /\ Complete /\ buf' = Rest /\ pc' = pc
          /\ UNCHANGED <<fixed, network, count>> /\ server' = server
          /\ saw' = (saw \/ Message.type = "ServerHello")
          /\ rsaPub' = (rsaPub \/ (Message.type = "Certificate" /\ parseLeafRSAKey(server)))
          /\ Message.type # "ServerHelloDone"
      BY <1>14, <2>2 DEF RobotMessage, Return, fixed
    <3>2. pc \in InFlight /\ pc \in Reassembling \cup {"robot"} /\ pc' \in InFlight
      BY <3>1 DEF InFlight, Reassembling
    <3>3. PICK k, r : Position(k, r) BY <1>97, <3>2
    <3>4. Usable(server) => Progress(k + 1)'
      <4>. SUFFICES ASSUME Usable(server) PROVE Progress(k + 1)'  OBVIOUS
      <4>1. /\ server \in Servers /\ k \in Nat /\ saw \in BOOLEAN /\ rsaPub \in BOOLEAN
            /\ k >= 1 => saw
            /\ k >= 2 /\ server.leaf = "RSA" => rsaPub
        BY <3>1, <3>3 DEF Position, Progress, Buffered, TypeInv, TypeOK
      <4>2. /\ k + 1 \in 1..Len(server.flight) /\ Message = server.flight[k + 1]
        BY <3>1, <3>3, TakingAdvances DEF Position, TypeInv
      <4>3. k + 1 # Len(server.flight) BY <3>1, <4>1, <4>2, UsableFlight
      <4>4. k + 1 < Len(server.flight) BY <4>1, <4>2, <4>3, UsableFlight
      <4>5. saw'
        <5>1. CASE k = 0
          <6>1. Message = server.flight[1] BY <4>2, <5>1
          <6>2. Message.type = "ServerHello" BY <4>1, <6>1, UsableFlight
          <6>. QED BY <3>1, <6>2
        <5>2. CASE k # 0 BY <3>1, <4>1, <5>2
        <5>. QED BY <5>1, <5>2
      <4>6. k + 1 >= 2 /\ server.leaf = "RSA" => rsaPub'
        <5>1. CASE k = 1
          <6>1. Message = server.flight[2] BY <4>2, <5>1
          <6>2. Message.type = "Certificate" BY <4>1, <6>1, UsableFlight
          <6>. QED BY <3>1, <6>2 DEF parseLeafRSAKey
        <5>2. CASE k # 1 BY <3>1, <4>1, <5>2
        <5>. QED BY <5>1, <5>2
      <4>. QED BY <3>1, <4>4, <4>5, <4>6 DEF Progress
    <3>5. Position(k + 1, r)'
      BY <3>1, <3>2, <3>3, <3>4, PositionAfterMessage
    <3>. QED BY <1>0, <1>98, <3>1, <3>2, <3>5
  <2>. QED BY <2>1, <2>2
<1>15. CASE RobotGivesUp BY <1>15, <1>99 DEF RobotGivesUp, Return
<1>16. CASE ReadFails BY <1>16, <1>99 DEF ReadFails, Return
<1>17. CASE Deliver \/ End \/ Tick \/ UNCHANGED vars
  <2>1. pc' = pc /\ saw' = saw BY <1>17 DEF Deliver, End, Tick, vars, reader
  <2>2. CASE pc \in InFlight
    <3>1. PICK k, r : Position(k, r) BY <1>97, <2>2
    <3>2. Position(k, r)' BY <1>17, <2>2, <3>1, PositionKept
    <3>. QED BY <1>0, <1>97, <1>98, <2>1, <2>2, <3>2
  <2>3. CASE pc \notin InFlight
    <3>1. pc \in {"dial", "hello"} => coming' = coming /\ inbox' \in {inbox, <<>>}
            /\ buf' = buf /\ count' = count
      BY <1>17 DEF FlightInv, Deliver, End, Tick, vars, network, reader
    <3>. QED BY <2>1, <2>3, <3>1 DEF FlightInv, InFlight, Reassembling
  <2>. QED BY <2>2, <2>3
<1>. QED BY <1>1, <1>2, <1>3, <1>4, <1>5, <1>6, <1>7, <1>8, <1>9, <1>10, <1>11, <1>12,
            <1>13, <1>14, <1>15, <1>16, <1>17
         DEF Next, Step, Terminated

\* Neither are there cells to come when all records were read.
LEMMA NothingLeft ==
  ASSUME TypeOK, NEW k, NEW r, Buffered(k, r), ~Refuses(server),
         r = Len(server.records), k # Len(server.flight)
  PROVE  Complete
<1>1. server \in Servers /\ buf \in Seq(Cells) BY DEF TypeOK
<1>. DEFINE wire == Flattened(server.flight)
            n    == Len(server.flight)
            m    == server.flight[k + 1]
<1>2. /\ server.flight \in Seq(Messages) /\ wire \in Seq(Cells)
      /\ Starts(server, n) = Len(wire)
      /\ \A j \in 0..n : Starts(server, j) \in 0..Len(wire)
      /\ \A j \in 1..n :
           /\ Starts(server, j) = Starts(server, j - 1) + server.flight[j].len
           /\ \A i \in 1..server.flight[j].len :
                wire[Starts(server, j - 1) + i]
                  = [type |-> server.flight[j].type, len |-> server.flight[j].len, at |-> i]
  BY <1>1, FlightLies
<1>3. Ends(server, r) = Len(wire) BY <1>1, RecordsLie
<1>4. /\ k \in 0..n /\ n \in Nat /\ Len(wire) \in Nat /\ Len(buf) \in Nat
      /\ Len(buf) = Ends(server, r) - Starts(server, k)
      /\ \A i \in 1..Len(buf) : buf[i] = wire[Starts(server, k) + i]
  BY <1>1, <1>2 DEF Buffered
<1>5. k + 1 \in DOMAIN server.flight BY <1>2, <1>4
<1>6. m \in Messages /\ m.len >= 2
  <2>1. m \in Messages BY <1>2, <1>5
  <2>2. m.len >= 2 BY <1>1, <1>5, ServersAssumption DEF HeaderLen
  <2>. QED BY <2>1, <2>2
<1>. HIDE DEF wire, n
<1>7. k + 1 \in 1..n /\ k + 1 \in 0..n /\ (k + 1) - 1 = k BY <1>4 DEF n
<1>8. /\ Starts(server, k + 1) = Starts(server, k) + m.len
      /\ \A i \in 1..m.len :
           wire[Starts(server, k) + i] = [type |-> m.type, len |-> m.len, at |-> i]
  BY <1>2, <1>7
<1>9. Starts(server, k + 1) \in 0..Len(wire) /\ Starts(server, k) \in 0..Len(wire)
  BY <1>2, <1>4, <1>7
<1>. HIDE DEF m
<1>10. m.len \in Nat BY <1>6 DEF Messages
<1>11. Len(buf) >= m.len /\ Len(buf) >= 2
  BY <1>3, <1>4, <1>6, <1>8, <1>9, <1>10
<1>12. buf[1] = [type |-> m.type, len |-> m.len, at |-> 1]
  BY <1>4, <1>6, <1>8, <1>10, <1>11
<1>. QED BY <1>11, <1>12 DEF Complete, HeaderLen

\* The server's transcript is what the client has hashed when it has taken the
\* whole flight.
LEMMA WholeTranscript ==
  ASSUME TypeOK, Hashed(Len(server.flight))
  PROVE  Append(transcript, Hello("ClientKeyExchange")) = ServerTranscript(server)
<1>. DEFINE x == Hello("ClientHello")
            y == Hello("ClientKeyExchange")
            f == server.flight
            n == Len(f)
            u == <<x>> \o f
            t == u \o <<y>>
            a == Append(transcript, y)
<1>1. f \in Seq(Messages) /\ transcript \in Seq(Messages) BY FlightLies DEF TypeOK
<1>2. x \in Messages /\ y \in Messages BY DEF Hello, Messages, HeaderLen, Types
<1>3. ServerTranscript(server) = t BY DEF ServerTranscript
<1>4. /\ Len(transcript) = n + 1 /\ transcript[1] = x
      /\ \A i \in 1..n : transcript[i + 1] = f[i]
  BY DEF Hashed
<1>5. n \in Nat BY <1>1
<1>. HIDE DEF x, y, f
<1>6. u \in Seq(Messages) /\ Len(u) = n + 1 /\ u[1] = x /\ \A i \in 1..n : u[i + 1] = f[i]
  BY <1>1, <1>2
<1>7. \A i \in 1..(n + 1) : u[i] = transcript[i]
  <2>1. ASSUME NEW i \in 1..(n + 1), i # 1 PROVE u[i] = transcript[i]
    <3>1. i - 1 \in 1..n /\ (i - 1) + 1 = i BY <1>5, <2>1
    <3>. QED BY <1>4, <1>6, <3>1
  <2>. QED BY <1>4, <1>6, <2>1
<1>. HIDE DEF u, n
<1>8. u = transcript BY <1>1, <1>4, <1>6, <1>7
<1>9. t = a BY <1>1, <1>2, <1>8
<1>. QED BY <1>3, <1>9 DEF t, a, y

\* If no record is empty, the client that has taken the whole flight has read
\* every record of it.
LEMMA WholeFlightRead ==
  ASSUME TypeOK, NEW r, Buffered(Len(server.flight), r),
         \A i \in DOMAIN server.records : IsHandshake(server.records[i])
  PROVE  r = Len(server.records)
<1>1. server \in Servers /\ buf \in Seq(Cells) BY DEF TypeOK
<1>. DEFINE n == Len(server.records)
            w == Len(Flattened(server.flight))
<1>2. /\ server.records \in Seq(Records)
      /\ Ends(server, n) <= w
      /\ \A j \in 0..n : Ends(server, j) \in 0..Ends(server, n)
      /\ \A j \in 1..n :
           /\ server.records[j].cells \in Seq(Cells)
           /\ Ends(server, j) = Ends(server, j - 1) + Len(server.records[j].cells)
  BY <1>1, RecordsLie
<1>3. /\ r \in 0..n /\ Len(buf) \in Nat
      /\ Len(buf) = Ends(server, r) - w
  BY <1>1, FlightLies DEF Buffered
<1>4. w \in Nat BY <1>1, FlightLies
<1>5. n \in Nat BY <1>2
<1>. SUFFICES ASSUME r # n PROVE FALSE  OBVIOUS
<1>6. r + 1 \in DOMAIN server.records /\ r + 1 \in 1..n /\ r + 1 \in 0..n /\ (r + 1) - 1 = r
  BY <1>2, <1>3, <1>5
<1>7. server.records[r + 1].cells # <<>> BY <1>6 DEF IsHandshake
<1>. HIDE DEF n, w
<1>8. Len(server.records[r + 1].cells) \in Nat \ {0} BY <1>2, <1>6, <1>7
<1>9. Ends(server, r + 1) = Ends(server, r) + Len(server.records[r + 1].cells)
  BY <1>2, <1>6
<1>10. Ends(server, r + 1) \in 0..Ends(server, n) /\ Ends(server, n) \in Nat
  BY <1>2, <1>5, <1>6
<1>. QED BY <1>2, <1>3, <1>4, <1>8, <1>9, <1>10

\* The answer to the Finished arrives behind the flight.
LEMMA ReactionFollows ==
  ASSUME TypeInv, NEW r, Position(Len(server.flight), r), SendFinished
  PROVE  Arriving(r)' /\ transcript' = ServerTranscript(server)
<1>1. /\ TypeOK /\ server \in Servers /\ inbox \in Seq(Records) /\ coming \in Seq(Records)
      /\ server.records \in Seq(Records)
  BY ServersAreTyped DEF TypeInv, TypeOK
<1>2. /\ pc = "send" /\ pc' = "finished" /\ server' = server
      /\ inbox' = inbox /\ ended' = ended
      /\ transcript' = Append(transcript, Hello("ClientKeyExchange"))
      /\ coming' = coming \o (IF ended = "open" THEN Reaction(server, transcript') ELSE <<>>)
  BY DEF SendFinished, fixed
<1>3. transcript' = ServerTranscript(server) BY <1>1, <1>2, WholeTranscript DEF Position
<1>. DEFINE re == Reaction(server, ServerTranscript(server))
            rs == server.records
<1>4. re \in Seq(Records) BY <1>1, ReactionIsRecords
<1>5. Sent = rs /\ Sent' = rs \o re BY <1>2 DEF Sent
<1>6. coming' = IF ended = "open" THEN coming \o re ELSE coming
  <2>1. coming \o <<>> = coming BY <1>1
  <2>2. Reaction(server, transcript') = re BY <1>3
  <2>. HIDE DEF re
  <2>. QED BY <1>2, <2>1, <2>2
<1>7. /\ r \in Nat /\ r + Len(inbox) <= Len(rs)
      /\ \A i \in 1..Len(inbox) : inbox[i] = rs[r + i]
      /\ ended # "open" => coming = <<>>
      /\ ended = "open" =>
           /\ r + Len(inbox) + Len(coming) = Len(rs)
           /\ \A i \in 1..Len(coming) : coming[i] = rs[r + Len(inbox) + i]
  BY <1>5 DEF Position, Arriving
<1>8. rs \in Seq(Records) BY <1>1
<1>. HIDE DEF re, rs
<1>9. /\ Len(rs \o re) = Len(rs) + Len(re) /\ Len(rs) \in Nat /\ Len(re) \in Nat
      /\ \A i \in 1..Len(rs) : (rs \o re)[i] = rs[i]
      /\ \A i \in 1..Len(re) : (rs \o re)[Len(rs) + i] = re[i]
      /\ Len(inbox) \in Nat /\ Len(coming) \in Nat
  BY <1>1, <1>4, <1>8
<1>10. r + Len(inbox) <= Len(rs \o re) BY <1>7, <1>9
<1>11. \A i \in 1..Len(inbox) : inbox[i] = (rs \o re)[r + i]
  <2>1. \A i \in 1..Len(inbox) : r + i \in 1..Len(rs) BY <1>7, <1>9
  <2>. QED BY <1>7, <1>9, <2>1
<1>12. ASSUME ended = "open"
       PROVE  /\ r + Len(inbox) + Len(coming') = Len(rs \o re)
              /\ \A i \in 1..Len(coming') : coming'[i] = (rs \o re)[r + Len(inbox) + i]
  <2>1. /\ Len(coming \o re) = Len(coming) + Len(re)
        /\ \A i \in 1..Len(coming) : (coming \o re)[i] = coming[i]
        /\ \A i \in 1..Len(re) : (coming \o re)[Len(coming) + i] = re[i]
    BY <1>1, <1>4
  <2>2. coming' = coming \o re BY <1>6, <1>12
  <2>3. r + Len(inbox) + Len(coming) = Len(rs) BY <1>7, <1>12
  <2>4. r + Len(inbox) + Len(coming') = Len(rs \o re)
    <3>1. /\ r \in Nat /\ Len(inbox) \in Nat /\ Len(coming) \in Nat /\ Len(re) \in Nat
          /\ Len(coming') = Len(coming) + Len(re) /\ Len(rs \o re) = Len(rs) + Len(re)
      BY <1>7, <1>9, <2>1, <2>2
    <3>. QED BY <2>3, <3>1
  <2>5. ASSUME NEW i \in 1..Len(coming') PROVE coming'[i] = (rs \o re)[r + Len(inbox) + i]
    <3>1. /\ i \in Nat /\ i >= 1 /\ i <= Len(coming) + Len(re)
          /\ i <= Len(coming) \/ i > Len(coming)
      BY <1>9, <2>1, <2>2
    <3>2. CASE i <= Len(coming)
      <4>1. i \in 1..Len(coming) /\ r + Len(inbox) + i \in 1..Len(rs)
        BY <1>7, <1>9, <2>3, <3>1, <3>2
      <4>. QED BY <1>7, <1>9, <1>12, <2>1, <2>2, <4>1
    <3>3. CASE i > Len(coming)
      <4>1. PICK d \in 1..Len(re) : i = Len(coming) + d
        <5>1. i - Len(coming) \in 1..Len(re) /\ i = Len(coming) + (i - Len(coming))
          BY <1>9, <3>1, <3>3
        <5>. QED BY <5>1
      <4>2. r + Len(inbox) + i = Len(rs) + d
        <5>1. r \in Nat /\ Len(inbox) \in Nat /\ Len(coming) \in Nat /\ d \in Nat
          BY <1>7, <1>9
        <5>. QED BY <2>3, <4>1, <5>1
      <4>. QED BY <1>9, <2>1, <2>2, <4>1, <4>2
    <3>. QED BY <3>1, <3>2, <3>3
  <2>. QED BY <2>4, <2>5
<1>13. ended # "open" => coming' = <<>> BY <1>6, <1>7
<1>14. Arriving(r)'
  BY <1>2, <1>5, <1>7, <1>10, <1>11, <1>12, <1>13 DEF Arriving
<1>. QED BY <1>3, <1>14

\* Every step after the Finished, and the one that sends it, keeps the order of
\* what the server sent.
LEMMA FinishedStep == TypeInv /\ FlightInv /\ FinishedInv /\ [Next]_vars => FinishedInv'
<1>. SUFFICES ASSUME TypeInv, FlightInv, FinishedInv, [Next]_vars, pc' = "finished"
              PROVE  /\ transcript' = ServerTranscript(server')
                     /\ ~Refuses(server')
                     /\ \E q \in Nat : Arriving(q)'
                     /\ (\A i \in DOMAIN server'.records : IsHandshake(server'.records[i]))
                          => Arriving(Len(server.records) + count)'
  BY DEF FinishedInv
<1>0. TypeOK BY DEF TypeInv
<1>1. CASE SendFinished
  <2>1. pc = "send" /\ pc \in InFlight /\ server' = server /\ count' = count /\ count = 0
    BY <1>1 DEF SendFinished, InFlight, fixed, TypeInv, CountInv
  <2>2. PICK k, r : Position(k, r) BY <2>1 DEF FlightInv
  <2>3. Position(Len(server.flight), r) BY <2>1, <2>2 DEF Position
  <2>4. Buffered(Len(server.flight), r) /\ r \in Nat BY <2>3 DEF Position, Buffered
  <2>5. ~Refuses(server) BY <1>0, <2>4, WholeFlight
  <2>6. Arriving(r)' /\ transcript' = ServerTranscript(server)
    BY <1>1, <2>3, ReactionFollows
  <2>7. (\A i \in DOMAIN server.records : IsHandshake(server.records[i]))
          => r = Len(server.records) + count
    BY <1>0, <2>1, <2>4, WholeFlightRead
  <2>8. ASSUME \A i \in DOMAIN server.records : IsHandshake(server.records[i])
        PROVE  Arriving(Len(server.records) + count)'
    <3>1. r = Len(server'.records) + count' BY <2>1, <2>7, <2>8
    <3>. QED BY <2>6, <3>1 DEF Arriving
  <2>. QED BY <2>1, <2>4, <2>5, <2>6, <2>8
<1>2. CASE ReadFinished
  <2>1. /\ pc = "finished" /\ server' = server /\ transcript' = transcript
        /\ inbox # <<>> /\ inbox' = Tail(inbox) /\ count' = count + 1
        /\ UNCHANGED <<coming, ended>>
    BY <1>2 DEF ReadFinished, fixed
  <2>2. Sent' = Sent BY <2>1 DEF Sent
  <2>3. PICK q \in Nat : Arriving(q) BY <2>1 DEF FinishedInv
  <2>4. Arriving(q + 1)' /\ q + 1 \in Nat BY <1>0, <2>1, <2>2, <2>3, ReadingAdvances
  <2>5. ASSUME \A i \in DOMAIN server.records : IsHandshake(server.records[i])
        PROVE  Arriving(Len(server.records) + count)'
    <3>1. Len(server.records) \in Nat /\ count \in Nat
      <4>1. server.records \in Seq(Records) BY ServersAreTyped DEF TypeInv, TypeOK
      <4>. QED BY <4>1 DEF TypeInv, TypeOK
    <3>2. PICK n \in Nat : n = Len(server.records) BY <3>1
    <3>3. PICK c \in Nat : c = n + count BY <3>1, <3>2
    <3>4. Arriving(c) BY <2>1, <2>5, <3>2, <3>3 DEF FinishedInv
    <3>5. Arriving(c + 1)' BY <1>0, <2>1, <2>2, <3>4, ReadingAdvances
    <3>6. c + 1 = Len(server'.records) + count'
      <4>1. Len(server'.records) = n /\ count' = count + 1 BY <2>1, <3>2
      <4>2. c + 1 = n + (count + 1) BY <3>1, <3>3
      <4>. QED BY <4>1, <4>2
    <3>. QED BY <3>5, <3>6 DEF Arriving
  <2>. QED BY <2>1, <2>4, <2>5 DEF FinishedInv
<1>3. CASE Deliver \/ End \/ Tick \/ UNCHANGED vars
  <2>1. /\ pc = "finished" /\ server' = server /\ transcript' = transcript /\ count' = count
    BY <1>3 DEF Deliver, End, Tick, vars, fixed, reader
  <2>2. Sent' = Sent BY <2>1 DEF Sent
  <2>3. ASSUME NEW q, Arriving(q) PROVE Arriving(q)'
    <3>1. CASE Deliver \/ End BY <1>0, <2>2, <2>3, <3>1, NetworkKeepsOrder
    <3>2. CASE Tick \/ UNCHANGED vars
      <4>1. inbox' = inbox /\ coming' = coming /\ ended' = ended
        BY <3>2 DEF Tick, vars, network
      <4>. QED BY <2>2, <2>3, <4>1 DEF Arriving
    <3>. QED BY <1>3, <3>1, <3>2
  <2>4. ASSUME \A i \in DOMAIN server.records : IsHandshake(server.records[i])
        PROVE  Arriving(Len(server.records) + count)'
    <3>1. PICK c : c = Len(server.records) + count OBVIOUS
    <3>2. Arriving(c) BY <2>1, <2>4, <3>1 DEF FinishedInv
    <3>3. Arriving(c)' BY <2>3, <3>2
    <3>4. c = Len(server'.records) + count' BY <2>1, <3>1
    <3>. QED BY <3>3, <3>4 DEF Arriving
  <2>. QED BY <2>1, <2>3, <2>4 DEF FinishedInv
<1>4. CASE Step /\ ~SendFinished /\ ~ReadFinished
  BY <1>4 DEF Step, Dial, DialFails, SendHello, SendFails, NextRecord, TakeServerHello,
       TakeCertificate, TakeServerKeyExchange, SkipToDone, Take, SendFinishedFails,
       RobotRecord, RobotMessage, RobotGivesUp, ReadFails, Return, Reassembling
<1>. QED BY <1>1, <1>2, <1>3, <1>4 DEF Next, Terminated

LEMMA StreamInvariant == Spec => []StreamInv
<1>1. Init => StreamInv
  BY DEF Init, StreamInv, FlightInv, FinishedInv, InFlight, Reassembling
<1>2. TypeInv /\ StreamInv /\ [Next]_vars => StreamInv'
  BY FlightStep, FinishedStep DEF StreamInv
<1>. QED BY <1>1, <1>2, TypeInvariant, PTL DEF Spec

\* TranscriptAgrees: whatever the server sends, however it is cut into records
\* and wherever the connection breaks, the transcript a client finishes with is
\* the one the server has.
THEOREM TranscriptTheorem == Spec => []TranscriptAgrees
<1>1. StreamInv => TranscriptAgrees BY DEF StreamInv, FinishedInv, TranscriptAgrees
<1>. QED BY <1>1, StreamInvariant, PTL

----------------------------------------------------------------------------
(* The contract. *)

\* Who does not accept the Finished sends no ChangeCipherSpec.
LEMMA RefusalsAreClear ==
  ASSUME NEW s \in Servers, NEW t, ~Accepts(s, t), NEW i \in 1..Len(Reaction(s, t))
  PROVE  Reaction(s, t)[i].content # "ccs"
<1>1. Reaction(s, t) = Refusals[s.refuse] BY DEF Reaction
<1>2. s.refuse \in {"alert", "request", "silence"}
  BY ServersAreTyped DEF Refusals
<1>3. CASE s.refuse = "alert"
  <2>1. Refusals[s.refuse] = <<Opaque("alert")>> BY <1>3 DEF Refusals
  <2>2. i = 1 BY <1>1, <2>1
  <2>. QED BY <1>1, <2>1, <2>2 DEF Opaque
<1>4. CASE s.refuse = "request"
  <2>1. Refusals[s.refuse] = <<Opaque("handshake"), Opaque("alert")>> BY <1>4 DEF Refusals
  <2>2. i \in {1, 2} BY <1>1, <2>1
  <2>. QED BY <1>1, <2>1, <2>2 DEF Opaque
<1>5. CASE s.refuse = "silence"
  <2>1. Refusals[s.refuse] = <<>> BY <1>5 DEF Refusals
  <2>. QED BY <1>1, <2>1
<1>. QED BY <1>2, <1>3, <1>4, <1>5

\* What a client has found is there: a ChangeCipherSpec read after the Finished
\* comes from a server that accepted it, a key from a leaf that has one.
OutcomeInv ==
  /\ pc # "done" => result = "none"
  /\ pc = "finished" /\ saw => Accepts(server, ServerTranscript(server))
  /\ rsaPub => server.leaf = "RSA"
  /\ result = "session" => Accepts(server, ServerTranscript(server))
  /\ result \in {"key", "partial"} => server.leaf = "RSA"

\* A ChangeCipherSpec that arrives after the Finished says that it was accepted.
LEMMA ChangeMeansAccepted ==
  ASSUME TypeInv, FinishedInv, pc = "finished", inbox # <<>>, Head(inbox).content = "ccs"
  PROVE  Accepts(server, ServerTranscript(server))
<1>. DEFINE rs == server.records
            re == Reaction(server, ServerTranscript(server))
<1>1. server \in Servers /\ TypeOK BY DEF TypeInv, TypeOK
<1>2. PICK q \in Nat : Arriving(q) BY DEF FinishedInv
<1>3. rs \in Seq(Records) /\ re \in Seq(Records) BY <1>1, ServersAreTyped, ReactionIsRecords
<1>4. Sent = rs \o re BY DEF Sent
<1>5. inbox \in Seq(Records) /\ Len(inbox) >= 1 /\ Head(inbox) = inbox[1]
  BY <1>1 DEF TypeOK
<1>6. \A i \in DOMAIN rs : rs[i].content = "handshake" BY DEF FinishedInv, Refuses
<1>. HIDE DEF rs, re
<1>7. q + Len(inbox) <= Len(rs \o re) /\ \A i \in 1..Len(inbox) : inbox[i] = (rs \o re)[q + i]
  BY <1>2, <1>4 DEF Arriving
<1>8. /\ Len(rs \o re) = Len(rs) + Len(re) /\ Len(rs) \in Nat /\ Len(re) \in Nat
      /\ \A i \in 1..Len(rs) : (rs \o re)[i] = rs[i]
      /\ \A i \in 1..Len(re) : (rs \o re)[Len(rs) + i] = re[i]
  BY <1>3
<1>9. q + 1 <= Len(rs) + Len(re) /\ Head(inbox) = (rs \o re)[q + 1]
  <2>1. 1 \in 1..Len(inbox) /\ Len(inbox) \in Nat BY <1>5
  <2>. QED BY <1>5, <1>7, <1>8, <2>1
<1>10. CASE q + 1 <= Len(rs)
  <2>1. q + 1 \in 1..Len(rs) BY <1>8, <1>10
  <2>2. q + 1 \in DOMAIN rs BY <1>3, <2>1
  <2>. QED BY <1>6, <1>8, <1>9, <2>1, <2>2
<1>11. CASE ~(q + 1 <= Len(rs))
  <2>1. PICK d \in 1..Len(re) : q + 1 = Len(rs) + d
    <3>1. (q + 1) - Len(rs) \in 1..Len(re) /\ q + 1 = Len(rs) + ((q + 1) - Len(rs))
      BY <1>8, <1>9, <1>11
    <3>. QED BY <3>1
  <2>2. re[d].content = "ccs" BY <1>8, <1>9, <2>1
  <2>. QED BY <1>1, <2>1, <2>2, RefusalsAreClear DEF re
<1>. QED BY <1>10, <1>11

\* Every step keeps the outcome a true one.
LEMMA OutcomeStep == TypeInv /\ StreamInv /\ OutcomeInv /\ [Next]_vars => OutcomeInv'
<1>. SUFFICES ASSUME TypeInv, StreamInv, OutcomeInv, [Next]_vars PROVE OutcomeInv'  OBVIOUS
<1>. DEFINE ok == Accepts(server, ServerTranscript(server))
<1>0. server' = server
  BY DEF Next, Step, Dial, DialFails, SendHello, SendFails, NextRecord, TakeServerHello,
       TakeCertificate, TakeServerKeyExchange, SkipToDone, Take, SendFinished,
       SendFinishedFails, ReadFinished, RobotRecord, RobotMessage, RobotGivesUp, ReadFails,
       Deliver, End, Tick, Terminated, vars, fixed
<1>1. ok' = ok
  BY <1>0 DEF Accepts, ServerTranscript, Has
<1>. HIDE DEF ok
<1>2. /\ saw \in BOOLEAN /\ rsaPub \in BOOLEAN /\ ok \in BOOLEAN
      /\ pc \in Reassembling \cup {"send"} => saw = FALSE
      /\ pc # "done" => result = "none"
      /\ pc = "finished" /\ saw => ok
      /\ rsaPub => server.leaf = "RSA"
      /\ result = "session" => ok
      /\ result \in {"key", "partial"} => server.leaf = "RSA"
  BY DEF TypeInv, TypeOK, StreamInv, FlightInv, OutcomeInv, ok, Accepts
<1>. SUFFICES /\ pc' # "done" => result' = "none"
              /\ pc' = "finished" /\ saw' => ok
              /\ rsaPub' => server.leaf = "RSA"
              /\ result' = "session" => ok
              /\ result' \in {"key", "partial"} => server.leaf = "RSA"
  BY <1>0, <1>1 DEF OutcomeInv, ok
<1>. USE DEF Reassembling
<1>3. CASE Dial BY <1>2, <1>3 DEF Dial, reader
<1>4. CASE DialFails BY <1>2, <1>4 DEF DialFails, Return, reader
<1>5. CASE SendHello BY <1>2, <1>5 DEF SendHello
<1>6. CASE SendFails BY <1>2, <1>6 DEF SendFails, Return, reader
<1>7. CASE NextRecord BY <1>2, <1>7 DEF NextRecord, Return
<1>8. CASE TakeServerHello BY <1>2, <1>8 DEF TakeServerHello, Take, Return
<1>9. CASE TakeCertificate BY <1>2, <1>9 DEF TakeCertificate, Take, Return, parseLeafRSAKey
<1>10. CASE TakeServerKeyExchange BY <1>2, <1>10 DEF TakeServerKeyExchange, Take, Return
<1>11. CASE SkipToDone BY <1>2, <1>11 DEF SkipToDone, Take
<1>12. CASE SendFinished BY <1>2, <1>12 DEF SendFinished
<1>13. CASE SendFinishedFails BY <1>2, <1>13 DEF SendFinishedFails, Return, reader
<1>14. CASE ReadFinished
  <2>1. /\ pc = "finished" /\ inbox # <<>> /\ rsaPub' = rsaPub
        /\ saw' = (saw \/ Head(inbox).content = "ccs")
        /\ \/ saw /\ pc' = "done" /\ result' = "session"
           \/ pc' = "done" /\ result' = "none"
           \/ pc' = pc /\ result' = result
    BY <1>14 DEF ReadFinished, Proves, Return
  <2>2. Head(inbox).content = "ccs" => ok
    BY <2>1, ChangeMeansAccepted DEF StreamInv, ok
  <2>. QED BY <1>2, <2>1, <2>2
<1>15. CASE RobotRecord BY <1>2, <1>15 DEF RobotRecord, Return
<1>16. CASE RobotMessage
  <2>1. /\ pc = "robot" /\ pc' \in {"robot", "done"}
        /\ rsaPub' = (rsaPub \/ (Message.type = "Certificate" /\ parseLeafRSAKey(server)))
        /\ \/ pc' = "done" /\ result' \in {"key", "partial"} /\ rsaPub'
           \/ result' = "none"
    BY <1>2, <1>16 DEF RobotMessage, Return, KeySoFar
  <2>. QED BY <1>2, <2>1 DEF parseLeafRSAKey
<1>17. CASE RobotGivesUp BY <1>2, <1>17 DEF RobotGivesUp, Return, KeySoFar, reader
<1>18. CASE ReadFails BY <1>2, <1>18 DEF ReadFails, Return, KeySoFar, reader
<1>19. CASE Deliver BY <1>2, <1>19 DEF Deliver, reader
<1>20. CASE End BY <1>2, <1>20 DEF End, reader
<1>21. CASE Tick BY <1>2, <1>21 DEF Tick, reader
<1>22. CASE UNCHANGED vars BY <1>2, <1>22 DEF vars, reader
<1>. QED BY <1>3, <1>4, <1>5, <1>6, <1>7, <1>8, <1>9, <1>10, <1>11, <1>12, <1>13, <1>14,
            <1>15, <1>16, <1>17, <1>18, <1>19, <1>20, <1>21, <1>22
         DEF Next, Step, Terminated

LEMMA OutcomeInvariant == Spec => []OutcomeInv
<1>1. Init => OutcomeInv BY DEF Init, OutcomeInv
<1>. QED BY <1>1, OutcomeStep, TypeInvariant, StreamInvariant, PTL DEF Spec

\* The safety part of ImplementsContract: a session is claimed of a server that
\* accepts the Finished, a key of one whose certificate has one, and the client
\* decides once and in the end.
THEOREM ContractTheorem == Spec => Contract!Init /\ [][Contract!Decide]_(Contract!contractVars)
<1>. DEFINE claim(r) == CASE r = "session" -> {"session"}
                          [] r \in {"key", "partial"} -> {"key"}
                          [] OTHER -> {}
<1>1. Init => Contract!Init
  <2>. SUFFICES ASSUME Init PROVE Contract!Init  OBVIOUS
  <2>1. claim(result) = {} /\ pc # "done" BY DEF Init
  <2>2. Offers(server) \in SUBSET {"session", "key"} BY DEF Offers
  <2>. QED BY <2>1, <2>2 DEF Contract!Init
<1>2. TypeInv /\ OutcomeInv /\ OutcomeInv' /\ [Next]_vars
        => [Contract!Decide]_(Contract!contractVars)
  <2>. SUFFICES ASSUME TypeInv, OutcomeInv, OutcomeInv', [Next]_vars
                PROVE  Contract!Decide \/ UNCHANGED Contract!contractVars
    OBVIOUS
  <2>1. /\ server' = server
        /\ pc = "done" => UNCHANGED vars
    BY DEF Next, Step, Dial, DialFails, SendHello, SendFails, NextRecord, TakeServerHello,
         TakeCertificate, TakeServerKeyExchange, SkipToDone, Take, SendFinished,
         SendFinishedFails, ReadFinished, RobotRecord, RobotMessage, RobotGivesUp, ReadFails,
         Deliver, End, Tick, Terminated, Reading, Blocked, Reassembling, vars, fixed
  <2>2. /\ Offers(server)' = Offers(server)
        /\ Accepts(server, ServerTranscript(server))' = Accepts(server, ServerTranscript(server))
    BY <2>1 DEF Offers, Accepts, ServerTranscript, Has
  <2>3. CASE pc = "done"
    <3>1. pc' = pc /\ result' = result BY <2>1, <2>3 DEF vars
    <3>. QED BY <2>2, <3>1 DEF Contract!contractVars
  <2>4. CASE pc # "done" /\ pc' # "done"
    <3>1. result = "none" /\ result' = "none" BY <2>4 DEF OutcomeInv
    <3>. QED BY <2>2, <2>4, <3>1 DEF Contract!contractVars
  <2>5. CASE pc # "done" /\ pc' = "done"
    <3>1. claim(result') \subseteq Offers(server)
      BY <2>1, <2>2 DEF OutcomeInv, Offers
    <3>. QED BY <2>2, <2>5, <3>1 DEF Contract!Decide
  <2>. QED BY <2>3, <2>4, <2>5
<1>. QED BY <1>1, <1>2, TypeInvariant, OutcomeInvariant, PTL DEF Spec

----------------------------------------------------------------------------
(* What a client finds. *)

\* The two deadlines are the same until the Finished is sent.
DeadlineInv ==
  /\ pc = "dial" => readBy = 0
  /\ pc \in InFlight \cup {"hello"} => writeBy = readBy

LEMMA DeadlineStep == TypeInv /\ DeadlineInv /\ [Next]_vars => DeadlineInv'
<1>. SUFFICES ASSUME TypeInv, DeadlineInv, [Next]_vars PROVE DeadlineInv'  OBVIOUS
<1>. USE DEF DeadlineInv, InFlight, Reassembling, clock, Return
<1>1. CASE Dial BY <1>1 DEF Dial
<1>2. CASE DialFails BY <1>2 DEF DialFails
<1>3. CASE SendHello BY <1>3 DEF SendHello
<1>4. CASE SendFails BY <1>4 DEF SendFails
<1>5. CASE NextRecord BY <1>5 DEF NextRecord
<1>6. CASE TakeServerHello BY <1>6 DEF TakeServerHello, Take
<1>7. CASE TakeCertificate BY <1>7 DEF TakeCertificate, Take
<1>8. CASE TakeServerKeyExchange BY <1>8 DEF TakeServerKeyExchange, Take
<1>9. CASE SkipToDone BY <1>9 DEF SkipToDone, Take
<1>10. CASE SendFinished BY <1>10 DEF SendFinished
<1>11. CASE SendFinishedFails BY <1>11 DEF SendFinishedFails
<1>12. CASE ReadFinished BY <1>12 DEF ReadFinished
<1>13. CASE RobotRecord BY <1>13 DEF RobotRecord
<1>14. CASE RobotMessage BY <1>14 DEF RobotMessage
<1>15. CASE RobotGivesUp BY <1>15 DEF RobotGivesUp
<1>16. CASE ReadFails BY <1>16 DEF ReadFails
<1>17. CASE Deliver \/ End BY <1>17 DEF Deliver, End
<1>18. CASE Tick BY <1>18 DEF Tick
<1>19. CASE UNCHANGED vars BY <1>19 DEF vars
<1>. QED BY <1>1, <1>2, <1>3, <1>4, <1>5, <1>6, <1>7, <1>8, <1>9, <1>10, <1>11, <1>12,
            <1>13, <1>14, <1>15, <1>16, <1>17, <1>18, <1>19
         DEF Next, Step, Terminated

\* Of a clear flight that is not complete there is a record to come.
LEMMA MoreToRead ==
  ASSUME TypeOK, NEW limit, Clear(server, limit), NEW k, NEW r, Buffered(k, r),
         k # Len(server.flight), ~Complete
  PROVE  r < Len(server.records)
<1>1. ~Refuses(server) BY DEF Clear, Refuses, IsHandshake
<1>2. r # Len(server.records) BY <1>1, NothingLeft
<1>3. r \in 0..Len(server.records) BY DEF Buffered
<1>4. server.records \in Seq(Records) BY ServersAreTyped DEF TypeOK
<1>. QED BY <1>2, <1>3, <1>4

\* While the connection is open a record to come is on its way, or has arrived.
LEMMA NotForgotten ==
  ASSUME TypeOK, NEW q, Arriving(q), q < Len(Sent), ended = "open"
  PROVE  coming # <<>> \/ inbox # <<>>
<1>1. q + Len(inbox) + Len(coming) = Len(Sent) /\ q \in Nat BY DEF Arriving
<1>. SUFFICES ASSUME coming = <<>>, inbox = <<>> PROVE FALSE  OBVIOUS
<1>2. Len(inbox) = 0 /\ Len(coming) = 0 OBVIOUS
<1>. QED BY <1>1, <1>2

\* No part of a clear flight is too long for a buffer that holds the whole.
LEMMA Fits ==
  ASSUME NEW s \in Servers, NEW limit \in Nat, Clear(s, limit),
         NEW k \in 0..Len(s.flight), NEW r \in 0..Len(s.records)
  PROVE  Ends(s, r) - Starts(s, k) <= limit
<1>1. Starts(s, k) \in Nat BY FlightLies
<1>2. Ends(s, r) \in 0..Ends(s, Len(s.records)) /\ Ends(s, Len(s.records)) = Len(Carried(s.records))
  BY RecordsLie
<1>3. Len(Carried(s.records)) <= limit BY DEF Clear
<1>4. Ends(s, Len(s.records)) \in Nat
  <2>1. s.records \in Seq(Records) BY RecordsLie
  <2>2. Len(s.records) \in 0..Len(s.records) BY <2>1
  <2>. QED BY <2>2, RecordsLie
<1>. QED BY <1>1, <1>2, <1>3, <1>4

LEMMA DeadlineInvariant == Spec => []DeadlineInv
<1>1. Init => DeadlineInv BY DEF Init, DeadlineInv, InFlight, Reassembling
<1>. QED BY <1>1, DeadlineStep, TypeInvariant, PTL DEF Spec

\* The servers the two properties are about.
KeyDue ==
  /\ client = "robot" /\ server.leaf = "RSA" /\ Usable(server) /\ Clear(server, MaxBuf)
  /\ Len(server.records) <= RobotRecords
SessionDue == client = "cbc" /\ Usable(server) /\ Clear(server, 2 * MaxBuf)

\* The server said all it had to, and in time.
InTime == ended = "open" /\ now < readBy

\* A server that accepts sends the ChangeCipherSpec last but one.
LEMMA AcceptancesEnd ==
  ASSUME NEW s \in Servers
  PROVE  LET a == Acceptances[s.accept]
         IN  /\ Len(a) \in 2..FinishedRecords
             /\ \A i \in 1..Len(a) :
                  /\ i < Len(a) - 1 => a[i].content = "handshake"
                  /\ i = Len(a) - 1 => a[i].content = "ccs"
                  /\ i = Len(a) => a[i].content \in {"handshake", "data"}
<1>. USE DEF FinishedRecords, Opaque
<1>1. s.accept \in {"finished", "ticket", "tickets", "data"}
  BY ServersAreTyped DEF Acceptances
<1>2. CASE s.accept = "finished"
  <2>1. Acceptances[s.accept] = <<Opaque("ccs"), Opaque("handshake")>>
    BY <1>2 DEF Acceptances
  <2>. QED BY <2>1
<1>3. CASE s.accept = "ticket"
  <2>1. Acceptances[s.accept] = <<Opaque("handshake"), Opaque("ccs"), Opaque("handshake")>>
    BY <1>3 DEF Acceptances
  <2>. QED BY <2>1
<1>4. CASE s.accept = "tickets"
  <2>1. Acceptances[s.accept] = <<Opaque("handshake"), Opaque("handshake"),
          Opaque("handshake"), Opaque("handshake"), Opaque("ccs"), Opaque("handshake")>>
    BY <1>4 DEF Acceptances
  <2>. QED BY <2>1
<1>5. CASE s.accept = "data"
  <2>1. Acceptances[s.accept] = <<Opaque("ccs"), Opaque("data")>>
    BY <1>5 DEF Acceptances
  <2>. QED BY <2>1
<1>. QED BY <1>1, <1>2, <1>3, <1>4, <1>5

\* The ROBOT client that returns in time returns the key.
LEMMA KeyIsReturned ==
  ASSUME TypeInv, TimeInv, StreamInv, DeadlineInv, [Next]_vars,
         KeyDue, pc # "done", pc' = "done", InTime'
  PROVE  result' = "key"
<1>. USE DEF Return
<1>0. /\ TypeOK /\ server \in Servers /\ client = "robot" /\ Usable(server)
      /\ Clear(server, MaxBuf) /\ server.leaf = "RSA" /\ now \in Nat
  BY DEF TypeInv, TypeOK, KeyDue
<1>1. pc \notin CbcPhases BY <1>0 DEF TimeInv
<1>2. CASE DialFails
  BY <1>0, <1>2 DEF DialFails, DeadlineInv, InTime, clock
<1>3. CASE SendFails
  BY <1>0, <1>3 DEF SendFails, DeadlineInv, InTime, WriteFails, clock, network, TypeInv, TypeOK
<1>4. CASE RobotRecord \/ RobotMessage \/ RobotGivesUp
  <2>1. pc = "robot" /\ pc \in InFlight
    BY <1>4 DEF RobotRecord, RobotMessage, RobotGivesUp, InFlight
  <2>2. PICK k, r : Position(k, r) BY <2>1 DEF StreamInv, FlightInv
  <2>3. /\ Buffered(k, r) /\ Arriving(r) /\ count = r /\ k < Len(server.flight)
        /\ k >= 1 => saw
        /\ k >= 2 => rsaPub
    BY <1>0, <2>1, <2>2 DEF Position, Progress
  <2>4. /\ k \in 0..Len(server.flight) /\ r \in 0..Len(server.records)
        /\ Len(buf) = Ends(server, r) - Starts(server, k)
    BY <2>3 DEF Buffered
  <2>5. k \in Nat /\ k # Len(server.flight)
    <3>1. Len(server.flight) \in 3..4 BY <1>0, UsableFlight
    <3>. QED BY <2>3, <2>4, <3>1
  <2>6. CASE RobotRecord
    <3>1. Sent = server.records /\ Sent' = Sent /\ UNCHANGED <<coming, ended>>
          /\ inbox # <<>> /\ inbox' = Tail(inbox) /\ ~IsHandshake(Head(inbox))
      BY <2>1, <2>6 DEF RobotRecord, Sent, fixed
    <3>2. Head(inbox) = server.records[r + 1] /\ r + 1 \in 1..Len(server.records)
      BY <1>0, <2>3, <3>1, ReadingAdvances
    <3>3. r + 1 \in DOMAIN server.records BY <1>0, <3>2, RecordsLie
    <3>. QED BY <1>0, <3>1, <3>2, <3>3 DEF Clear
  <2>7. CASE RobotMessage
    <3>1. /\ Complete /\ buf' = Rest /\ server' = server
          /\ saw' = (saw \/ Message.type = "ServerHello")
          /\ rsaPub' = (rsaPub \/ (Message.type = "Certificate" /\ parseLeafRSAKey(server)))
          /\ Message.type = "ServerHelloDone"
          /\ result' = (IF saw' /\ rsaPub' THEN "key" ELSE KeySoFar')
      BY <2>1, <2>7 DEF RobotMessage, KeySoFar, fixed
    <3>2. k + 1 \in 1..Len(server.flight) /\ Message = server.flight[k + 1]
      BY <1>0, <2>3, <3>1, TakingAdvances
    <3>3. k + 1 = Len(server.flight) /\ Len(server.flight) \in 3..4
      BY <1>0, <3>1, <3>2, UsableFlight
    <3>4. k >= 1 /\ k >= 2
      <4>1. \A x \in Nat, y \in 3..4 : x + 1 = y => x >= 1 /\ x >= 2 OBVIOUS
      <4>. QED BY <2>5, <3>3, <4>1
    <3>5. saw /\ rsaPub BY <2>3, <3>4
    <3>. QED BY <3>1, <3>5
  <2>8. CASE RobotGivesUp
    <3>1. ~Complete /\ ~MayRead BY <2>8 DEF RobotGivesUp
    <3>2. r < Len(server.records) BY <1>0, <2>3, <2>5, <3>1, MoreToRead
    <3>3. Len(buf) <= MaxBuf BY <1>0, <2>4, Fits, MaxBufAssumption
    <3>4. Len(server.records) <= RobotRecords /\ Len(server.records) \in Nat
      <4>1. server.records \in Seq(Records) BY <1>0, RecordsLie
      <4>. QED BY <4>1 DEF KeyDue
    <3>5. count < RobotRecords BY <2>3, <2>4, <3>2, <3>4 DEF RobotRecords
    <3>. QED BY <3>1, <3>3, <3>5 DEF MayRead
  <2>. QED BY <1>4, <2>6, <2>7, <2>8
<1>5. CASE ReadFails
  BY <1>0, <1>5 DEF ReadFails, InTime, clock, network, TypeInv, TypeOK
<1>6. DialFails \/ SendFails \/ RobotRecord \/ RobotMessage \/ RobotGivesUp \/ ReadFails
  BY <1>1 DEF Next, Step, Dial, SendHello, NextRecord, TakeServerHello, TakeCertificate,
       TakeServerKeyExchange, SkipToDone, Take, SendFinished, SendFinishedFails, ReadFinished,
       Deliver, End, Tick, Terminated, vars, CbcPhases, Reassembling
<1>. QED BY <1>2, <1>3, <1>4, <1>5, <1>6

\* Of the records after the Finished that the CBC client has read the last but
\* one of the acceptance is the ChangeCipherSpec.
Awaiting ==
  LET a == Acceptances[server.accept]
  IN  count < Len(a) /\ (saw <=> count = Len(a) - 1)

\* The record that comes next after the Finished is the next one of the
\* acceptance.
LEMMA NextOfAcceptance ==
  ASSUME TypeInv, StreamInv, SessionDue, pc = "finished"
  PROVE  LET a == Acceptances[server.accept]
         IN  /\ inbox # <<>> => count + 1 \in 1..Len(a) /\ Head(inbox) = a[count + 1]
             /\ ended = "open" /\ count < Len(a) => coming # <<>> \/ inbox # <<>>
<1>. DEFINE rs == server.records
            a  == Acceptances[server.accept]
<1>1. server \in Servers /\ TypeOK /\ Usable(server) BY DEF TypeInv, TypeOK, SessionDue
<1>2. Reaction(server, ServerTranscript(server)) = a
  BY <1>1, UsableFlight DEF Reaction, Accepts
<1>3. Sent = rs \o a BY <1>2 DEF Sent
<1>4. rs \in Seq(Records) /\ a \in Seq(Records) BY <1>1, ServersAreTyped, ReactionsAreRecords
<1>5. /\ Len(rs \o a) = Len(rs) + Len(a) /\ Len(rs) \in Nat /\ Len(a) \in Nat
      /\ \A i \in 1..Len(a) : (rs \o a)[Len(rs) + i] = a[i]
  <2>. HIDE DEF rs, a
  <2>. QED BY <1>4
<1>6. count \in Nat BY <1>1 DEF TypeOK
<1>7. \A i \in DOMAIN server.records : IsHandshake(server.records[i]) BY DEF SessionDue, Clear
<1>8. PICK n \in Nat : n = Len(rs) BY <1>5
<1>9. PICK c \in Nat : c = n + count BY <1>6, <1>8
<1>10. Arriving(c) BY <1>7, <1>8, <1>9 DEF StreamInv, FinishedInv
<1>11. ASSUME inbox # <<>> PROVE count + 1 \in 1..Len(a) /\ Head(inbox) = a[count + 1]
  <2>1. /\ c + Len(inbox) <= Len(rs \o a)
        /\ \A i \in 1..Len(inbox) : inbox[i] = (rs \o a)[c + i]
    BY <1>3, <1>10 DEF Arriving
  <2>2. Len(inbox) \in Nat /\ Len(inbox) >= 1 /\ Head(inbox) = inbox[1]
    BY <1>1, <1>11 DEF TypeOK
  <2>. HIDE DEF rs, a
  <2>3. Head(inbox) = (rs \o a)[c + 1] /\ c + 1 <= n + Len(a) BY <1>5, <1>8, <2>1, <2>2
  <2>4. c + 1 = n + (count + 1) BY <1>6, <1>9
  <2>5. count + 1 \in 1..Len(a) BY <1>5, <1>6, <1>9, <2>3
  <2>. QED BY <1>5, <1>8, <2>3, <2>4, <2>5
<1>12. ASSUME ended = "open", count < Len(a) PROVE coming # <<>> \/ inbox # <<>>
  <2>. HIDE DEF rs, a
  <2>1. Len(Sent) = n + Len(a) BY <1>3, <1>5, <1>8
  <2>2. c < n + Len(a) BY <1>5, <1>6, <1>9, <1>12
  <2>3. c < Len(Sent) BY <2>1, <2>2
  <2>. QED BY <1>1, <1>10, <1>12, <2>3, NotForgotten
<1>. QED BY <1>11, <1>12

\* The CBC client that returns in time returns a session.
LEMMA SessionIsReturned ==
  ASSUME TypeInv, TimeInv, StreamInv, DeadlineInv, [Next]_vars,
         SessionDue, pc = "finished" => Awaiting, pc # "done", pc' = "done", InTime'
  PROVE  result' = "session"
<1>. USE DEF Return
<1>0. /\ TypeOK /\ server \in Servers /\ client = "cbc" /\ Usable(server)
      /\ Clear(server, 2 * MaxBuf) /\ now \in Nat /\ 2 * MaxBuf \in Nat
  BY MaxBufAssumption DEF TypeInv, TypeOK, SessionDue
<1>1. pc # "robot" BY <1>0 DEF TimeInv
<1>2. CASE DialFails
  BY <1>0, <1>2 DEF DialFails, DeadlineInv, InTime, clock
<1>3. CASE SendFails \/ SendFinishedFails
  BY <1>0, <1>3 DEF SendFails, SendFinishedFails, DeadlineInv, InFlight, InTime, WriteFails,
       clock, network, TypeInv, TypeOK
<1>4. CASE NextRecord \/ TakeServerHello \/ TakeCertificate \/ TakeServerKeyExchange
  <2>1. pc \in Reassembling /\ pc \in InFlight
    BY <1>4 DEF NextRecord, TakeServerHello, TakeCertificate, TakeServerKeyExchange, Take,
         InFlight, Reassembling
  <2>2. PICK k, r : Position(k, r) BY <2>1 DEF StreamInv, FlightInv
  <2>3. /\ Buffered(k, r) /\ Arriving(r) /\ Progress(k)
        /\ k \in 0..Len(server.flight) /\ r \in 0..Len(server.records)
    BY <1>0, <2>2 DEF Position, Buffered
  <2>4. CASE NextRecord
    <3>1. /\ Sent = server.records /\ Sent' = server'.records /\ UNCHANGED <<coming, ended>>
          /\ inbox # <<>> /\ inbox' = Tail(inbox) /\ server' = server
          /\ buf' = buf \o Head(inbox).cells
          /\ ~(IsHandshake(Head(inbox)) /\ Len(buf') <= 2 * MaxBuf)
      BY <2>1, <2>4 DEF NextRecord, Sent, Reassembling, fixed
    <3>2. Head(inbox) = server.records[r + 1] /\ r + 1 \in 1..Len(server.records)
      BY <1>0, <2>3, <3>1, ReadingAdvances
    <3>3. r + 1 \in DOMAIN server.records /\ r + 1 \in 0..Len(server.records)
      BY <1>0, <3>2, RecordsLie
    <3>4. IsHandshake(Head(inbox)) BY <1>0, <3>2, <3>3 DEF Clear
    <3>5. Buffered(k, r + 1)' BY <1>0, <2>3, <3>1, <3>2, RecordFillsBuffer
    <3>6. Len(buf') = Ends(server, r + 1) - Starts(server, k) BY <3>1, <3>5 DEF Buffered
    <3>7. Len(buf') <= 2 * MaxBuf BY <1>0, <2>3, <3>3, <3>6, Fits
    <3>. QED BY <3>1, <3>4, <3>7
  <2>5. CASE TakeServerHello \/ TakeCertificate \/ TakeServerKeyExchange
    <3>1. Complete /\ buf' = Rest /\ server' = server
      BY <2>5 DEF TakeServerHello, TakeCertificate, TakeServerKeyExchange, Take, fixed
    <3>2. k + 1 \in 1..Len(server.flight) /\ Message = server.flight[k + 1]
      BY <1>0, <2>3, <3>1, TakingAdvances
    <3>3. CASE TakeServerHello
      <4>1. pc = "ServerHello"
              /\ ~(Message.type = "ServerHello" /\ parseServerHelloSuite(server))
        BY <3>3 DEF TakeServerHello, Take
      <4>2. k = 0 BY <2>3, <4>1 DEF Progress
      <4>3. Message.type = "ServerHello" BY <1>0, <3>2, <4>2, UsableFlight
      <4>4. server.suite \in {"ecdhe", "rsa"} BY <1>0, UsableFlight
      <4>. QED BY <4>1, <4>3, <4>4 DEF parseServerHelloSuite
    <3>4. CASE TakeCertificate
      <4>1. pc = "Certificate"
              /\ ~(Message.type = "Certificate"
                     /\ (server.suite = "ecdhe" \/ parseLeafRSAKey(server)))
        BY <3>4 DEF TakeCertificate, Take
      <4>2. k = 1 BY <2>3, <4>1 DEF Progress
      <4>3. Message = server.flight[2] BY <3>2, <4>2
      <4>4. Message.type = "Certificate" BY <1>0, <4>3, UsableFlight
      <4>5. server.suite = "ecdhe" \/ server.leaf = "RSA" BY <1>0, UsableFlight
      <4>. QED BY <4>1, <4>4, <4>5 DEF parseLeafRSAKey
    <3>5. CASE TakeServerKeyExchange
      <4>1. pc = "ServerKeyExchange"
              /\ ~(Message.type = "ServerKeyExchange" /\ ecdhCurve(server))
        BY <3>5 DEF TakeServerKeyExchange, Take
      <4>2. k = 2 /\ server.suite = "ecdhe" BY <2>3, <4>1 DEF Progress
      <4>3. Message = server.flight[3] BY <3>2, <4>2
      <4>4. Message.type = "ServerKeyExchange" /\ server.curve = "known"
        BY <1>0, <4>2, <4>3, UsableFlight
      <4>. QED BY <4>1, <4>4 DEF ecdhCurve
    <3>. QED BY <2>5, <3>3, <3>4, <3>5
  <2>. QED BY <1>4, <2>4, <2>5
<1>5. CASE ReadFinished
  <2>. DEFINE a == Acceptances[server.accept]
              content == Head(inbox).content
  <2>1. /\ pc = "finished" /\ inbox # <<>>
        /\ \/ result' = "session"
           \/ ~Proves(content) /\ (content = "alert" \/ count + 1 = FinishedRecords)
    BY <1>5 DEF ReadFinished
  <2>2. /\ count < Len(a) /\ (saw <=> count = Len(a) - 1)
        /\ count + 1 \in 1..Len(a) /\ content = a[count + 1].content
    BY <2>1, NextOfAcceptance DEF Awaiting
  <2>3. /\ Len(a) \in 2..FinishedRecords
        /\ \A i \in 1..Len(a) :
             /\ i < Len(a) - 1 => a[i].content = "handshake"
             /\ i = Len(a) - 1 => a[i].content = "ccs"
             /\ i = Len(a) => a[i].content \in {"handshake", "data"}
    BY <1>0, AcceptancesEnd
  <2>4. count \in Nat /\ saw \in BOOLEAN BY <1>0 DEF TypeOK
  <2>. HIDE DEF a, content
  <2>5. CASE count = Len(a) - 1
    <3>1. count + 1 = Len(a) BY <2>3, <2>4, <2>5
    <3>2. content \in {"handshake", "data"} BY <2>2, <2>3, <3>1
    <3>. QED BY <2>1, <2>2, <2>5, <3>2 DEF Proves
  <2>6. CASE count # Len(a) - 1
    <3>1. count + 1 < Len(a) /\ count + 1 < FinishedRecords
      BY <2>2, <2>3, <2>4, <2>6 DEF FinishedRecords
    <3>2. count + 1 < Len(a) - 1 \/ count + 1 = Len(a) - 1 BY <2>3, <2>4, <3>1
    <3>3. content # "alert" BY <2>2, <2>3, <3>2
    <3>. QED BY <2>1, <2>4, <3>1, <3>3 DEF FinishedRecords
  <2>. QED BY <2>5, <2>6
<1>6. CASE ReadFails
  BY <1>0, <1>6 DEF ReadFails, InTime, clock, network, TypeInv, TypeOK
<1>7. \/ DialFails \/ SendFails \/ SendFinishedFails \/ NextRecord \/ TakeServerHello
      \/ TakeCertificate \/ TakeServerKeyExchange \/ ReadFinished \/ ReadFails
  BY <1>1 DEF Next, Step, Dial, SendHello, SkipToDone, SendFinished,
       RobotRecord, RobotMessage, RobotGivesUp, Deliver, End, Tick, Terminated, vars
<1>. QED BY <1>2, <1>3, <1>4, <1>5, <1>6, <1>7

FoundInv ==
  /\ KeyDue /\ pc = "done" /\ InTime => result = "key"
  /\ SessionDue /\ pc = "done" /\ InTime => result = "session"
  /\ SessionDue /\ pc = "finished" => Awaiting

\* Every step keeps what is due due.
LEMMA FoundStep ==
  TypeInv /\ TimeInv /\ StreamInv /\ DeadlineInv /\ FoundInv /\ [Next]_vars => FoundInv'
<1>. SUFFICES ASSUME TypeInv, TimeInv, StreamInv, DeadlineInv, FoundInv, [Next]_vars
              PROVE  FoundInv'
  OBVIOUS
<1>1. server' = server /\ client' = client
  BY DEF Next, Step, Dial, DialFails, SendHello, SendFails, NextRecord, TakeServerHello,
       TakeCertificate, TakeServerKeyExchange, SkipToDone, Take, SendFinished,
       SendFinishedFails, ReadFinished, RobotRecord, RobotMessage, RobotGivesUp, ReadFails,
       Deliver, End, Tick, Terminated, vars, fixed
<1>2. (KeyDue' <=> KeyDue) /\ (SessionDue' <=> SessionDue)
  BY <1>1 DEF KeyDue, SessionDue, Usable, TypesOf, Clear
<1>3. CASE pc = "done"
  <2>1. UNCHANGED vars
    BY <1>3 DEF Next, Step, Dial, DialFails, SendHello, SendFails, NextRecord,
         TakeServerHello, TakeCertificate, TakeServerKeyExchange, SkipToDone, Take,
         SendFinished, SendFinishedFails, ReadFinished, RobotRecord, RobotMessage,
         RobotGivesUp, ReadFails, Deliver, End, Tick, Terminated, Reading, Blocked,
         Reassembling
  <2>2. pc' = pc /\ result' = result /\ now' = now /\ readBy' = readBy /\ ended' = ended
    BY <2>1 DEF vars, clock, network
  <2>. QED BY <1>2, <1>3, <2>2 DEF FoundInv, InTime
<1>4. CASE pc # "done" /\ pc' = "done"
  <2>1. SessionDue /\ pc = "finished" => Awaiting BY DEF FoundInv
  <2>. QED BY <1>2, <1>4, <2>1, KeyIsReturned, SessionIsReturned DEF FoundInv
<1>5. CASE pc # "done" /\ pc' # "done"
  <2>. SUFFICES ASSUME SessionDue, pc' = "finished" PROVE Awaiting'
    BY <1>2, <1>5 DEF FoundInv
  <2>. DEFINE a == Acceptances[server.accept]
  <2>1. /\ Len(a) \in 2..FinishedRecords
        /\ \A i \in 1..Len(a) :
             /\ i < Len(a) - 1 => a[i].content = "handshake"
             /\ i = Len(a) - 1 => a[i].content = "ccs"
             /\ i = Len(a) => a[i].content \in {"handshake", "data"}
    BY AcceptancesEnd DEF TypeInv, TypeOK
  <2>2. Acceptances[server'.accept] = a BY <1>1
  <2>3. count \in Nat /\ saw \in BOOLEAN BY DEF TypeInv, TypeOK
  <2>4. CASE SendFinished
    <3>1. count' = 0 /\ saw' = FALSE
      BY <2>4 DEF SendFinished, TypeInv, CountInv, StreamInv, FlightInv
    <3>2. 0 < Len(a) /\ 0 # Len(a) - 1 BY <2>1
    <3>. HIDE DEF a
    <3>. QED BY <2>2, <3>1, <3>2 DEF Awaiting
  <2>5. CASE ReadFinished
    <3>. DEFINE content == Head(inbox).content
    <3>1. /\ pc = "finished" /\ inbox # <<>> /\ count' = count + 1
          /\ saw' = (saw \/ content = "ccs") /\ ~Proves(content)
      BY <1>5, <2>5 DEF ReadFinished, Return
    <3>2. /\ count < Len(a) /\ (saw <=> count = Len(a) - 1)
          /\ count + 1 \in 1..Len(a) /\ content = a[count + 1].content
      BY <3>1, NextOfAcceptance DEF FoundInv, Awaiting
    <3>. HIDE DEF a, content
    <3>3. count # Len(a) - 1
      <4>. SUFFICES ASSUME count = Len(a) - 1 PROVE FALSE  OBVIOUS
      <4>1. count + 1 = Len(a) BY <2>1, <2>3
      <4>2. content \in {"handshake", "data"} BY <2>1, <3>2, <4>1
      <4>. QED BY <3>1, <3>2, <4>2 DEF Proves
    <3>4. count + 1 < Len(a) BY <2>1, <2>3, <3>2, <3>3
    <3>5. content = "ccs" <=> count + 1 = Len(a) - 1
      <4>1. count + 1 < Len(a) - 1 \/ count + 1 = Len(a) - 1 BY <2>1, <2>3, <3>4
      <4>2. count + 1 < Len(a) - 1 => count + 1 # Len(a) - 1 BY <2>1, <2>3
      <4>. QED BY <2>1, <3>2, <4>1, <4>2
    <3>6. saw' <=> count + 1 = Len(a) - 1 BY <3>1, <3>2, <3>3, <3>5
    <3>. QED BY <2>2, <3>1, <3>4, <3>6 DEF Awaiting
  <2>6. CASE Deliver \/ End \/ Tick \/ UNCHANGED vars
    <3>1. pc = "finished" /\ count' = count /\ saw' = saw
      BY <2>6 DEF Deliver, End, Tick, vars, reader
    <3>. QED BY <2>2, <3>1 DEF FoundInv, Awaiting
  <2>7. CASE Step /\ ~SendFinished /\ ~ReadFinished
    BY <2>7 DEF Step, Dial, DialFails, SendHello, SendFails, NextRecord, TakeServerHello,
         TakeCertificate, TakeServerKeyExchange, SkipToDone, Take, SendFinishedFails,
         RobotRecord, RobotMessage, RobotGivesUp, ReadFails, Return, Reassembling
  <2>. QED BY <2>4, <2>5, <2>6, <2>7 DEF Next, Terminated
<1>. QED BY <1>3, <1>4, <1>5

LEMMA FoundInvariant == Spec => []FoundInv
<1>1. Init => FoundInv BY DEF Init, FoundInv
<1>. QED BY <1>1, FoundStep, TypeInvariant, TimeInvariant, StreamInvariant,
            DeadlineInvariant, PTL DEF Spec

\* A client in the middle of a clear and usable flight has something to read
\* as long as the connection is open.
LEMMA FlightGoesOn ==
  ASSUME TypeInv, FlightInv, Usable(server), NEW limit, Clear(server, limit),
         pc \in Reassembling \cup {"robot"}, ~Complete, ended = "open"
  PROVE  coming # <<>> \/ inbox # <<>>
<1>1. server \in Servers /\ TypeOK /\ pc \in InFlight /\ Sent = server.records
  BY DEF TypeInv, TypeOK, InFlight, Sent, Reassembling
<1>2. PICK k, r : Position(k, r) BY <1>1 DEF FlightInv
<1>3. Buffered(k, r) /\ Arriving(r) /\ Progress(k) BY <1>2 DEF Position
<1>4. Len(server.flight) \in 3..4 BY <1>1, UsableFlight
<1>5. k # Len(server.flight)
  <2>1. k <= 2 \/ k < Len(server.flight)
    <3>1. CASE pc \in Reassembling BY <1>3, <3>1 DEF Progress, Reassembling
    <3>2. CASE pc = "robot" BY <1>3, <3>2 DEF Progress
    <3>. QED BY <3>1, <3>2
  <2>. QED BY <1>4, <2>1
<1>6. r < Len(server.records) BY <1>1, <1>3, <1>5, MoreToRead
<1>. QED BY <1>1, <1>3, <1>6, NotForgotten

\* RobotReadsTheKey: of every server that completes a usable flight within the
\* limits the ROBOT client has the key as soon as the flight has arrived,
\* however it was cut into records.
THEOREM RobotReadsTheKeyTheorem == Spec => []RobotReadsTheKey
<1>1. TypeInv /\ TimeInv /\ StreamInv /\ FoundInv => RobotReadsTheKey
  <2>. SUFFICES ASSUME TypeInv, TimeInv, StreamInv, FoundInv, KeyDue PROVE Yields("key")
    BY DEF RobotReadsTheKey, KeyDue
  <2>1. pc = "done" /\ ended = "open" /\ now < readBy => result = "key"
    BY DEF FoundInv, InTime
  <2>2. ASSUME Reading, ended = "open" PROVE coming # <<>> \/ inbox # <<>>
    <3>1. pc = "robot" /\ ~Complete
      BY <2>2 DEF Reading, TimeInv, CbcPhases, KeyDue
    <3>. QED BY <2>2, <3>1, FlightGoesOn DEF KeyDue, StreamInv
  <2>. QED BY <2>1, <2>2 DEF Yields
<1>. QED BY <1>1, TypeInvariant, TimeInvariant, StreamInvariant, FoundInvariant, PTL

\* FindsTheSession: a usable server whose flight and Finished come in time gives
\* the CBC client a session, however its flight is cut into records and whatever
\* precedes its Finished.
THEOREM FindsTheSessionTheorem == Spec => []FindsTheSession
<1>1. TypeInv /\ TimeInv /\ StreamInv /\ FoundInv => FindsTheSession
  <2>. SUFFICES ASSUME TypeInv, TimeInv, StreamInv, FoundInv, SessionDue
                PROVE  Yields("session")
    BY DEF FindsTheSession, SessionDue
  <2>1. pc = "done" /\ ended = "open" /\ now < readBy => result = "session"
    BY DEF FoundInv, InTime
  <2>2. ASSUME Reading, ended = "open" PROVE coming # <<>> \/ inbox # <<>>
    <3>1. pc # "robot" BY DEF TimeInv, SessionDue
    <3>2. CASE pc = "finished"
      <4>1. count < Len(Acceptances[server.accept]) BY <3>2 DEF FoundInv, Awaiting
      <4>. QED BY <2>2, <3>2, <4>1, NextOfAcceptance
    <3>3. CASE pc # "finished"
      <4>1. pc \in Reassembling /\ ~Complete BY <2>2, <3>1, <3>3 DEF Reading
      <4>. QED BY <2>2, <4>1, FlightGoesOn DEF SessionDue, StreamInv
    <3>. QED BY <3>2, <3>3
  <2>. QED BY <2>1, <2>2 DEF Yields
<1>. QED BY <1>1, TypeInvariant, TimeInvariant, StreamInvariant, FoundInvariant, PTL
=============================================================================
