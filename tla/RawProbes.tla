----------------------------- MODULE RawProbes ------------------------------
(***************************************************************************)
(* The raw handshake probes (internal/handshake/legacy.go and probes.go):  *)
(* SSLv3, SSLv2, the export suites (FREAK, Logjam), TLS_FALLBACK_SCSV and  *)
(* RFC 5746.  Each is one connection under one deadline: a ClientHello,    *)
(* then records, read in full, until the probe has what it judges: the     *)
(* first byte of a message, or a whole ServerHello.                        *)
(*                                                                         *)
(* A message is a sequence of fields, each a natural number; lengths count *)
(* fields.  A record is sent as one cell for its header and one for each   *)
(* field, and a cell is what may arrive, or be lost, by itself.            *)
(***************************************************************************)
EXTENDS Integers, Sequences, FiniteSets, SequencesExt

CONSTANTS Servers,     \* what the probe may meet
          OptTimeout,  \* opts.Timeout, in ticks
          TimeoutCap,  \* the 4 seconds of capTimeout
          MaxLen       \* 1<<16, the longest handshake message

Probes == {"ssl3", "ssl2", "export", "fallback", "reneg"}

ServerHello   == 2     \* handshakeServerHello
SSL2Hello     == 4     \* sslv2ServerHello
Certificate   == 11    \* the message behind a ServerHello
RenegInfo     == 1     \* the type of extension the probe wants
Inappropriate == 86    \* alertInappropriateFallback

----------------------------------------------------------------------------
(* External: what a server sends. *)

\* A ServerHello; damage says which of its lengths, if any, is wrong.
Hellos == [sid : 0..2, exts : Seq([type : 0..2, len : 0..2]),
           damage : {"none", "sid", "total", "truncated", "absurd"}]

ExtFields(e) == <<e.type, e.len>> \o [i \in 1..e.len |-> RenegInfo]

\* Without extensions there is no block of them.
ExtBlock(h) ==
  LET fields == FlattenSeq([i \in DOMAIN h.exts |-> ExtFields(h.exts[i])])
  IN IF h.exts = <<>> THEN <<>>
     ELSE <<IF h.damage = "total" THEN 0 ELSE Len(fields)>> \o fields

\* Version and random, session id, suite and compression, extensions.
HelloMessage(h) ==
  LET sid  == <<IF h.damage = "sid" THEN 9 ELSE h.sid>> \o [i \in 1..h.sid |-> 0]
      body == <<0>> \o IF h.damage = "truncated" THEN <<>> ELSE sid \o <<0>> \o ExtBlock(h)
  IN <<ServerHello, IF h.damage = "absurd" THEN MaxLen + 1 ELSE Len(body)>> \o body

Record(t, v, fields) == [type |-> t, version |-> v, fields |-> fields]

\* selects: the server goes along with what the probe offers it; otherwise
\* refusal says how it declines.  pieces: how its handshake is cut into records.
ServerType ==
  [probe : Probes, selects : BOOLEAN, hello : Hellos, pieces : Seq(Seq(Nat)),
   refusal : {"silence", "alert", "fallback", "newer", "request"}]

\* The handshake messages of a server that sends any.
Flight(s) ==
  IF ~s.selects /\ s.refusal = "request" THEN <<0, 0>>
  ELSE HelloMessage(s.hello) \o <<Certificate, 1, 0>>

Answer(s) ==
  LET agreed == IF s.probe = "ssl3" THEN "ssl3" ELSE "tls"
      Framed(version) ==
        [i \in DOMAIN s.pieces |-> Record("handshake", version, s.pieces[i])]
  IN CASE s.selects /\ s.probe = "ssl2"  -> <<Record("sslv2", "ssl2", <<SSL2Hello, 0>>)>>
       [] s.selects /\ s.probe # "ssl2"  -> Framed(agreed)
       [] ~s.selects /\ s.refusal = "silence"  -> <<>>
       [] ~s.selects /\ s.refusal = "alert"    -> <<Record("alert", agreed, <<2, 40>>)>>
       [] ~s.selects /\ s.refusal = "fallback" ->
            <<Record("alert", agreed, <<2, Inappropriate>>)>>
       [] ~s.selects /\ s.refusal = "newer"    -> Framed("tls")
       [] ~s.selects /\ s.refusal = "request"  -> Framed(agreed)

\* No record is empty.  A server may answer an SSLv3 or SSLv2 hello with a newer
\* version; a hello that offers only what it lacks, it declines.
ASSUME ServersAssumption ==
  \A s \in Servers :
    /\ s \in ServerType
    /\ FlattenSeq(s.pieces) = Flight(s) /\ \A i \in DOMAIN s.pieces : s.pieces[i] # <<>>
    /\ s.refusal = "newer" => s.probe \in {"ssl3", "ssl2"}
ASSUME TimeAssumption == OptTimeout \in Nat \ {0} /\ TimeoutCap \in Nat \ {0}
ASSUME MaxLenAssumption == MaxLen \in Nat

----------------------------------------------------------------------------
(* Parsing. *)

\* Mutant: the caller's timeout as it is.
capTimeoutNot(t) == t

capTimeout(t) == IF t > TimeoutCap THEN TimeoutCap ELSE t

\* Length of the message that buf begins with.
MsgLen(buf) == 2 + buf[2]

\* serverHelloHasExtension: p counts the fields passed.
serverHelloHasExtension(msg, want) ==
  LET afterSid == 5 + msg[4]
      end      == afterSid + 1 + msg[afterSid + 1]
      last     == IF end > Len(msg) THEN Len(msg) ELSE end
      walk[p \in Nat] == /\ p + 2 <= last
                         /\ msg[p + 1] = want \/ walk[p + 2 + msg[p + 2]]
  IN /\ 4 <= Len(msg)
     /\ afterSid + 1 <= Len(msg)
     /\ walk[afterSid + 1]

----------------------------------------------------------------------------

VARIABLES server,    \* fixed
          records,   \* the records it answers with; fixed
          now, by,   \* ticks since the probe began; the one deadline
          pc,        \* "dial", "hello", "header", "payload", "done"
          arrived,   \* cells of the answer that arrived
          taken,     \* cells read
          record,    \* the record being read
          need,      \* fields of it the probe reads
          buf,       \* fields of handshake messages read
          ended,     \* the connection is closed or reset
          result     \* what the probe reports

fixed == <<server, records>>
vars  == <<fixed, now, by, pc, arrived, taken, record, need, buf, ended, result>>

Init ==
  /\ server \in Servers /\ records = Answer(server)
  /\ now = 0 /\ by = 0 /\ pc = "dial"
  /\ arrived = 0 /\ taken = 0 /\ record = 0 /\ need = 0 /\ buf = <<>>
  /\ ended = FALSE /\ result = FALSE

Current   == records[record]
Return(r) == pc' = "done" /\ result' = r

\* A record on the wire: a cell for its header, which tells its size, and its fields.
CellsOf(r) == <<Len(r.fields)>> \o r.fields

Cells == Len(FlattenSeq([i \in DOMAIN records |-> CellsOf(records[i])]))

Dial ==
  /\ pc = "dial" /\ pc' = "hello" /\ by' = now + capTimeout(OptTimeout)
  /\ UNCHANGED <<fixed, now, arrived, taken, record, need, buf, ended, result>>

DialFails ==
  /\ pc = "dial" /\ Return(FALSE)
  /\ UNCHANGED <<fixed, now, by, arrived, taken, record, need, buf, ended>>

SendHello ==
  /\ pc = "hello" /\ pc' = "header"
  /\ UNCHANGED <<fixed, now, by, arrived, taken, record, need, buf, ended, result>>

SendFails ==
  /\ pc = "hello" /\ ended /\ Return(FALSE)
  /\ UNCHANGED <<fixed, now, by, arrived, taken, record, need, buf, ended>>

\* Mutant: one Read, whatever it returns.
ReadsSome(n) == taken < arrived

\* readFull has all it asked for.
readFull(n) == taken + n <= arrived

\* Mutant: the record version does not count.
IsHandshake(r) == r.type = "handshake"

IsSSL3(r) == r.type = "handshake" /\ r.version = "ssl3"

\* What the probe reads of a record with this header: nothing, and it is over,
\* the first field, both fields of an alert, or all of it.
Wanted(r) ==
  LET size == Len(r.fields)
  IN CASE server.probe = "ssl3" /\ IsSSL3(r) /\ size >= 1                 -> 1
       [] server.probe = "ssl2" /\ r.type = "sslv2" /\ size >= 1         -> 1
       [] server.probe = "export" /\ r.type = "handshake" /\ size >= 1   -> 1
       [] server.probe = "fallback" /\ r.type = "handshake" /\ size >= 1 -> 1
       [] server.probe = "fallback" /\ r.type = "alert" /\ size >= 2     -> 2
       [] server.probe = "reneg" /\ r.type = "handshake" /\ size >= 1    -> size
       [] OTHER -> 0

ReadHeader ==
  /\ pc = "header" /\ readFull(1)
  /\ taken' = taken + 1 /\ record' = record + 1
  /\ LET n == Wanted(records[record + 1])
     IN IF n = 0 THEN Return(FALSE) /\ UNCHANGED need
        ELSE pc' = "payload" /\ need' = n /\ UNCHANGED result
  /\ UNCHANGED <<fixed, now, by, arrived, buf, ended>>

\* The first field tells: a ServerHello, in the framing of the probe.
Judge(fields) ==
  IF server.probe = "ssl2" THEN fields[1] = SSL2Hello
  ELSE Current.type = "handshake" /\ fields[1] = ServerHello

Peek ==
  /\ pc = "payload" /\ server.probe # "reneg" /\ readFull(need)
  /\ taken' = taken + need
  /\ Return(Judge(Current.fields))
  /\ UNCHANGED <<fixed, now, by, arrived, record, need, buf, ended>>

Incomplete(b) == ~(2 <= Len(b) /\ MsgLen(b) <= Len(b))
TooLong(b)    == Len(b) >= 2 /\ MsgLen(b) > MaxLen

\* Mutant: looks at all that was read, not at the ServerHello alone.
VerdictOfAll(b) ==
  b[1] = ServerHello /\ ~Incomplete(b) /\ ~serverHelloHasExtension(b, RenegInfo)

\* What the loop of readServerHelloMessage leaves, judged.
Verdict(b) ==
  /\ Len(b) >= 2 /\ b[1] = ServerHello /\ MsgLen(b) <= Len(b)
  /\ ~serverHelloHasExtension(SubSeq(b, 1, MsgLen(b)), RenegInfo)

\* One turn of that loop: the payload, the guards, and its condition.
Assemble ==
  /\ pc = "payload" /\ server.probe = "reneg" /\ readFull(need)
  /\ taken' = taken + need
  /\ buf' = buf \o Current.fields
  /\ LET full == Len(buf') > MaxLen
     IN \/ ~full /\ TooLong(buf') /\ Return(FALSE)
        \/ ~full /\ ~TooLong(buf') /\ Incomplete(buf') /\ pc' = "header" /\ UNCHANGED result
        \/ (full \/ ~(TooLong(buf') \/ Incomplete(buf'))) /\ Return(Verdict(buf'))
  /\ UNCHANGED <<fixed, now, by, arrived, record, need, ended>>

\* Fields the next read waits for.
Asked == IF pc = "header" THEN 1 ELSE need

\* Mutant: only the dial has a deadline.
GivesUpAtTheEnd == ended

GivesUp == ended \/ now >= by

ReadFails ==
  /\ pc \in {"header", "payload"} /\ ~readFull(Asked) /\ GivesUp
  /\ Return(FALSE)
  /\ UNCHANGED <<fixed, now, by, arrived, taken, record, need, buf, ended>>

----------------------------------------------------------------------------
(* The network and the clock. *)

Deliver ==
  /\ pc \in {"header", "payload"} /\ ~ended /\ arrived < Cells
  /\ arrived' = arrived + 1
  /\ UNCHANGED <<fixed, now, by, pc, taken, record, need, buf, ended, result>>

\* A reset discards what was not read.
End ==
  /\ pc \notin {"dial", "done"} /\ ~ended /\ ended' = TRUE
  /\ arrived' \in {arrived, taken}
  /\ UNCHANGED <<fixed, now, by, pc, taken, record, need, buf, result>>

\* The probe waits: for the connection, or for cells of the answer.
Tick ==
  /\ \/ pc = "dial" /\ now < capTimeout(OptTimeout)
     \/ pc \in {"header", "payload"} /\ ~readFull(Asked) /\ ~ended /\ now < by
  /\ now' = now + 1
  /\ UNCHANGED <<fixed, by, pc, arrived, taken, record, need, buf, ended, result>>

Terminated == pc = "done" /\ UNCHANGED vars

Step == Dial \/ DialFails \/ SendHello \/ SendFails \/ ReadHeader \/ Peek \/ Assemble \/ ReadFails
Next == Step \/ Deliver \/ End \/ Tick \/ Terminated

\* The probe runs when it can, and time passes; nothing need ever arrive.
Spec == Init /\ [][Next]_vars /\ WF_vars(Step) /\ WF_vars(Tick)

----------------------------------------------------------------------------
(* Properties. *)

\* Every variable has its type, and the probe never reads what did not arrive.
TypeOK ==
  /\ server \in Servers /\ records = Answer(server)
  /\ now \in Nat /\ by \in Nat
  /\ pc \in {"dial", "hello", "header", "payload", "done"}
  /\ arrived \in 0..Cells /\ taken \in 0..arrived
  /\ record \in 0..Len(records) /\ need \in Nat
  /\ buf \in Seq(Nat)
  /\ ended \in BOOLEAN /\ result \in BOOLEAN

\* What the probe is there to find: the server speaks what it should not, or
\* answers with a ServerHello that lacks renegotiation_info.
Flawed(s) ==
  /\ s.selects
  /\ s.probe = "reneg" => \A i \in DOMAIN s.hello.exts : s.hello.exts[i].type # RenegInfo

\* A flaw is claimed only of a server that has it: however its ServerHello is
\* cut into records and joined with what follows, and wherever the connection
\* breaks off, as long as the lengths in the ServerHello are right.
NoFalseClaim == result /\ server.hello.damage = "none" => Flawed(server)

\* The flaw is found when the answer arrived in time, however it was cut; of a
\* ServerHello longer than the longest message nothing is said.
FindsTheFlaw ==
  /\ pc = "done" /\ ~ended /\ record > 0 /\ now < by
  /\ Flawed(server) /\ server.hello.damage = "none"
  /\ server.probe = "reneg" => Len(HelloMessage(server.hello)) <= MaxLen
  => result

\* A probe takes twice its timeout at most, and twice the cap: a server that
\* trickles its answer does not prolong it.
EndsInTime == now <= 2 * OptTimeout /\ now <= 2 * TimeoutCap

\* The probe returns, whatever arrives and when.
Termination == <>(pc = "done")

----------------------------------------------------------------------------

\* probes.go on RFC 5746: "Fail safe: timeout / reset / alert / any parse
\* ambiguity => false", and the comment of serverHelloHasExtension: "Returns
\* false on any structural inconsistency".
AmbiguityIsNotClaimed == result => server.hello.damage = "none"
=============================================================================
