----------------------------- MODULE Heartbleed -----------------------------
(***************************************************************************)
(* Heartbleed (internal/vulns/heartbleed.go): one connection, its          *)
(* deadlines and the byte stream it reads.  The probe sends a ClientHello, *)
(* takes what ONE read gives it, sends the heartbeat, and reads the next   *)
(* five bytes as the header of the answer.                                 *)
(*                                                                         *)
(* The stream is a sequence of cells of the size of a record header.  A    *)
(* cell is a header or lies inside the body of a record; either way it has *)
(* a first byte and a length field, which is all the probe looks at.       *)
(* Time passes only while the probe is blocked.                            *)
(***************************************************************************)
EXTENDS Integers, Sequences

CONSTANTS Servers,   \* the servers the probe may meet
          Timeout,   \* opts.Timeout, in ticks
          ReadMax    \* cells one read takes at most (4096 bytes)

\* type: what the first byte says; big: the length field exceeds 16.
Cells == [header : BOOLEAN, type : {"handshake", "alert", "heartbeat"}, big : BOOLEAN]

\* External: what a server sends on a ClientHello, and on the heartbeat.  It
\* sends no heartbeat of its own.
Answers == [silence |-> <<>>,
            alert   |-> <<[header |-> TRUE, type |-> "alert", big |-> FALSE]>>,
            echo    |-> <<[header |-> TRUE, type |-> "heartbeat", big |-> FALSE]>>,
            leak    |-> <<[header |-> TRUE, type |-> "heartbeat", big |-> TRUE],
                          [header |-> FALSE, type |-> "handshake", big |-> FALSE]>>]

ServerType ==
  [flight : {f \in Seq(Cells) : \A i \in DOMAIN f : f[i].header => f[i].type # "heartbeat"},
   answer : DOMAIN Answers]

ASSUME ServersAssumption == Servers \subseteq ServerType
ASSUME TimeoutAssumption == Timeout \in Nat \ {0}
ASSUME ReadMaxAssumption == ReadMax \in Nat \ {0}

VARIABLES server,           \* fixed
          now,              \* ticks since the probe began
          writeBy, readBy,  \* deadlines of the connection
          pc,               \* "dial", "hello", "drain", "beat", "reply", "leak", "done"
          coming,           \* cells on their way
          inbox,            \* cells that arrived and are not read
          ended,            \* how the connection ended: "open", "EOF", "reset"
          drained,          \* cells the drain took
          result            \* "vulnerable", "not", "error"

stream == <<coming, inbox, ended>>
vars   == <<server, now, writeBy, readBy, pc, stream, drained, result>>

Init ==
  /\ server \in Servers
  /\ now = 0 /\ writeBy = 0 /\ readBy = 0
  /\ pc = "dial" /\ coming = <<>> /\ inbox = <<>> /\ ended = "open"
  /\ drained = 0 /\ result = "error"

Return(r) == pc' = "done" /\ result' = r

----------------------------------------------------------------------------

\* The dial, and SetDeadline.
Dial ==
  /\ pc = "dial" /\ pc' = "hello"
  /\ writeBy' = now + Timeout /\ readBy' = now + Timeout
  /\ UNCHANGED <<server, now, stream, drained, result>>

DialFails ==
  /\ pc = "dial" /\ Return("error")
  /\ UNCHANGED <<server, now, writeBy, readBy, stream, drained>>

SendHello ==
  /\ pc = "hello"
  /\ IF ended = "reset" THEN Return("error") /\ UNCHANGED <<readBy, stream>>
     ELSE /\ pc' = "drain" /\ readBy' = now + Timeout
          /\ coming' = (IF ended = "open" THEN server.flight ELSE <<>>)
          /\ UNCHANGED <<inbox, ended, result>>
  /\ UNCHANGED <<server, now, writeBy, drained>>

\* Mutant: a read that waits for the whole flight.
TakenAll == Len(inbox)

\* What one read takes.
Taken == IF Len(inbox) < ReadMax THEN Len(inbox) ELSE ReadMax

\* drainHandshake: one read.
DrainReads ==
  /\ pc = "drain" /\ inbox # <<>>
  /\ drained' = Taken /\ inbox' = SubSeq(inbox, Taken + 1, Len(inbox))
  /\ pc' = "beat"
  /\ UNCHANGED <<server, now, writeBy, readBy, coming, ended, result>>

\* A timeout is no error of the drain; a connection that ended is.
DrainTimesOut ==
  /\ pc = "drain" /\ inbox = <<>> /\ ended = "open" /\ now >= readBy
  /\ pc' = "beat"
  /\ UNCHANGED <<server, now, writeBy, readBy, stream, drained, result>>

DrainFails ==
  /\ pc = "drain" /\ inbox = <<>> /\ ended # "open"
  /\ Return("error")
  /\ UNCHANGED <<server, now, writeBy, readBy, stream, drained>>

\* The write deadline is that of the dial: after a drain that timed out it has
\* passed too, so that a silent server is not sent the heartbeat.
WriteFails == now >= writeBy \/ ended = "reset"

SendHeartbeat ==
  /\ pc = "beat"
  /\ IF WriteFails
     THEN Return("error") /\ UNCHANGED <<readBy, coming>>
     ELSE /\ pc' = "reply" /\ readBy' = now + Timeout
          /\ coming' = (IF ended = "open" THEN coming \o Answers[server.answer]
                        ELSE coming)
          /\ UNCHANGED result
  /\ UNCHANGED <<server, now, writeBy, inbox, ended, drained>>

\* Mutant: any heartbeat record is a leak.
LeaksAtAnySize(cell) == cell.type = "heartbeat"

\* Mutant: only an answer as small as the request is taken for one.
LeaksInSmall(cell) == cell.type = "heartbeat" /\ ~cell.big

Leaks(cell) == cell.type = "heartbeat" /\ cell.big

\* Mutant: skips what is no heartbeat, with a new deadline for each record.
ReadHeaderSkipping ==
  /\ pc = "reply" /\ inbox # <<>>
  /\ IF Leaks(Head(inbox)) THEN pc' = "leak" /\ UNCHANGED <<readBy, result>>
     ELSE readBy' = now + Timeout /\ UNCHANGED <<pc, result>>
  /\ inbox' = Tail(inbox)
  /\ UNCHANGED <<server, now, writeBy, coming, ended, drained>>

\* readHeartbeatResponse takes the next five bytes for a header.
ReadHeader ==
  /\ pc = "reply" /\ inbox # <<>>
  /\ IF Leaks(Head(inbox)) THEN pc' = "leak" /\ UNCHANGED result
     ELSE Return("not")
  /\ inbox' = Tail(inbox)
  /\ UNCHANGED <<server, now, writeBy, readBy, coming, ended, drained>>

\* Mutant: a read without a deadline.
ReadFailsAtTheEnd == inbox = <<>> /\ ended # "open"

ReadFails == inbox = <<>> /\ (ended # "open" \/ now >= readBy)

\* No answer means not vulnerable.
ReplyFails ==
  /\ pc = "reply" /\ ReadFails /\ Return("not")
  /\ UNCHANGED <<server, now, writeBy, readBy, stream, drained>>

\* One more read for what leaked, whose outcome is not looked at.
DiscardLeak ==
  /\ pc = "leak" /\ (inbox # <<>> \/ ReadFails)
  /\ Return("vulnerable")
  /\ inbox' = SubSeq(inbox, Taken + 1, Len(inbox))
  /\ UNCHANGED <<server, now, writeBy, readBy, coming, ended, drained>>

----------------------------------------------------------------------------
(* The network and the clock. *)

Deliver ==
  /\ pc # "done" /\ ended = "open" /\ coming # <<>>
  /\ inbox' = Append(inbox, Head(coming)) /\ coming' = Tail(coming)
  /\ UNCHANGED <<server, now, writeBy, readBy, pc, ended, drained, result>>

\* The connection ends; a reset also discards what was not read.
End ==
  /\ pc \notin {"dial", "done"} /\ ended = "open"
  /\ ended' \in {"EOF", "reset"} /\ coming' = <<>>
  /\ inbox' = (IF ended' = "reset" THEN <<>> ELSE inbox)
  /\ UNCHANGED <<server, now, writeBy, readBy, pc, drained, result>>

Blocked ==
  \/ pc = "dial" /\ now < Timeout
  \/ pc \in {"drain", "reply", "leak"} /\ inbox = <<>> /\ ended = "open" /\ now < readBy

Tick ==
  /\ Blocked /\ now' = now + 1
  /\ UNCHANGED <<server, writeBy, readBy, pc, stream, drained, result>>

Terminated == pc = "done" /\ UNCHANGED vars

Step == \/ Dial \/ DialFails \/ SendHello \/ DrainReads \/ DrainTimesOut \/ DrainFails
        \/ SendHeartbeat \/ ReadHeader \/ ReplyFails \/ DiscardLeak

Next == Step \/ Deliver \/ End \/ Tick \/ Terminated

\* The probe runs when it can, and time passes; nothing need ever arrive.
Spec == Init /\ [][Next]_vars /\ WF_vars(Step) /\ WF_vars(Tick)

----------------------------------------------------------------------------
(* Properties. *)

\* Every variable has its type.
TypeOK ==
  /\ server \in Servers
  /\ now \in Nat /\ writeBy \in Nat /\ readBy \in Nat
  /\ pc \in {"dial", "hello", "drain", "beat", "reply", "leak", "done"}
  /\ coming \in Seq(Cells) /\ inbox \in Seq(Cells)
  /\ ended \in {"open", "EOF", "reset"}
  /\ drained \in 0..ReadMax
  /\ result \in {"vulnerable", "not", "error"}

\* The probe reads the answer at the boundary of a record.
Aligned == drained < Len(server.flight) => server.flight[drained + 1].header

\* A leak is reported only of a server that leaks, as long as the drain stopped
\* at the boundary of a record: what then follows is a header.
AlignedClaimIsGenuine == result = "vulnerable" /\ Aligned => server.answer = "leak"

\* A leak is found when the drain took the whole flight in its one read and the
\* answer arrived, however late in the deadline.
FindsTheLeak ==
  pc = "done" /\ server.answer = "leak" /\ ended = "open"
    /\ drained = Len(server.flight) /\ drained > 0 /\ now < readBy
  => result = "vulnerable"

\* The deadlines of the dial, of the drain and of the answer follow each other:
\* one probe may take three times its timeout, and never more.
EndsInTime == now <= 3 * Timeout

\* The probe returns, whatever arrives and when.
Termination == <>(pc = "done")
=============================================================================
