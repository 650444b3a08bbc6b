-------------------------- MODULE HeartbleedProofs --------------------------
(***************************************************************************)
(* Theorems about Heartbleed: type correctness, and the two properties of  *)
(* its deadlines.                                                          *)
(***************************************************************************)
EXTENDS Heartbleed, TLAPS

\* What a server sends on the heartbeat is a sequence of cells.
LEMMA AnswersAreCells == \A a \in DOMAIN Answers : Answers[a] \in Seq(Cells)
<1>1. Answers.silence \in Seq(Cells) BY DEF Answers, Cells
<1>2. Answers.alert \in Seq(Cells) BY DEF Answers, Cells
<1>3. Answers.echo \in Seq(Cells) BY DEF Answers, Cells
<1>4. Answers.leak \in Seq(Cells) BY DEF Answers, Cells
<1>. QED BY <1>1, <1>2, <1>3, <1>4 DEF Answers

\* What a server sends on the ClientHello is one too.
LEMMA FlightsAreCells ==
  \A s \in Servers : s.flight \in Seq(Cells) /\ s.answer \in DOMAIN Answers
BY ServersAssumption DEF ServerType

\* One read takes something of what is there, and no more than it may.
LEMMA TakenInRange ==
  ASSUME inbox \in Seq(Cells)
  PROVE  /\ Taken \in 0..ReadMax /\ Taken <= Len(inbox)
         /\ inbox # <<>> => Taken > 0
         /\ SubSeq(inbox, Taken + 1, Len(inbox)) \in Seq(Cells)
BY ReadMaxAssumption DEF Taken

----------------------------------------------------------------------------

\* Every step keeps the types.
LEMMA TypeStep == TypeOK /\ [Next]_vars => TypeOK'
<1>. SUFFICES ASSUME TypeOK, [Next]_vars PROVE TypeOK'  OBVIOUS
<1>. USE TimeoutAssumption DEF TypeOK
<1>1. CASE Dial BY <1>1 DEF Dial, stream
<1>2. CASE DialFails BY <1>2 DEF DialFails, Return, stream
<1>3. CASE SendHello
  <2>1. server.flight \in Seq(Cells) BY FlightsAreCells
  <2>2. <<>> \in Seq(Cells) OBVIOUS
  <2>3. coming' \in Seq(Cells) /\ inbox' \in Seq(Cells)
    BY <1>3, <2>1, <2>2 DEF SendHello, stream
  <2>. QED BY <1>3, <2>3 DEF SendHello, Return, stream
<1>4. CASE DrainReads BY <1>4, TakenInRange DEF DrainReads
<1>5. CASE DrainTimesOut BY <1>5 DEF DrainTimesOut, stream
<1>6. CASE DrainFails BY <1>6 DEF DrainFails, Return, stream
<1>7. CASE SendHeartbeat
  <2>1. Answers[server.answer] \in Seq(Cells) BY FlightsAreCells, AnswersAreCells
  <2>2. coming \o Answers[server.answer] \in Seq(Cells) BY <2>1
  <2>3. coming' \in Seq(Cells)
    <3>1. CASE WriteFails BY <1>7, <3>1 DEF SendHeartbeat
    <3>2. CASE ~WriteFails BY <1>7, <3>2, <2>2 DEF SendHeartbeat
    <3>. QED BY <3>1, <3>2
  <2>. QED BY <1>7, <2>3 DEF SendHeartbeat, Return
<1>8. CASE ReadHeader BY <1>8 DEF ReadHeader, Return
<1>9. CASE ReplyFails BY <1>9 DEF ReplyFails, Return, stream
<1>10. CASE DiscardLeak BY <1>10, TakenInRange DEF DiscardLeak, Return
<1>11. CASE Deliver BY <1>11 DEF Deliver
<1>12. CASE End BY <1>12 DEF End
<1>13. CASE Tick BY <1>13 DEF Tick, stream
<1>14. CASE UNCHANGED vars BY <1>14 DEF vars, stream
<1>. QED BY <1>1, <1>2, <1>3, <1>4, <1>5, <1>6, <1>7, <1>8, <1>9, <1>10,
            <1>11, <1>12, <1>13, <1>14 DEF Next, Step, Terminated

\* TypeOK: every reachable state of the Heartbleed probe is well typed; in
\* particular no read takes more than its buffer holds.
THEOREM TypeCorrectness == Spec => []TypeOK
<1>1. Init => TypeOK BY ReadMaxAssumption DEF Init, TypeOK
<1>. QED BY <1>1, TypeStep, PTL DEF Spec

----------------------------------------------------------------------------

\* How far the clock may be in each phase, and what the deadlines then are.
\* Up to the drain the clock stands still between the calls that set them, so
\* that the drain ends when the write deadline does.
TimeInv ==
  /\ pc = "dial" => now <= Timeout
  /\ pc # "dial" => writeBy <= 2 * Timeout \/ pc = "done"
  /\ pc = "hello" => writeBy = now + Timeout
  /\ pc = "drain" => readBy = writeBy /\ now <= writeBy
  /\ pc = "beat" => now <= writeBy /\ (drained > 0 \/ now >= writeBy)
  /\ pc \in {"reply", "leak"} => drained > 0 /\ now <= readBy /\ readBy <= 3 * Timeout
  /\ now <= 3 * Timeout

\* Every step keeps the clock within the deadlines of its phase.
LEMMA TimeStep == TypeOK /\ TimeInv /\ [Next]_vars => TimeInv'
<1>. SUFFICES ASSUME TypeOK, TimeInv, [Next]_vars PROVE TimeInv'  OBVIOUS
<1>. USE TimeoutAssumption DEF TypeOK, TimeInv
<1>1. CASE Dial BY <1>1 DEF Dial
<1>2. CASE DialFails BY <1>2 DEF DialFails, Return
<1>3. CASE SendHello BY <1>3 DEF SendHello, Return
<1>4. CASE DrainReads BY <1>4, TakenInRange DEF DrainReads
<1>5. CASE DrainTimesOut BY <1>5 DEF DrainTimesOut
<1>6. CASE DrainFails BY <1>6 DEF DrainFails, Return
<1>7. CASE SendHeartbeat BY <1>7 DEF SendHeartbeat, WriteFails, Return
<1>8. CASE ReadHeader BY <1>8 DEF ReadHeader, Return
<1>9. CASE ReplyFails BY <1>9 DEF ReplyFails, Return
<1>10. CASE DiscardLeak BY <1>10 DEF DiscardLeak, Return
<1>11. CASE Deliver BY <1>11 DEF Deliver
<1>12. CASE End BY <1>12 DEF End
<1>13. CASE Tick BY <1>13 DEF Tick, Blocked
<1>14. CASE UNCHANGED vars BY <1>14 DEF vars
<1>. QED BY <1>1, <1>2, <1>3, <1>4, <1>5, <1>6, <1>7, <1>8, <1>9, <1>10,
            <1>11, <1>12, <1>13, <1>14 DEF Next, Step, Terminated

\* The clock stays within the deadlines of each phase.
LEMMA TimeInvariant == Spec => []TimeInv
<1>1. Init => TimeInv BY TimeoutAssumption DEF Init, TimeInv
<1>. QED BY <1>1, TypeCorrectness, TimeStep, PTL DEF Spec

\* EndsInTime: the deadlines of the dial, the drain and the answer add up, so
\* that the probe never runs longer than three times its timeout.
THEOREM EndsInTimeTheorem == Spec => []EndsInTime
<1>1. TimeInv => EndsInTime BY DEF TimeInv, EndsInTime
<1>. QED BY <1>1, TimeInvariant, PTL

----------------------------------------------------------------------------
(* The stream.  What is still to be read follows, cell by cell, what the   *)
(* drain took: first the rest of the flight, then the answer.              *)

Flight == server.flight
Whole  == Flight \o Answers[server.answer]

\* Cell i of what is on its way, or read next, stands at that place.
Placed ==
  /\ \A i \in 1..Len(inbox) :
       drained + i \in 1..Len(Whole) /\ inbox[i] = Whole[drained + i]
  /\ \A i \in 1..Len(coming) :
       drained + Len(inbox) + i \in 1..Len(Whole)
         /\ coming[i] = Whole[drained + Len(inbox) + i]

Waiting == pc \in {"drain", "beat"}

StreamInv ==
  /\ pc \in {"dial", "hello"} => coming = <<>> /\ inbox = <<>>
  /\ pc \in {"dial", "hello", "drain"} => drained = 0
  /\ pc \in {"drain", "beat", "reply"} => Placed
  /\ ended # "open" => coming = <<>>
  /\ Waiting => drained + Len(inbox) + Len(coming) <= Len(Flight)
  /\ Waiting /\ ended = "open" => drained + Len(inbox) + Len(coming) = Len(Flight)
  /\ drained <= Len(Flight)

\* Sequences, for the lemmas below.
LEMMA WholeType ==
  ASSUME TypeOK
  PROVE  /\ Flight \in Seq(Cells) /\ Answers[server.answer] \in Seq(Cells)
         /\ Whole \in Seq(Cells)
         /\ Len(Whole) = Len(Flight) + Len(Answers[server.answer])
         /\ \A i \in 1..Len(Flight) : Whole[i] = Flight[i]
         /\ \A i \in 1..Len(Answers[server.answer]) :
              Whole[Len(Flight) + i] = Answers[server.answer][i]
<1>1. Flight \in Seq(Cells) /\ Answers[server.answer] \in Seq(Cells)
  BY FlightsAreCells, AnswersAreCells DEF TypeOK, Flight
<1>. QED BY <1>1 DEF Whole

\* A step that leaves the stream and the drain alone.
LEMMA StreamStays ==
  ASSUME StreamInv, UNCHANGED <<server, coming, inbox, drained, ended>>,
         pc' \in {"dial", "hello"} => pc \in {"dial", "hello"},
         pc' \in {"dial", "hello", "drain"} => pc \in {"dial", "hello", "drain"},
         pc' \in {"drain", "beat", "reply"} => pc \in {"drain", "beat", "reply"},
         Waiting' => Waiting
  PROVE  StreamInv'
<1>1. Flight' = Flight /\ Whole' = Whole BY DEF Flight, Whole
<1>2. Placed => Placed' BY <1>1 DEF Placed
<1>. QED BY <1>1, <1>2 DEF StreamInv

\* One read of the drain takes from the front.
LEMMA DrainStream == ASSUME TypeOK, StreamInv, DrainReads PROVE StreamInv'
<1>1. /\ Taken \in 0..ReadMax /\ Taken <= Len(inbox) /\ drained = 0 /\ pc = "drain"
      /\ drained' = Taken /\ inbox' = SubSeq(inbox, Taken + 1, Len(inbox)) /\ pc' = "beat"
      /\ UNCHANGED <<server, coming, ended>>
      /\ inbox \in Seq(Cells) /\ coming \in Seq(Cells) /\ ReadMax \in Nat
  BY TakenInRange, ReadMaxAssumption DEF DrainReads, TypeOK, StreamInv
<1>. HIDE DEF Taken
<1>2. Len(inbox') = Len(inbox) - Taken /\ \A i \in 1..Len(inbox') : inbox'[i] = inbox[Taken + i]
  BY <1>1
<1>3. Whole' = Whole /\ Flight' = Flight BY <1>1 DEF Whole, Flight
<1>4. Placed'
  <2>1. ASSUME NEW i \in 1..Len(inbox')
        PROVE  drained' + i \in 1..Len(Whole) /\ inbox'[i] = Whole[drained' + i]
    <3>1. Taken + i \in 1..Len(inbox) BY <1>1, <1>2
    <3>. QED BY <1>1, <1>2, <3>1 DEF StreamInv, Placed
  <2>2. ASSUME NEW i \in 1..Len(coming)
        PROVE  drained' + Len(inbox') + i \in 1..Len(Whole)
                 /\ coming[i] = Whole[drained' + Len(inbox') + i]
    <3>1. drained' + Len(inbox') = drained + Len(inbox) BY <1>1, <1>2
    <3>. QED BY <1>1, <3>1 DEF StreamInv, Placed
  <2>. QED BY <1>1, <1>3, <2>1, <2>2 DEF Placed
<1>5. Len(Flight) \in Nat BY WholeType
<1>. QED BY <1>1, <1>2, <1>3, <1>4, <1>5 DEF StreamInv, Waiting

\* The answer follows the flight.
LEMMA AnswerStream == ASSUME TypeOK, StreamInv, SendHeartbeat PROVE StreamInv'
<1>. DEFINE answer == Answers[server.answer]
<1>1. /\ UNCHANGED <<server, inbox, ended, drained>> /\ pc = "beat"
      /\ pc' \in {"reply", "done"} /\ inbox \in Seq(Cells) /\ coming \in Seq(Cells)
      /\ drained \in Nat
  BY ReadMaxAssumption DEF SendHeartbeat, Return, TypeOK
<1>2. Whole' = Whole /\ Flight' = Flight BY <1>1 DEF Whole, Flight
<1>3. answer \in Seq(Cells) /\ Len(Whole) = Len(Flight) + Len(answer) /\ Len(Flight) \in Nat
      /\ \A i \in 1..Len(answer) : Whole[Len(Flight) + i] = answer[i]
  BY WholeType
<1>4. CASE coming' = coming BY <1>1, <1>2, <1>4 DEF StreamInv, Placed, Waiting
<1>5. CASE coming' = coming \o answer /\ ended = "open"
  <2>1. drained + Len(inbox) + Len(coming) = Len(Flight)
    BY <1>1, <1>5 DEF StreamInv, Waiting
  <2>. HIDE DEF answer
  <2>2. Len(coming') = Len(coming) + Len(answer) BY <1>1, <1>3, <1>5
  <2>3. ASSUME NEW i \in 1..Len(coming')
        PROVE  drained + Len(inbox) + i \in 1..Len(Whole)
                 /\ coming'[i] = Whole[drained + Len(inbox) + i]
    <3>1. CASE i <= Len(coming)
      <4>1. coming'[i] = coming[i] /\ i \in 1..Len(coming) BY <1>1, <1>3, <1>5, <3>1
      <4>. QED BY <1>1, <4>1 DEF StreamInv, Placed
    <3>2. CASE i > Len(coming)
      <4>1. i - Len(coming) \in 1..Len(answer) /\ coming'[i] = answer[i - Len(coming)]
        BY <1>1, <1>3, <1>5, <2>2, <3>2
      <4>2. /\ Len(inbox) \in Nat /\ Len(coming) \in Nat /\ Len(answer) \in Nat
            /\ Len(coming') \in Nat
        BY <1>1, <1>3, <2>2
      <4>3. drained + Len(inbox) + i = Len(Flight) + (i - Len(coming))
        BY <1>1, <1>3, <2>1, <4>2
      <4>. QED BY <1>3, <4>1, <4>2, <4>3
    <3>. QED BY <1>1, <3>1, <3>2
  <2>4. Placed' BY <1>1, <1>2, <2>3 DEF StreamInv, Placed
  <2>. QED BY <1>1, <1>2, <1>5, <2>4 DEF StreamInv, Waiting
<1>. QED BY <1>4, <1>5 DEF SendHeartbeat

\* A cell that arrives is the next.
LEMMA DeliverStream == ASSUME TypeOK, StreamInv, Deliver PROVE StreamInv'
<1>1. /\ UNCHANGED <<server, pc, ended, drained>> /\ ended = "open" /\ coming # <<>>
      /\ inbox' = Append(inbox, Head(coming)) /\ coming' = Tail(coming)
      /\ inbox \in Seq(Cells) /\ coming \in Seq(Cells) /\ drained \in Nat
  BY ReadMaxAssumption DEF Deliver, TypeOK
<1>2. Whole' = Whole /\ Flight' = Flight BY <1>1 DEF Whole, Flight
<1>3. /\ Len(inbox') = Len(inbox) + 1 /\ Len(coming') = Len(coming) - 1
      /\ \A i \in 1..Len(inbox) : inbox'[i] = inbox[i]
      /\ inbox'[Len(inbox) + 1] = coming[1]
      /\ \A i \in 1..Len(coming') : coming'[i] = coming[i + 1]
      /\ 1 \in 1..Len(coming)
  BY <1>1
<1>4. ASSUME Placed PROVE Placed'
  <2>1. ASSUME NEW i \in 1..Len(inbox')
        PROVE  drained + i \in 1..Len(Whole) /\ inbox'[i] = Whole[drained + i]
    <3>1. CASE i \in 1..Len(inbox) BY <1>3, <1>4, <3>1 DEF Placed
    <3>2. CASE i = Len(inbox) + 1
      <4>1. drained + Len(inbox) + 1 = drained + i BY <1>1, <3>2
      <4>. QED BY <1>3, <1>4, <3>2, <4>1 DEF Placed
    <3>. QED BY <1>1, <1>3, <3>1, <3>2
  <2>2. ASSUME NEW i \in 1..Len(coming')
        PROVE  drained + Len(inbox') + i \in 1..Len(Whole)
                 /\ coming'[i] = Whole[drained + Len(inbox') + i]
    <3>1. i + 1 \in 1..Len(coming) BY <1>1, <1>3
    <3>2. drained + Len(inbox') + i = drained + Len(inbox) + (i + 1) BY <1>1, <1>3
    <3>. QED BY <1>3, <1>4, <3>1, <3>2 DEF Placed
  <2>. QED BY <1>1, <1>2, <2>1, <2>2 DEF Placed
<1>5. Len(Flight) \in Nat BY WholeType
<1>. QED BY <1>1, <1>2, <1>3, <1>4, <1>5 DEF StreamInv, Waiting

\* Every step keeps the stream in its place.
LEMMA StreamStep == TypeOK /\ StreamInv /\ [Next]_vars => StreamInv'
<1>. SUFFICES ASSUME TypeOK, StreamInv, [Next]_vars PROVE StreamInv'  OBVIOUS
<1>. USE DEF stream
<1>1. CASE Dial BY <1>1, StreamStays DEF Dial, Waiting
<1>2. CASE DialFails \/ DrainFails \/ ReplyFails
  BY <1>2, StreamStays DEF DialFails, DrainFails, ReplyFails, Return, Waiting
<1>3. CASE SendHello
  <2>1. CASE UNCHANGED stream /\ pc' = "done"
    BY <1>3, <2>1, StreamStays DEF SendHello, Waiting
  <2>2. CASE pc' = "drain"
    <3>1. /\ coming' = (IF ended = "open" THEN Flight ELSE <<>>) /\ inbox' = <<>>
          /\ drained' = 0 /\ UNCHANGED <<server, ended>>
      BY <1>3, <2>2 DEF SendHello, StreamInv, Return, Flight
    <3>2. Whole' = Whole /\ Flight' = Flight BY <3>1 DEF Whole, Flight
    <3>3. Flight \in Seq(Cells) /\ Len(Whole) >= Len(Flight)
          /\ \A i \in 1..Len(Flight) : Whole[i] = Flight[i]
      <4>1. Len(Answers[server.answer]) \in Nat /\ Len(Flight) \in Nat BY WholeType
      <4>. QED BY <4>1, WholeType
    <3>4. Placed' BY <3>1, <3>2, <3>3 DEF Placed
    <3>. QED BY <2>2, <3>1, <3>2, <3>3, <3>4 DEF StreamInv, Waiting
  <2>. QED BY <1>3, <2>1, <2>2 DEF SendHello, Return
<1>4. CASE DrainReads BY <1>4, DrainStream
<1>5. CASE DrainTimesOut BY <1>5, StreamStays DEF DrainTimesOut, Waiting
<1>6. CASE SendHeartbeat BY <1>6, AnswerStream
<1>7. CASE ReadHeader \/ DiscardLeak
  BY <1>7 DEF ReadHeader, DiscardLeak, Return, StreamInv, Waiting, Flight
<1>8. CASE Deliver BY <1>8, DeliverStream
<1>9. CASE End
  <2>1. /\ UNCHANGED <<server, pc, drained>> /\ coming' = <<>> /\ pc # "dial"
        /\ inbox' = inbox \/ inbox' = <<>>
        /\ inbox \in Seq(Cells) /\ coming \in Seq(Cells) /\ drained \in Nat
    BY <1>9, ReadMaxAssumption DEF End, TypeOK
  <2>2. Whole' = Whole /\ Flight' = Flight /\ Len(Flight) \in Nat
    BY <2>1, WholeType DEF Whole, Flight
  <2>3. Placed => Placed' BY <2>1, <2>2 DEF Placed
  <2>4. ended' # "open" BY <1>9 DEF End
  <2>. QED BY <2>1, <2>2, <2>3, <2>4 DEF StreamInv, Waiting
<1>10. CASE Tick BY <1>10, StreamStays DEF Tick, Waiting
<1>11. CASE UNCHANGED vars BY <1>11, StreamStays DEF vars, Waiting
<1>. QED BY <1>1, <1>2, <1>3, <1>4, <1>5, <1>6, <1>7, <1>8, <1>9, <1>10, <1>11
         DEF Next, Step, Terminated

LEMMA StreamInvariant == Spec => []StreamInv
<1>1. Init => StreamInv
  <2>1. SUFFICES ASSUME Init PROVE StreamInv  OBVIOUS
  <2>2. TypeOK BY <2>1, ReadMaxAssumption DEF Init, TypeOK
  <2>3. Len(Flight) \in Nat BY <2>2, WholeType
  <2>. QED BY <2>1, <2>3 DEF Init, StreamInv, Waiting
<1>. QED BY <1>1, StreamStep, TypeCorrectness, PTL DEF Spec

\* The header the probe is about to read, when there is one: that of the record
\* behind the drain, or, behind the whole flight, the answer's.
LEMMA NextHeader ==
  ASSUME TypeOK, StreamInv, pc = "reply", inbox # <<>>
  PROVE  /\ Aligned /\ Leaks(Head(inbox)) => server.answer = "leak"
         /\ drained = Len(Flight) /\ server.answer = "leak" => Leaks(Head(inbox))
<1>1. /\ 1 \in 1..Len(inbox) /\ Head(inbox) = inbox[1] /\ drained \in Nat
      /\ Len(Flight) \in Nat /\ Len(Answers[server.answer]) \in Nat
      /\ drained <= Len(Flight)
  BY WholeType, ReadMaxAssumption DEF TypeOK, StreamInv
<1>2. drained + 1 \in 1..Len(Whole) /\ Head(inbox) = Whole[drained + 1]
  BY <1>1 DEF StreamInv, Placed
<1>3. CASE drained < Len(Flight)
  <2>1. drained + 1 \in 1..Len(Flight) BY <1>1, <1>3
  <2>2. Head(inbox) = Flight[drained + 1] BY <1>2, <2>1, WholeType
  <2>3. Aligned => Flight[drained + 1].header BY <1>3 DEF Aligned, Flight
  <2>4. Flight[drained + 1].header => Flight[drained + 1].type # "heartbeat"
    BY <2>1, ServersAssumption DEF ServerType, TypeOK, Flight
  <2>. QED BY <1>1, <1>3, <2>2, <2>3, <2>4 DEF Leaks
<1>4. CASE drained = Len(Flight)
  <2>1. 1 \in 1..Len(Answers[server.answer]) BY <1>1, <1>2, <1>4, WholeType
  <2>2. Head(inbox) = Answers[server.answer][1] BY <1>2, <1>4, <2>1, WholeType
  <2>3. server.answer \in {"silence", "alert", "echo", "leak"}
    BY FlightsAreCells DEF TypeOK, Answers
  <2>4. Leaks(Answers[server.answer][1]) <=> server.answer = "leak"
    <3>1. CASE server.answer = "silence" BY <2>1, <3>1 DEF Answers
    <3>2. CASE server.answer = "alert" BY <3>2 DEF Answers, Leaks
    <3>3. CASE server.answer = "echo" BY <3>3 DEF Answers, Leaks
    <3>4. CASE server.answer = "leak" BY <3>4 DEF Answers, Leaks
    <3>. QED BY <2>3, <3>1, <3>2, <3>3, <3>4
  <2>. QED BY <2>2, <2>4
<1>. QED BY <1>1, <1>3, <1>4

\* A leak was read where a leaking server puts it.
LeakInv ==
  /\ pc = "leak" \/ result = "vulnerable" => (Aligned => server.answer = "leak")
  /\ result = "vulnerable" => pc = "done"

LEMMA LeakStep == TypeOK /\ StreamInv /\ LeakInv /\ [Next]_vars => LeakInv'
<1>. SUFFICES ASSUME TypeOK, StreamInv, LeakInv, [Next]_vars PROVE LeakInv'  OBVIOUS
<1>1. CASE ReadHeader
  <2>1. UNCHANGED <<server, drained>> /\ pc = "reply" /\ inbox # <<>> BY <1>1 DEF ReadHeader
  <2>2. Aligned' <=> Aligned BY <2>1 DEF Aligned
  <2>3. CASE Leaks(Head(inbox))
    <3>1. result # "vulnerable" BY <2>1 DEF LeakInv
    <3>2. result' # "vulnerable" BY <1>1, <2>3, <3>1 DEF ReadHeader, Return
    <3>3. Aligned => server.answer = "leak" BY <2>1, <2>3, NextHeader
    <3>. QED BY <2>1, <2>2, <3>2, <3>3 DEF LeakInv
  <2>4. CASE ~Leaks(Head(inbox)) BY <1>1, <2>4 DEF ReadHeader, Return, LeakInv
  <2>. QED BY <2>3, <2>4
<1>2. CASE DrainReads
  <2>1. UNCHANGED <<server, result>> /\ pc' = "beat" BY <1>2 DEF DrainReads
  <2>2. result # "vulnerable" BY <1>2 DEF DrainReads, LeakInv
  <2>. QED BY <2>1, <2>2 DEF LeakInv
<1>3. ASSUME UNCHANGED <<server, drained>>,
             pc' = "leak" => pc = "leak",
             result' = "vulnerable" => result = "vulnerable" \/ pc = "leak",
             result' = "vulnerable" => pc' = "done"
      PROVE  LeakInv'
  BY <1>3 DEF LeakInv, Aligned
<1>4. CASE Dial \/ DialFails \/ SendHello \/ DrainTimesOut \/ DrainFails
  BY <1>3, <1>4 DEF LeakInv, Dial, DialFails, SendHello, DrainTimesOut, DrainFails, Return
<1>5. CASE SendHeartbeat \/ ReplyFails \/ DiscardLeak
  BY <1>3, <1>5 DEF LeakInv, SendHeartbeat, ReplyFails, DiscardLeak, Return
<1>6. CASE Deliver \/ End \/ Tick BY <1>3, <1>6 DEF LeakInv, Deliver, End, Tick, Blocked
<1>7. CASE UNCHANGED vars BY <1>3, <1>7 DEF LeakInv, vars
<1>. QED BY <1>1, <1>2, <1>4, <1>5, <1>6, <1>7 DEF Next, Step, Terminated

\* AlignedClaimIsGenuine: of a server that does not leak nothing is claimed, as
\* long as the drain's one read did not stop inside a record.
THEOREM AlignedClaimTheorem == Spec => []AlignedClaimIsGenuine
<1>1. Init => LeakInv BY DEF Init, LeakInv
<1>2. LeakInv => AlignedClaimIsGenuine BY DEF LeakInv, AlignedClaimIsGenuine
<1>. QED BY <1>1, <1>2, LeakStep, TypeCorrectness, StreamInvariant, PTL DEF Spec

----------------------------------------------------------------------------
(* Findings. *)

\* The answer of a leaking server is all that is still to come.
Ready ==
  server.answer = "leak" /\ ended = "open" /\ drained = Len(server.flight) /\ drained > 0

FindInv ==
  /\ pc = "beat" => readBy = writeBy
  /\ pc = "done" /\ Ready /\ now < readBy => result = "vulnerable"

LEMMA FindStep ==
  TypeOK /\ TimeInv /\ StreamInv /\ FindInv /\ [Next]_vars => FindInv'
<1>. SUFFICES ASSUME TypeOK, TimeInv, StreamInv, FindInv, [Next]_vars PROVE FindInv'  OBVIOUS
<1>. USE DEF FindInv, Return
<1>1. CASE ReadHeader
  <2>1. UNCHANGED <<server, drained, ended>> /\ pc = "reply" /\ inbox # <<>> /\ pc' # "beat"
    BY <1>1 DEF ReadHeader
  <2>2. CASE Leaks(Head(inbox)) BY <1>1, <2>2 DEF ReadHeader
  <2>3. CASE ~Leaks(Head(inbox))
    <3>1. ~Ready BY <2>1, <2>3, NextHeader DEF Ready, Flight
    <3>. QED BY <2>1, <3>1 DEF Ready
  <2>. QED BY <2>2, <2>3
<1>2. CASE ReplyFails
  <2>1. UNCHANGED <<now, readBy, ended>> /\ (ended # "open" \/ now >= readBy) /\ pc' = "done"
    BY <1>2 DEF ReplyFails, ReadFails, stream
  <2>. QED BY <2>1 DEF Ready, TypeOK
<1>3. CASE SendHeartbeat
  <2>1. CASE WriteFails
    <3>1. /\ UNCHANGED <<now, readBy, ended>> /\ readBy = writeBy /\ pc' = "done"
          /\ now >= writeBy \/ ended = "reset"
      BY <1>3, <2>1 DEF SendHeartbeat, WriteFails
    <3>. QED BY <3>1 DEF Ready, TypeOK
  <2>2. CASE ~WriteFails BY <1>3, <2>2 DEF SendHeartbeat
  <2>. QED BY <2>1, <2>2
<1>4. CASE DialFails
  <2>1. drained' = 0 /\ pc' = "done" BY <1>4 DEF DialFails, StreamInv
  <2>. QED BY <2>1 DEF Ready
<1>5. CASE SendHello
  <2>1. drained' = 0 /\ pc' # "beat" BY <1>5 DEF SendHello, StreamInv
  <2>. QED BY <2>1 DEF Ready
<1>6. CASE DrainFails
  <2>1. ended' # "open" /\ pc' = "done" BY <1>6 DEF DrainFails, stream
  <2>. QED BY <2>1 DEF Ready
<1>7. CASE Dial \/ DrainReads \/ DrainTimesOut \/ DiscardLeak
  BY <1>7 DEF Dial, DrainReads, DrainTimesOut, DiscardLeak, TimeInv
<1>8. CASE Deliver \/ End \/ Tick BY <1>8 DEF Deliver, End, Tick, Blocked
<1>9. CASE UNCHANGED vars BY <1>9 DEF vars, stream, Ready
<1>. QED BY <1>1, <1>2, <1>3, <1>4, <1>5, <1>6, <1>7, <1>8, <1>9
         DEF Next, Step, Terminated

\* FindsTheLeak: when the drain took the whole flight and the leak arrived before
\* the read's deadline, it is reported, whatever the flight and the timing.
THEOREM FindsTheLeakTheorem == Spec => []FindsTheLeak
<1>1. Init => FindInv BY DEF Init, FindInv
<1>2. FindInv => FindsTheLeak BY DEF FindInv, FindsTheLeak, Ready
<1>. QED BY <1>1, <1>2, FindStep, TypeCorrectness, TimeInvariant, StreamInvariant, PTL DEF Spec
=============================================================================
