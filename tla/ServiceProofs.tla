---------------------------- MODULE ServiceProofs ----------------------------
(***************************************************************************)
(* Theorems about Service, for every set of calls and every setting of the *)
(* timeouts: the types, and the bounds on the time a call and its CBC      *)
(* probe take.                                                             *)
(***************************************************************************)
EXTENDS Service, SequenceTheorems, WellFoundedInduction, TLAPS

Kinds == {"tls", "raw", "certificate", "heartbleed", "robot", "fallback", "cbc"}

----------------------------------------------------------------------------
(* Durations. *)

\* A duration that fits its word is not changed, and every one is a duration.
LEMMA Wrapping ==
  ASSUME NEW d \in Int
  PROVE  /\ Wrapped(d) \in Int
         /\ -HalfWord <= d /\ d < HalfWord => Wrapped(d) = d
<1>. DEFINE m == 2 * HalfWord
            e == d + HalfWord
<1>1. m \in Nat /\ m > 0 /\ e \in Int BY TimesAssumption
<1>2. e % m \in Int BY <1>1
<1>3. ASSUME 0 <= e, e < m PROVE e % m = e
  <2>. HIDE DEF m, e
  <2>. QED BY <1>1, <1>3
<1>. QED BY <1>1, <1>2, <1>3, TimesAssumption DEF Wrapped

LEMMA AskedIsADuration == ASSUME NEW r \in Requests PROVE Asked(r) \in Int
<1>1. r.timeout \in Int BY RequestsAssumption DEF RequestType
<1>2. r.timeout * Unit \in Int BY <1>1, TimesAssumption
<1>. QED BY <1>1, <1>2, Wrapping, TimesAssumption DEF Asked

\* No connection waits longer than its timeout to be made, nor twice its
\* timeout in all; those of the CBC probe are bounded by the oracles' cap.
LEMMA TimesOfAConnection ==
  ASSUME NEW k \in Kinds, NEW t \in Int
  PROVE  /\ DialTime(k, t) \in Int /\ HoldTime(k, t) \in Int
         /\ DialTime(k, t) <= t
         /\ t > 0 => HoldTime(k, t) <= 2 * t
         /\ k = "cbc" => HoldTime(k, t) <= 2 * OracleCap
BY TimesAssumption DEF Kinds, DialTime, HoldTime, Capped

----------------------------------------------------------------------------
(* The script. *)

LEMMA TimesIsASequence ==
  ASSUME NEW k \in Kinds, NEW n \in Nat PROVE Times(k, n) \in Seq(Kinds)
BY DEF Times

\* What begins with a version still does when there is more.
LEMMA Prolonged ==
  ASSUME NEW s \in Seq(Kinds), NEW t \in Seq(Kinds), Len(s) >= 1, s[1] = "tls"
  PROVE  s \o t \in Seq(Kinds) /\ Len(s \o t) >= 1 /\ (s \o t)[1] = "tls"
OBVIOUS

\* The connections of a scan are of the known kinds, and begin with a version.
LEMMA ScriptIsASequence ==
  ASSUME NEW v \in BOOLEAN
  PROVE  /\ Script(v) \in Seq(Kinds)
         /\ Len(Script(v)) >= 1 /\ Script(v)[1] = "tls"
<1>. DEFINE first == Times("tls", 4)
            phases == first \o Times("raw", 2) \o Times("certificate", 2)
                        \o Times("tls", Suites)
            probes == IF ~v THEN <<>>
                      ELSE <<"heartbleed", "raw", "raw", "raw">>
                             \o Times("robot", 1 + RobotExchanges)
                             \o <<"fallback">> \o Times("cbc", 1 + CbcExchanges)
<1>1. first \in Seq(Kinds) /\ Len(first) = 4 /\ first[1] = "tls"
  BY DEF Times, Kinds
<1>. HIDE DEF first, phases, probes
<1>2. /\ Times("raw", 2) \in Seq(Kinds) /\ Times("certificate", 2) \in Seq(Kinds)
      /\ Times("tls", Suites) \in Seq(Kinds)
      /\ Times("robot", 1 + RobotExchanges) \in Seq(Kinds)
      /\ Times("cbc", 1 + CbcExchanges) \in Seq(Kinds)
  <2>1. {"raw", "certificate", "tls", "robot", "cbc"} \subseteq Kinds BY DEF Kinds
  <2>2. 1 + RobotExchanges \in Nat /\ 1 + CbcExchanges \in Nat
    BY DEF RobotExchanges, CbcExchanges
  <2>. QED BY <2>1, <2>2, TimesIsASequence, SuitesAssumption
<1>3. <<"heartbleed", "raw", "raw", "raw">> \in Seq(Kinds) /\ <<"fallback">> \in Seq(Kinds)
        /\ <<>> \in Seq(Kinds)
  BY DEF Kinds
<1>4. probes \in Seq(Kinds)
  BY <1>2, <1>3 DEF probes
<1>5. phases \in Seq(Kinds) /\ Len(phases) >= 1 /\ phases[1] = "tls"
  <2>1. Len(first) >= 1 BY <1>1
  <2>2. first \o Times("raw", 2) \in Seq(Kinds) /\ Len(first \o Times("raw", 2)) >= 1
          /\ (first \o Times("raw", 2))[1] = "tls"
    BY <1>1, <1>2, <2>1, Prolonged
  <2>. DEFINE front == first \o Times("raw", 2) \o Times("certificate", 2)
  <2>3. front \in Seq(Kinds) /\ Len(front) >= 1 /\ front[1] = "tls"
    BY <1>2, <2>2, Prolonged
  <2>4. phases = front \o Times("tls", Suites) BY DEF phases
  <2>. HIDE DEF front
  <2>. QED BY <1>2, <2>3, <2>4, Prolonged
<1>6. Script(v) = phases \o probes BY DEF Script, first, phases, probes
<1>. QED BY <1>4, <1>5, <1>6, Prolonged

LEMMA LeastOfNaturals ==
  ASSUME NEW S \in SUBSET Nat, S # {}
  PROVE  Min(S) \in S /\ \A y \in S : Min(S) <= y
<1>1. \E x \in S : \A y \in S : ~(<<y, x>> \in OpToRel(<, Nat))
  BY NatLessThanWellFounded, WFMin
<1>2. PICK x \in S : \A y \in S : ~(<<y, x>> \in OpToRel(<, Nat)) BY <1>1
<1>3. ASSUME NEW y \in S PROVE x <= y
  <2>1. x \in Nat /\ y \in Nat OBVIOUS
  <2>2. y < x => <<y, x>> \in OpToRel(<, Nat) BY <2>1 DEF OpToRel
  <2>3. ~(<<y, x>> \in OpToRel(<, Nat)) BY <1>2, Zenon
  <2>4. ~(y < x) BY <2>2, <2>3, Zenon
  <2>. QED BY <2>1, <2>4
<1>. QED BY <1>3 DEF Min

\* Whatever comes next lies behind this connection and within the script, and
\* right behind a connection of the same kind.
LEMMA FollowingOn ==
  ASSUME script \in Seq(Kinds), at \in 1..Len(script), NEW ok \in BOOLEAN,
         NEW n \in Following(ok)
  PROVE  n \in (at + 1)..(Len(script) + 1) /\ script[n - 1] = Kind
<1>. DEFINE S == {j \in at..(Len(script) + 1) : j > Len(script) \/ script[j] # script[at]}
            p == Min(S)
<1>1. S \in SUBSET Nat /\ Len(script) + 1 \in S OBVIOUS
<1>2. p \in S /\ \A y \in S : p <= y
  <2>. HIDE DEF S
  <2>. QED BY <1>1, LeastOfNaturals
<1>3. p # at BY <1>2
<1>4. p \in (at + 1)..(Len(script) + 1) BY <1>2, <1>3
<1>5. script[p - 1] = script[at]
  <2>1. p - 1 \in at..Len(script) BY <1>4
  <2>2. p - 1 \notin S BY <1>2, <2>1
  <2>. QED BY <2>1, <2>2
<1>6. Past(at) = p BY DEF Past
<1>7. n \in {at + 1, p} BY <1>6 DEF Following
<1>. QED BY <1>4, <1>5, <1>7 DEF Kind

----------------------------------------------------------------------------
(* Types. *)

\* What the types of the later phases rest on.
PhaseInv ==
  /\ pc \in {"handler", "guard"} => at = 1 /\ phase = "idle"
  /\ phase # "idle" => pc = "scan" /\ at <= Len(script)

TypeInv == TypeOK /\ PhaseInv

\* The script is none or that of a scan.
LEMMA ScriptTyped ==
  ASSUME TypeOK
  PROVE  /\ script \in Seq(Kinds)
         /\ at \in 1..Len(script) => Kind \in Kinds /\ script[1] = "tls"
<1>1. script = <<>> \/ \E v \in BOOLEAN : script = Script(v) BY DEF TypeOK
<1>2. script = <<>> => script \in Seq(Kinds) /\ 1..Len(script) = {} OBVIOUS
<1>3. script # <<>> => script \in Seq(Kinds) /\ script[1] = "tls" BY <1>1, ScriptIsASequence
<1>4. script \in Seq(Kinds) BY <1>2, <1>3
<1>5. at \in 1..Len(script) => Kind \in Kinds BY <1>4 DEF Kind
<1>. QED BY <1>2, <1>3, <1>4, <1>5

\* Every step keeps the types.
LEMMA TypeStep == TypeInv /\ [Next]_vars => TypeInv'
<1>. SUFFICES ASSUME TypeInv, [Next]_vars PROVE TypeInv'  OBVIOUS
<1>. USE DEF TypeInv, TypeOK, PhaseInv, conn
<1>0. script \in Seq(Kinds) /\ Len(script) \in Nat BY ScriptTyped
<1>1. CASE Decline BY <1>1 DEF Decline, Reply, Responses
<1>2. CASE Handle
  <2>1. Asked(request) \in Int BY AskedIsADuration
  <2>2. Allowed(Asked(request)) \in Int BY <2>1, Wrapping, TimesAssumption DEF Allowed
  <2>3. Effective(Asked(request)) \in Int BY <2>1, TimesAssumption DEF Effective
  <2>. QED BY <1>2, <2>2, <2>3 DEF Handle
<1>3. CASE guardTarget
  <2>1. request.checkVulns \in BOOLEAN BY RequestsAssumption DEF RequestType
  <2>2. script' \in {<<>>} \cup {Script(v) : v \in BOOLEAN}
    BY <1>3, <2>1 DEF guardTarget, Reply
  <2>3. Len(script') \in Nat BY <2>2, ScriptIsASequence
  <2>4. response' \in Responses \cup {"none"} BY <1>3 DEF guardTarget, Reply, Responses
  <2>5. at = 1 /\ phase = "idle" BY <1>3 DEF guardTarget
  <2>6. pc' \in {"scan", "done"} BY <1>3 DEF guardTarget, Reply
  <2>. HIDE DEF TypeInv, TypeOK, PhaseInv
  <2>7. at' = 1 BY <1>3, <2>5 DEF guardTarget
  <2>8. UNCHANGED <<request, now, timeout, budget, left, conn>>
    BY <1>3 DEF guardTarget
  <2>9. TypeOK' BY <2>2, <2>3, <2>4, <2>6, <2>7, <2>8 DEF TypeInv, TypeOK
  <2>. QED BY <2>5, <2>6, <2>8, <2>9 DEF TypeInv, PhaseInv
<1>4. CASE Dial
  <2>1. at \in 1..Len(script) BY <1>4, <1>0 DEF Dial
  <2>2. DialTime(Kind, timeout) \in Int BY <2>1, ScriptTyped, TimesOfAConnection
  <2>3. by' \in Int BY <1>4, <2>2 DEF Dial
  <2>4. ceiling' \in Nat BY <1>4, TimesAssumption DEF Dial
  <2>. QED BY <1>4, <1>0, <2>1, <2>3, <2>4 DEF Dial
<1>5. CASE SkipFallback BY <1>5, <1>0 DEF SkipFallback
<1>6. CASE Connect
  <2>1. at \in 1..Len(script) BY <1>6, <1>0 DEF Connect
  <2>2. HoldTime(Kind, timeout) \in Int BY <2>1, ScriptTyped, TimesOfAConnection
  <2>3. by' \in Int BY <1>6, <2>2 DEF Connect
  <2>. QED BY <1>6, <2>3 DEF Connect
<1>7. ASSUME NEW ok \in BOOLEAN, Ends(ok), phase # "idle"
      PROVE  at' \in 1..(Len(script) + 1) /\ phase' = "idle"
  BY <1>7, <1>0, FollowingOn DEF Ends
<1>8. CASE DialFails BY <1>8, <1>7 DEF DialFails
<1>9. CASE Finish BY <1>9, <1>7 DEF Finish
<1>10. CASE Return BY <1>10 DEF Return, Reply, Responses
<1>11. CASE Leave BY <1>11 DEF Leave
<1>12. CASE Tick BY <1>12 DEF Tick
<1>13. CASE UNCHANGED vars BY <1>13 DEF vars
<1>. QED BY <1>1, <1>2, <1>3, <1>4, <1>5, <1>6, <1>8, <1>9, <1>10, <1>11, <1>12, <1>13
         DEF Next, Step, Terminated

LEMMA TypeInvariant == Spec => []TypeInv
<1>1. ASSUME Init PROVE TypeInv
  <2>1. script = <<>> /\ at = 1 /\ Len(script) = 0 BY <1>1 DEF Init
  <2>2. at \in 1..(Len(script) + 1) BY <2>1
  <2>3. PhaseInv BY <1>1 DEF Init, PhaseInv
  <2>4. left \in BOOLEAN BY <1>1 DEF Init
  <2>5. script \in {<<>>} \cup {Script(v) : v \in BOOLEAN} BY <2>1
  <2>6. now \in Nat /\ timeout \in Int /\ budget \in Int /\ by \in Int /\ ceiling \in Nat
    BY <1>1 DEF Init
  <2>7. /\ request \in Requests /\ pc = "handler" /\ phase = "idle" /\ response = "none"
    BY <1>1 DEF Init
  <2>8. TypeOK BY <2>2, <2>4, <2>5, <2>6, <2>7 DEF TypeOK
  <2>. QED BY <2>3, <2>8 DEF TypeInv
<1>. QED BY <1>1, TypeStep, PTL DEF Spec

\* TypeOK: every reachable state of a call is well typed; in particular a scan
\* is never past the end of its connections, whatever its probes skip.
THEOREM TypeCorrectness == Spec => []TypeOK
<1>1. TypeInv => TypeOK BY DEF TypeInv
<1>. QED BY <1>1, TypeInvariant, PTL

----------------------------------------------------------------------------
(* The time a call takes. *)

\* When the clock may have advanced how far.  A dial that may still wait has a
\* positive timeout and a context that is not done; a connection that is there
\* was made before the context was done.
TimeInv ==
  /\ pc = "handler" => now = 0
  /\ pc \in {"handler", "guard"} => now <= LookupMax
  /\ phase = "dial" /\ now <= by => timeout > 0
  /\ phase = "hold" => by <= budget + 2 * timeout /\ timeout > 0
  /\ pc \in {"guard", "scan"} => timeout # 0
  /\ EndsInTime

\* Every step keeps the clock within them.
LEMMA TimeStep == TypeInv /\ TimeInv /\ [Next]_vars => TimeInv'
<1>. SUFFICES ASSUME TypeInv, TimeInv, [Next]_vars PROVE TimeInv'  OBVIOUS
<1>0. Len(script) \in Nat /\ (phase # "idle" => pc = "scan" /\ at \in 1..Len(script))
  BY ScriptTyped DEF TypeInv, TypeOK, PhaseInv
<1>. USE TimesAssumption DEF TimeInv, EndsInTime, TypeInv, TypeOK, PhaseInv, conn
<1>1. CASE Decline BY <1>1 DEF Decline, Reply
<1>2. CASE Handle
  <2>1. phase' = "idle" /\ pc' = "guard" /\ now' = 0 BY <1>2 DEF Handle
  <2>2. timeout' # 0 BY <1>2 DEF Handle, Effective
  <2>. QED BY <2>1, <2>2
<1>3. CASE guardTarget BY <1>3 DEF guardTarget, Reply
<1>4. CASE Dial
  <2>1. at \in 1..Len(script) BY <1>4, <1>0 DEF Dial
  <2>2. /\ DialTime(Kind, timeout) <= timeout /\ DialTime(Kind, timeout) \in Int
    BY <2>1, ScriptTyped, TimesOfAConnection
  <2>. QED BY <1>4, <2>2 DEF Dial
<1>5. CASE SkipFallback BY <1>5 DEF SkipFallback
<1>6. CASE Connect
  <2>1. timeout > 0 /\ now < budget BY <1>6 DEF Connect, ContextDone, CallerDone
  <2>2. HoldTime(Kind, timeout) <= 2 * timeout /\ HoldTime(Kind, timeout) \in Int
    BY <1>0, <1>6, <2>1, ScriptTyped, TimesOfAConnection DEF Connect
  <2>. QED BY <1>6, <2>1, <2>2 DEF Connect
<1>7. CASE DialFails BY <1>7 DEF DialFails, Ends
<1>8. CASE Finish BY <1>8 DEF Finish, Ends
<1>9. CASE Return BY <1>9 DEF Return, Reply
<1>10. CASE Leave BY <1>10 DEF Leave
<1>11. CASE Tick
  <2>1. CASE pc = "guard" BY <1>11, <2>1 DEF Tick, Blocked
  <2>2. CASE phase = "dial"
    <3>1. pc = "scan" /\ now < by /\ now < budget
      BY <1>11, <2>2 DEF Tick, Blocked, ContextDone, CallerDone
    <3>. QED BY <1>11, <2>2, <3>1 DEF Tick
  <2>3. CASE phase = "hold" BY <1>11, <2>3 DEF Tick, Blocked
  <2>. QED BY <1>11, <2>1, <2>2, <2>3 DEF Tick, Blocked
<1>12. CASE UNCHANGED vars BY <1>12 DEF vars
<1>. QED BY <1>1, <1>2, <1>3, <1>4, <1>5, <1>6, <1>7, <1>8, <1>9, <1>10, <1>11, <1>12
         DEF Next, Step, Terminated

\* EndsInTime: a call is over within its context and what the connection it
\* then has may still take, or when the resolver answers, for every timeout, one
\* whose duration wraps too.
THEOREM EndsInTimeTheorem == Spec => []EndsInTime
<1>1. Init => TimeInv BY TimesAssumption DEF Init, TimeInv, EndsInTime
<1>2. TimeInv => EndsInTime BY DEF TimeInv
<1>. QED BY <1>1, <1>2, TimeStep, TypeInvariant, PTL DEF Spec

----------------------------------------------------------------------------

\* While a connection of the CBC probe is in use, and before the next, its
\* ceiling is set and not long gone.
CeilingInv ==
  /\ phase = "hold" /\ Kind = "cbc" => by <= ceiling + 2 * OracleCap
  /\ phase = "idle" /\ at <= Len(script) /\ Kind = "cbc" /\ script[at - 1] = "cbc" =>
       now <= ceiling + 2 * OracleCap
  /\ CbcOverrunIsBounded

\* Every step keeps the CBC probe within that.
LEMMA CeilingStep == TypeInv /\ CeilingInv /\ [Next]_vars => CeilingInv'
<1>. SUFFICES ASSUME TypeInv, CeilingInv, [Next]_vars PROVE CeilingInv'  OBVIOUS
<1>0. /\ script \in Seq(Kinds) /\ Len(script) \in Nat
      /\ phase # "idle" => pc = "scan" /\ at \in 1..Len(script)
  BY ScriptTyped DEF TypeInv, TypeOK, PhaseInv
<1>1. /\ now \in Nat /\ ceiling \in Nat /\ by \in Int /\ timeout \in Int
      /\ phase \in {"idle", "dial", "hold"}
  BY DEF TypeInv, TypeOK
<1>. USE TimesAssumption DEF CeilingInv, CbcOverrunIsBounded, conn
\* A call that is not yet at its first connection.
<1>2. CASE guardTarget
  <2>1. phase = "idle" /\ at = 1 BY <1>2 DEF guardTarget, TypeInv, PhaseInv
  <2>2. UNCHANGED conn /\ UNCHANGED now BY <1>2 DEF guardTarget
  <2>3. script' = script \/ \E v \in BOOLEAN : script' = Script(v)
    BY <1>2, RequestsAssumption DEF guardTarget, TypeInv, TypeOK, RequestType
  <2>4. CASE script' = script BY <2>1, <2>2, <2>4 DEF Kind
  <2>5. CASE \E v \in BOOLEAN : script' = Script(v)
    <3>1. script'[1] = "tls" BY <2>5, ScriptIsASequence
    <3>. QED BY <2>1, <2>2, <3>1 DEF Kind
  <2>. QED BY <2>3, <2>4, <2>5
<1>3. CASE Dial
  <2>1. UNCHANGED <<at, script, now>> /\ phase' = "dial" /\ Kind' = Kind
          /\ phase = "idle" /\ at <= Len(script)
    BY <1>3 DEF Dial, Kind
  <2>2. CASE Kind = "cbc" /\ script[at - 1] = "cbc"
    <3>1. ceiling' = ceiling BY <1>3, <2>2 DEF Dial
    <3>. QED BY <2>1, <2>2, <3>1
  <2>3. CASE Kind = "cbc" /\ script[at - 1] # "cbc"
    <3>1. ceiling' = now + Ceiling BY <1>3, <2>3 DEF Dial
    <3>. QED BY <1>1, <2>1, <3>1
  <2>4. CASE Kind # "cbc" BY <2>1, <2>4
  <2>. QED BY <2>2, <2>3, <2>4
<1>4. CASE Connect
  <2>1. UNCHANGED <<at, script, now, ceiling>> /\ phase' = "hold" /\ Kind' = Kind
          /\ phase = "dial" /\ by' = now + HoldTime(Kind, timeout)
    BY <1>4 DEF Connect, Kind
  <2>2. Kind = "cbc" => now < ceiling BY <1>4, <1>1 DEF Connect, ContextDone
  <2>3. Kind = "cbc" => HoldTime(Kind, timeout) <= 2 * OracleCap
                          /\ HoldTime(Kind, timeout) \in Int
    BY <1>0, <1>1, <2>1, ScriptTyped, TimesOfAConnection DEF TypeInv
  <2>. QED BY <1>1, <2>1, <2>2, <2>3
\* What comes behind a connection of the CBC probe keeps its ceiling.
<1>5. ASSUME NEW ok \in BOOLEAN, Ends(ok), phase # "idle",
             UNCHANGED <<script, now, ceiling>>
      PROVE  CeilingInv'
  <2>1. at' \in (at + 1)..(Len(script) + 1) /\ script[at' - 1] = Kind /\ phase' = "idle"
    BY <1>0, <1>5, FollowingOn DEF Ends
  <2>2. Kind = "cbc" => now <= ceiling + 2 * OracleCap BY <1>5
  <2>. QED BY <1>5, <2>1, <2>2
<1>6. CASE DialFails BY <1>6, <1>5 DEF DialFails
<1>7. CASE Finish BY <1>7, <1>5 DEF Finish
<1>8. CASE SkipFallback
  <2>1. script'[at' - 1] = "fallback" /\ phase' = "idle"
    BY <1>8, <1>0 DEF SkipFallback, Kind, TypeInv, TypeOK
  <2>. QED BY <2>1
<1>9. CASE Tick
  <2>1. UNCHANGED <<script, at, phase, by, ceiling>> /\ now' = now + 1 /\ Kind' = Kind
    BY <1>9 DEF Tick, Kind
  <2>2. CASE phase = "idle"
    <3>1. pc = "guard" BY <1>9, <2>2 DEF Tick, Blocked
    <3>2. at = 1 /\ at' = 1 /\ (at <= Len(script) => Kind # "cbc")
      BY <2>1, <3>1, <1>0, ScriptTyped DEF TypeInv, PhaseInv, Kind
    <3>. QED BY <2>1, <2>2, <3>2
  <2>3. CASE phase = "dial"
    <3>1. Kind = "cbc" => now < ceiling
      BY <1>1, <1>9, <2>3, <1>0 DEF Tick, Blocked, ContextDone
    <3>. QED BY <1>1, <2>1, <2>3, <3>1
  <2>4. CASE phase = "hold"
    <3>1. now < by BY <1>0, <1>9, <2>4 DEF Tick, Blocked
    <3>. QED BY <1>1, <2>1, <2>4, <3>1
  <2>. QED BY <1>1, <2>2, <2>3, <2>4
<1>10. CASE \/ Decline \/ Handle \/ Return \/ Leave \/ UNCHANGED vars
  <2>1. UNCHANGED <<script, at, phase, by, ceiling, now>>
    BY <1>10 DEF Decline, Handle, Return, Leave, vars
  <2>. QED BY <2>1 DEF Kind
<1>. QED BY <1>2, <1>3, <1>4, <1>6, <1>7, <1>8, <1>9, <1>10 DEF Next, Step, Terminated

\* CbcOverrunIsBounded: the CBC probe is over a session and a reaction behind its
\* ceiling at the latest, whatever the timeout and however the host delays.
THEOREM CbcOverrunTheorem == Spec => []CbcOverrunIsBounded
<1>1. Init => CeilingInv
  <2>1. ASSUME Init PROVE phase = "idle" /\ script = <<>> /\ at = 1 /\ Len(script) = 0
    BY <2>1 DEF Init
  <2>. QED BY <2>1 DEF CeilingInv, CbcOverrunIsBounded
<1>2. CeilingInv => CbcOverrunIsBounded BY DEF CeilingInv
<1>. QED BY <1>1, <1>2, CeilingStep, TypeInvariant, PTL DEF Spec
=============================================================================
