------------------------------ MODULE Service ------------------------------
(***************************************************************************)
(* One call of tlsscan.Scan and who makes it: a request to the HTTP        *)
(* service (cmd/headerforge-tls/main.go, handleScan) or a run of the       *)
(* command line (cmd/tlsscan/main.go).  The caller gives the scan a        *)
(* timeout for each connection and a context with a deadline for all of    *)
(* them; guardTarget (pkg/tlsscan/guard.go) looks the host up first.       *)
(*                                                                         *)
(* What the probes find is the matter of Scan and of the probes' modules.  *)
(* Here a scan is the sequence of its connections, each with the deadlines *)
(* its probe sets, and time passes while the call is blocked in one.       *)
(***************************************************************************)
EXTENDS Integers, Sequences, FiniteSetsExt

CONSTANTS Requests,        \* the calls that may be made
          Suites,          \* how many suites the cipher phase tries
          DefaultTimeout,  \* 15 s, in ticks as all that follows
          Grace,           \* 5 s, what the context has on top of the timeout
          TimeoutCap,      \* 4 s, capTimeout
          OracleCap,       \* 3 s, the cap of the two oracle probes
          ReactionCap,     \* 1.5 s, how long the ROBOT probe waits for a reaction
          Ceiling,         \* 12 s, the context of the CBC probe
          Unit,            \* ticks of one unit of timeout_ms
          HalfWord,        \* 2^63, the first time.Duration that wraps
          LookupMax        \* bound: how long the resolver may take

\* External: the addresses of a host, by the classes isBlockedIP tells apart.
AddressClasses ==
  {"loopback", "private", "link-local", "unspecified", "metadata", "cgnat", "public"}

\* form: what guardTarget looks at before it resolves; addresses: what the
\* resolver returns to it, nothing for a failure.  Each dial resolves the name
\* again: which address it reaches is left open.
HostType == [form : {"empty", "internal", "literal", "name"}, addresses : Seq(AddressClasses)]

\* fault: what keeps the call from reaching Scan at all.
RequestType ==
  [caller : {"service", "command"}, fault : {"none", "method", "body", "usage"},
   host : HostType, timeout : Int, checkVulns : BOOLEAN]

ASSUME RequestsAssumption ==
  \A r \in Requests : /\ r \in RequestType
                      /\ r.fault # "none" => (r.caller = "command" <=> r.fault = "usage")
                      /\ r.host.form = "literal" => Len(r.host.addresses) = 1
                      /\ -HalfWord <= r.timeout /\ r.timeout < HalfWord
ASSUME TimesAssumption ==
  /\ DefaultTimeout \in Nat \ {0} /\ Grace \in Nat \ {0} /\ TimeoutCap \in Nat \ {0}
  /\ OracleCap \in Nat \ {0} /\ ReactionCap \in Nat \ {0} /\ Ceiling \in Nat
  /\ Unit \in Nat \ {0} /\ HalfWord \in Nat \ {0} /\ LookupMax \in Nat
  /\ OracleCap <= TimeoutCap
ASSUME SuitesAssumption == Suites \in Nat

----------------------------------------------------------------------------
(* Durations. *)

\* A time.Duration is a signed word.
Wrapped(d) == ((d + HalfWord) % (2 * HalfWord)) - HalfWord

\* The timeout a request asks for; only the service takes 0 for the default.
Asked(r) ==
  IF r.caller = "command" THEN r.timeout
  ELSE IF r.timeout > 0 THEN Wrapped(r.timeout * Unit) ELSE DefaultTimeout

\* The deadline of the context, from the beginning of the call.
Allowed(t) == Wrapped(t + Grace)

\* The timeout of a connection, as Scan takes it.
Effective(t) == IF t = 0 THEN DefaultTimeout ELSE t

Capped(t, cap) == IF t < cap THEN t ELSE cap

----------------------------------------------------------------------------
(* The connections of a scan, in order. *)

RobotExchanges == 10   \* five vectors, twice each
CbcExchanges   == 6    \* three vectors, twice each

Times(kind, n) == [i \in 1..n |-> kind]

\* Versions, certificate and suites; then the active probes.
Script(checkVulns) ==
  Times("tls", 4) \o Times("raw", 2) \o Times("certificate", 2) \o Times("tls", Suites)
    \o IF ~checkVulns THEN <<>>
       ELSE <<"heartbleed", "raw", "raw", "raw">> \o Times("robot", 1 + RobotExchanges)
              \o <<"fallback">> \o Times("cbc", 1 + CbcExchanges)

\* The timeout of the dial, and how long the connection may last once it is
\* there: the Heartbleed probe renews its deadline for the answer, the ROBOT
\* probe for the reaction.  The CBC client renews it for the server's Finished;
\* a session that comes after the first deadline cannot be written to.
DialTime(kind, t) ==
  CASE kind \in {"tls", "certificate", "heartbleed"} -> t
    [] kind \in {"raw", "fallback"} -> Capped(t, TimeoutCap)
    [] kind \in {"robot", "cbc"}    -> Capped(t, OracleCap)

HoldTime(kind, t) ==
  LET d == DialTime(kind, t)
  IN CASE kind = "heartbleed" -> 2 * d
       [] kind = "robot"      -> d + Capped(d, ReactionCap)
       [] kind = "cbc"        -> 2 * d
       [] OTHER               -> d

\* crypto/tls gives a handshake up when its context is done; the connections
\* of the raw probes do not know theirs.
WatchesContext(kind) == kind \in {"tls", "certificate"}

----------------------------------------------------------------------------

VARIABLES request,   \* fixed
          now,       \* ticks since the call began
          timeout,   \* opts.Timeout
          budget,    \* when the context of the call expires
          left,      \* the client of the service is gone
          pc,        \* "handler", "guard", "scan", "done"
          script,    \* the connections of this scan
          at,        \* the one it is at
          phase,     \* of that one: "idle", "dial", "hold"
          by,        \* its deadline
          ceiling,   \* when the context of the CBC probe expires
          response   \* status or exit code

conn == <<at, phase, by, ceiling>>
vars == <<request, now, timeout, budget, left, pc, script, conn, response>>

Responses == {"200", "405", "400", "422", "exit 0", "exit 1", "exit 2"}

Init ==
  /\ request \in Requests
  /\ now = 0 /\ timeout = 0 /\ budget = 0 /\ left = FALSE
  /\ pc = "handler" /\ script = <<>>
  /\ at = 1 /\ phase = "idle" /\ by = 0 /\ ceiling = 0
  /\ response = "none"

Reply(service, command) ==
  /\ pc' = "done"
  /\ response' = (IF request.caller = "service" THEN service ELSE command)

----------------------------------------------------------------------------
(* handleScan, main, and guardTarget. *)

\* The wrong method, a body that is no JSON, or no host on the command line.
Decline ==
  /\ pc = "handler" /\ request.fault # "none"
  /\ Reply(IF request.fault = "method" THEN "405" ELSE "400", "exit 2")
  /\ UNCHANGED <<request, now, timeout, budget, left, script, conn>>

Handle ==
  /\ pc = "handler" /\ request.fault = "none"
  /\ budget' = now + Allowed(Asked(request))
  /\ timeout' = Effective(Asked(request))
  /\ pc' = "guard"
  /\ UNCHANGED <<request, now, left, script, conn, response>>

isBlockedIP(class) == class # "public"

\* guardTarget: of a name, every address it resolves to is checked.
Admits(host) ==
  /\ host.form \in {"literal", "name"} /\ host.addresses # <<>>
  /\ \A i \in DOMAIN host.addresses : ~isBlockedIP(host.addresses[i])

\* The lookup takes its time, whatever the context.
guardTarget ==
  /\ pc = "guard"
  /\ IF Admits(request.host)
     THEN /\ pc' = "scan" /\ script' = Script(request.checkVulns)
          /\ UNCHANGED response
     ELSE Reply("422", "exit 1") /\ UNCHANGED script
  /\ UNCHANGED <<request, now, timeout, budget, left, conn>>

----------------------------------------------------------------------------
(* The connections. *)

Kind == script[at]

\* The first connection behind those of the same probe.
Past(i) == Min({j \in i..(Len(script) + 1) : j > Len(script) \/ script[j] # script[i]})

\* Mutant: the context is looked at between the probes only.
CallerDoneIdle == phase = "idle" /\ (left \/ now >= budget)

CallerDone == left \/ now >= budget

\* Mutant: the CBC probe dials under the context of the call.
ContextDoneNoCeiling == CallerDone

\* The context a dial runs under.
ContextDone == CallerDone \/ (Kind = "cbc" /\ now >= ceiling)

\* Mutant: the certificate is fetched until there is one.
FollowingRetry(ok) ==
  CASE Kind = "certificate"         -> IF ok THEN {Past(at)} ELSE {at}
    [] Kind \in {"robot", "cbc"}    -> IF ok THEN {at + 1, Past(at)} ELSE {Past(at)}
    [] OTHER                        -> {at + 1}

\* Mutant: a probe that stops skips as many connections as it has in all.
FollowingCounted(ok) ==
  CASE Kind = "certificate"         -> IF ok THEN {Past(at)} ELSE {at + 1}
    [] Kind \in {"robot", "cbc"}    -> {at + 1, at + CbcExchanges}
    [] OTHER                        -> {at + 1}

\* Which connection comes next.  The certificate is fetched again only after a
\* failure; the oracle probes go on only after a success, and may stop there
\* too, at the first difference.
Following(ok) ==
  CASE Kind = "certificate"         -> IF ok THEN {Past(at)} ELSE {at + 1}
    [] Kind \in {"robot", "cbc"}    -> IF ok THEN {at + 1, Past(at)} ELSE {Past(at)}
    [] OTHER                        -> {at + 1}

Ends(ok) == phase' = "idle" /\ at' \in Following(ok)

\* A dial begins; the CBC probe sets its ceiling when it begins.
Dial ==
  /\ pc = "scan" /\ phase = "idle" /\ at <= Len(script)
  /\ phase' = "dial" /\ by' = now + DialTime(Kind, timeout)
  /\ ceiling' = (IF Kind = "cbc" /\ script[at - 1] # "cbc" THEN now + Ceiling ELSE ceiling)
  /\ UNCHANGED <<request, now, timeout, budget, left, pc, script, at, response>>

\* The fallback probe is left out when the versions give it none to try.
SkipFallback ==
  /\ pc = "scan" /\ phase = "idle" /\ at <= Len(script) /\ Kind = "fallback"
  /\ at' = at + 1
  /\ UNCHANGED <<request, now, timeout, budget, left, pc, script, phase, by, ceiling, response>>

Connect ==
  /\ pc = "scan" /\ phase = "dial" /\ ~ContextDone /\ now <= by
  /\ phase' = "hold" /\ by' = now + HoldTime(Kind, timeout)
  /\ UNCHANGED <<request, now, timeout, budget, left, pc, script, at, ceiling,
                 response>>

\* A dial is refused, times out, or ends with its context.
DialFails ==
  /\ pc = "scan" /\ phase = "dial" /\ Ends(FALSE)
  /\ UNCHANGED <<request, now, timeout, budget, left, pc, script, by, ceiling, response>>

Aborted == WatchesContext(Kind) /\ CallerDone

\* A connection ends, with what its probe wanted or without.
Finish ==
  /\ pc = "scan" /\ phase = "hold"
  /\ \E ok \in BOOLEAN : Ends(ok) /\ (ok => ~Aborted)
  /\ UNCHANGED <<request, now, timeout, budget, left, pc, script, by, ceiling, response>>

\* Scan rates what there is and returns; the caller prints it.
Return ==
  /\ pc = "scan" /\ phase = "idle" /\ at > Len(script)
  /\ Reply("200", "exit 0")
  /\ UNCHANGED <<request, now, timeout, budget, left, script, conn>>

----------------------------------------------------------------------------
(* The environment. *)

\* The client of the service goes away, which cancels the context.
Leave ==
  /\ request.caller = "service" /\ pc \in {"guard", "scan"} /\ ~left
  /\ left' = TRUE
  /\ UNCHANGED <<request, now, timeout, budget, pc, script, conn, response>>

Blocked ==
  \/ pc = "guard" /\ request.host.form = "name" /\ now < LookupMax
  \/ pc = "scan" /\ phase = "dial" /\ ~ContextDone /\ now < by
  \/ pc = "scan" /\ phase = "hold" /\ ~Aborted /\ now < by

Tick ==
  /\ Blocked /\ now' = now + 1
  /\ UNCHANGED <<request, timeout, budget, left, pc, script, conn, response>>

Terminated == pc = "done" /\ UNCHANGED vars

Step == Decline \/ Handle \/ guardTarget \/ Dial \/ SkipFallback \/ Connect
          \/ DialFails \/ Finish \/ Return

Next == Step \/ Leave \/ Tick \/ Terminated

\* Every blocking call of the scan has a deadline or a resolver that answers.
Spec == Init /\ [][Next]_vars /\ WF_vars(Step) /\ WF_vars(Tick)

----------------------------------------------------------------------------
(* Properties. *)

\* Every variable has its type.
TypeOK ==
  /\ request \in Requests
  /\ now \in Nat /\ timeout \in Int /\ budget \in Int /\ left \in BOOLEAN
  /\ pc \in {"handler", "guard", "scan", "done"}
  /\ script \in {<<>>} \cup {Script(v) : v \in BOOLEAN}
  /\ at \in 1..(Len(script) + 1) /\ phase \in {"idle", "dial", "hold"}
  /\ by \in Int /\ ceiling \in Nat
  /\ response \in Responses \cup {"none"}

\* However the host spreads its silence over the connections, and whether the
\* durations wrapped or not, the call ends within its context and the last
\* connection's own deadlines, or at the latest when the resolver answers.
EndsInTime == now <= LookupMax \/ now <= budget + 2 * timeout

\* The CBC probe stops dialling at its ceiling, but the session it then has, and
\* its reaction, are still waited for: that much it may overrun (see
\* CeilingKeepsTheBudget), and no more.
CbcOverrunIsBounded ==
  phase # "idle" /\ Kind = "cbc" => now <= ceiling + 2 * OracleCap

\* Every call is answered, whatever the host does and whether the client waits.
Answered == <>(pc = "done" /\ response # "none")

----------------------------------------------------------------------------
(* What a comment promises and the deadlines do otherwise. *)

\* cbc_oracle.go: "put a hard ceiling on the entire probe so it can never
\* approach the 15s budget".  Whatever the host delays, the probe takes less than
\* the default timeout from its first dial on.
CeilingKeepsTheBudget ==
  phase # "idle" /\ Kind = "cbc" => now < ceiling - Ceiling + DefaultTimeout
=============================================================================
