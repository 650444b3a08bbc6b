----------------------------- MODULE MCService -----------------------------
(***************************************************************************)
(* Calls for the model-checking runs of Service.                           *)
(***************************************************************************)
EXTENDS Service

Host(form, addresses) == [form |-> form, addresses |-> addresses]

Call(caller, fault, host, t, vulns) ==
  [caller |-> caller, fault |-> fault, host |-> host, timeout |-> t,
   checkVulns |-> vulns]

Public == Host("name", <<"public">>)

\* Calls that never reach Scan, and hosts of every kind.
Declined ==
  {Call("service", f, Public, 0, FALSE) : f \in {"method", "body"}}
    \cup {Call("command", "usage", Public, 0, FALSE)}

Hosts ==
  {Host("empty", <<>>), Host("internal", <<"public">>), Host("name", <<>>),
   Host("literal", <<"public">>), Host("name", <<"public", "public">>),
   Host("name", <<"public", "private">>), Host("name", <<"cgnat", "public">>)}
    \cup {Host("literal", <<c>>) : c \in AddressClasses}

\* Timeouts the service takes for the default, takes as they are, or that wrap:
\* to a negative duration, to none at all, and to a small one; and those of the
\* command line, none, negative, and one that wraps with the grace only.
AllCalls ==
  Declined
    \cup {Call(c, "none", h, 1, FALSE) : c \in {"service", "command"}, h \in Hosts}
    \cup {Call("service", "none", Public, t, v) : t \in {-1, 0, 1, 4, 8, 9}, v \in BOOLEAN}
    \cup {Call("command", "none", Public, t, v) : t \in {-1, 0, 2, 15}, v \in BOOLEAN}

\* The default of both callers, in ticks of half a second.
PatientCall == {Call("command", "none", Public, 30, TRUE)}
=============================================================================
