---------------------------- MODULE MCRawProbes -----------------------------
(***************************************************************************)
(* Servers for the model-checking runs of RawProbes.                       *)
(***************************************************************************)
EXTENDS RawProbes

Reneg == [type |-> RenegInfo, len |-> 0]
Other == [type |-> 2, len |-> 2]

Hello(sid, exts, damage) == [sid |-> sid, exts |-> exts, damage |-> damage]
Plain == Hello(1, <<>>, "none")

\* Fields cut into records behind the given ones.
Cut(fields, cuts) ==
  LET ends == SetToSortSeq((cuts \cap 1..(Len(fields) - 1)) \cup {Len(fields)}, <)
  IN [i \in DOMAIN ends |->
        SubSeq(fields, (IF i = 1 THEN 0 ELSE ends[i - 1]) + 1, ends[i])]

Server(probe, selects, hello, cuts, refusal) ==
  LET s == [probe |-> probe, selects |-> selects, hello |-> hello, refusal |-> refusal]
  IN s @@ [pieces |-> Cut(Flight(s), cuts)]

\* The probes that look at one field, and who declines them.
Peeked ==
  {Server(p, TRUE, Plain, c, "silence") : p \in Probes, c \in {{}, {1}}}
    \cup {Server(p, FALSE, Plain, {}, r) :
            p \in Probes, r \in {"silence", "alert", "fallback", "request"}}
    \cup {Server(p, FALSE, Plain, {2}, "newer") : p \in {"ssl3", "ssl2"}}

\* ServerHellos with and without renegotiation_info, behind or before another
\* extension, cut inside the header, inside the extensions and at the end.
Sound == {Hello(sid, exts, "none") :
            sid \in {0, 1}, exts \in {<<>>, <<Reneg>>, <<Other>>, <<Other, Reneg>>}}
Cuts  == {{}, {1}, {2, 5}, {1, 2, 3, 6, 7}, {8}, {5, 9}}

Damaged ==
  {Hello(1, <<Reneg>>, d) : d \in {"sid", "total", "truncated", "absurd"}}

RenegServers == {Server("reneg", TRUE, h, c, "silence") : h \in Sound, c \in Cuts}
BadServers   == {Server("reneg", TRUE, h, c, "silence") : h \in Damaged, c \in {{}, {2, 5}}}

AllServers == Peeked \cup RenegServers \cup BadServers
=============================================================================
