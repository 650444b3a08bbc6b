----------------------------- MODULE RawProofs -----------------------------
(***************************************************************************)
(* Theorems about RawProbes: types, that a flaw is claimed only of a       *)
(* server that has it and found in each that shows it in time, however its *)
(* answer is cut into records, and the time a probe takes.                 *)
(***************************************************************************)
EXTENDS RawProbes, Flattening, TLAPS

----------------------------------------------------------------------------
(* What serverHelloHasExtension finds in a ServerHello whose lengths are   *)
(* right.                                                                  *)

\* The step of its walk, over a message that ends behind last.
Walks(msg, want, last, f, p) ==
  /\ p + 2 <= last
  /\ msg[p + 1] = want \/ f[p + 2 + msg[p + 2]]

Walk(msg, want, last, f) == f = [p \in Nat |-> Walks(msg, want, last, f, p)]

\* The walk ends: there is a function that satisfies its recursion.
LEMMA WalkExists ==
  ASSUME NEW msg \in Seq(Nat), NEW want, NEW last \in Nat, last <= Len(msg)
  PROVE  \E f : Walk(msg, want, last, f)
<1>. DEFINE Right(f, p) == f[p] = Walks(msg, want, last, f, p)
            T == {d \in Nat : \E f \in [Nat -> BOOLEAN] :
                               \A p \in Nat : p + d >= last => Right(f, p)}
<1>0. ASSUME NEW p \in Nat, p + 2 <= last PROVE p + 2 + msg[p + 2] \in Nat
  <2>1. p + 2 \in 1..Len(msg) BY <1>0
  <2>2. msg[p + 2] \in Nat BY <2>1
  <2>. QED BY <2>2
<1>1. 0 \in T
  <2>1. ASSUME NEW p \in Nat, p + 0 >= last PROVE Right([q \in Nat |-> FALSE], p)
    <3>1. ~(p + 2 <= last) BY <2>1
    <3>. QED BY <3>1 DEF Walks
  <2>. QED BY <2>1
<1>2. ASSUME NEW d \in Nat, d \in T PROVE d + 1 \in T
  <2>1. PICK f \in [Nat -> BOOLEAN] : \A p \in Nat : p + d >= last => Right(f, p)
    BY <1>2
  <2>. DEFINE g == [p \in Nat |-> IF p + d >= last THEN f[p] ELSE Walks(msg, want, last, f, p)]
  <2>2. g \in [Nat -> BOOLEAN] BY DEF Walks
  <2>3. ASSUME NEW p \in Nat, p + (d + 1) >= last PROVE Right(g, p)
    <3>1. g[p] = Walks(msg, want, last, f, p) BY <2>1
    <3>2. ASSUME p + 2 <= last PROVE g[p + 2 + msg[p + 2]] = f[p + 2 + msg[p + 2]]
      <4>1. p + 2 \in 1..Len(msg) BY <3>2
      <4>2. msg[p + 2] \in Nat BY <4>1
      <4>3. p + 2 + msg[p + 2] \in Nat /\ p + 2 + msg[p + 2] + d >= last BY <2>3, <4>2
      <4>. QED BY <4>3
    <3>. HIDE DEF g
    <3>. QED BY <3>1, <3>2 DEF Walks
  <2>. HIDE DEF g
  <2>4. \E h \in [Nat -> BOOLEAN] : \A p \in Nat : p + (d + 1) >= last => Right(h, p)
    BY <2>2, <2>3
  <2>. QED BY <2>4
<1>. HIDE DEF T
<1>3. last \in T BY <1>1, <1>2, SetInduction
<1>4. PICK f \in [Nat -> BOOLEAN] : \A p \in Nat : p + last >= last => Right(f, p)
  BY <1>3 DEF T
<1>5. \A p \in Nat : f[p] = Walks(msg, want, last, f, p) BY <1>4
<1>. QED BY <1>5 DEF Walk

\* c is a with b behind it.
Joins(c, a, b) ==
  /\ c \in Seq(Nat) /\ Len(c) = Len(a) + Len(b)
  /\ Len(a) \in Nat /\ Len(b) \in Nat
  /\ \A i \in 1..Len(a) : c[i] = a[i]
  /\ \A i \in 1..Len(b) : c[Len(a) + i] = b[i]

LEMMA Joined ==
  ASSUME NEW a \in Seq(Nat), NEW b \in Seq(Nat)
  PROVE  Joins(a \o b, a, b)
<1>1. \A i \in 1..Len(a) : (a \o b)[i] = a[i] OBVIOUS
<1>2. ASSUME NEW i \in 1..Len(b) PROVE (a \o b)[Len(a) + i] = b[i]
  <2>1. /\ Len(a) + i \in 1..(Len(a) + Len(b))
        /\ ~(Len(a) + i <= Len(a)) /\ (Len(a) + i) - Len(a) = i
    OBVIOUS
  <2>. QED BY <2>1
<1>. QED BY <1>1, <1>2 DEF Joins

Parts(h) == [i \in DOMAIN h.exts |-> ExtFields(h.exts[i])]

LEMMA PartsLie ==
  ASSUME NEW h \in Hellos
  PROVE  /\ Parts(h) \in Seq(Seq(Nat)) /\ Len(Parts(h)) = Len(h.exts)
         /\ Len(h.exts) \in Nat
         /\ \A i \in 1..Len(h.exts) :
              /\ h.exts[i].type \in Nat /\ h.exts[i].len \in Nat
              /\ Len(Parts(h)[i]) = 2 + h.exts[i].len
              /\ Parts(h)[i][1] = h.exts[i].type /\ Parts(h)[i][2] = h.exts[i].len
<1>1. h.exts \in Seq([type : 0..2, len : 0..2]) BY DEF Hellos
<1>2. ASSUME NEW i \in 1..Len(h.exts)
      PROVE  /\ h.exts[i].type \in 0..2 /\ h.exts[i].len \in 0..2
             /\ Parts(h)[i] = ExtFields(h.exts[i])
  <2>. DEFINE es == h.exts
  <2>1. es \in Seq([type : 0..2, len : 0..2]) /\ i \in 1..Len(es) BY <1>1
  <2>. HIDE DEF es
  <2>2. i \in DOMAIN es BY <2>1
  <2>3. es[i] \in [type : 0..2, len : 0..2]
    <3>1. ASSUME NEW S, es \in Seq(S) PROVE es[i] \in S BY <2>1, <3>1
    <3>. QED BY <2>1, <3>1
  <2>4. es[i].type \in 0..2 /\ es[i].len \in 0..2 BY <2>3
  <2>. QED BY <2>2, <2>4 DEF Parts, es
<1>3. ASSUME NEW e, e.type \in 0..2, e.len \in 0..2
      PROVE  /\ ExtFields(e) \in Seq(Nat) /\ Len(ExtFields(e)) = 2 + e.len
             /\ ExtFields(e)[1] = e.type /\ ExtFields(e)[2] = e.len
  <2>. DEFINE a == <<e.type, e.len>>
              b == [i \in 1..e.len |-> RenegInfo]
  <2>1. a \in Seq(Nat) /\ Len(a) = 2 /\ a[1] = e.type /\ a[2] = e.len BY <1>3
  <2>2. b \in Seq(Nat) /\ Len(b) = e.len BY <1>3 DEF RenegInfo
  <2>. DEFINE c == a \o b
  <2>. HIDE DEF a, b
  <2>3. Joins(c, a, b) BY <2>1, <2>2, Joined
  <2>. HIDE DEF c
  <2>4. c \in Seq(Nat) /\ Len(c) = 2 + e.len /\ c[1] = a[1] /\ c[2] = a[2]
    BY <2>1, <2>2, <2>3 DEF Joins
  <2>. QED BY <2>1, <2>4 DEF ExtFields, a, b, c
<1>4. \A i \in 1..Len(h.exts) :
        Parts(h)[i] \in Seq(Nat) /\ Len(Parts(h)[i]) = 2 + h.exts[i].len
          /\ Parts(h)[i][1] = h.exts[i].type /\ Parts(h)[i][2] = h.exts[i].len
  BY <1>2, <1>3
<1>5. DOMAIN h.exts = 1..Len(h.exts) /\ Len(h.exts) \in Nat BY <1>1
<1>6. Parts(h) \in Seq(Seq(Nat)) /\ Len(Parts(h)) = Len(h.exts)
  <2>1. Parts(h) \in [1..Len(h.exts) -> Seq(Nat)] BY <1>4, <1>5 DEF Parts
  <2>. QED BY <1>5, <2>1
<1>7. \A i \in 1..Len(h.exts) : h.exts[i].type \in Nat /\ h.exts[i].len \in Nat
  <2>1. 0..2 \subseteq Nat OBVIOUS
  <2>. QED BY <1>2, <2>1
<1>. QED BY <1>4, <1>5, <1>6, <1>7

\* A ServerHello whose lengths are right: what serverHelloHasExtension reads of it.
Layout(h, msg) ==
  LET fields == FlattenSeq(Parts(h))
  IN /\ MsgLen(msg) = Len(msg) /\ 4 <= Len(msg) /\ msg[4] = h.sid
     /\ h.exts = <<>> => Len(msg) = 5 + h.sid
     /\ h.exts # <<>> =>
          /\ Len(msg) = 6 + h.sid + Len(fields) /\ msg[6 + h.sid] = Len(fields)
          /\ \A i \in 1..Len(fields) : msg[6 + h.sid + i] = fields[i]

LEMMA HelloLies ==
  ASSUME NEW h \in Hellos
  PROVE  /\ HelloMessage(h) \in Seq(Nat) /\ Len(HelloMessage(h)) >= 3
         /\ HelloMessage(h)[1] = ServerHello
         /\ h.damage = "none" => Layout(h, HelloMessage(h))
<1>. DEFINE fields == FlattenSeq(Parts(h))
            ext    == ExtBlock(h)
            sid    == <<IF h.damage = "sid" THEN 9 ELSE h.sid>> \o [i \in 1..h.sid |-> 0]
            upTo   == sid \o <<0>>
            rest   == IF h.damage = "truncated" THEN <<>> ELSE upTo \o ext
            body   == <<0>> \o rest
            head   == <<ServerHello, IF h.damage = "absurd" THEN MaxLen + 1 ELSE Len(body)>>
<1>1. HelloMessage(h) = head \o body BY DEF HelloMessage
<1>2. h.sid \in Nat BY DEF Hellos
<1>3. fields \in Seq(Nat) BY PartsLie, FlattenAt
<1>4. /\ ext \in Seq(Nat)
      /\ h.exts = <<>> => Len(ext) = 0
      /\ h.exts # <<>> /\ h.damage = "none" =>
           /\ Len(ext) = 1 + Len(fields) /\ ext[1] = Len(fields)
           /\ \A i \in 1..Len(fields) : ext[1 + i] = fields[i]
  <2>. DEFINE n == IF h.damage = "total" THEN 0 ELSE Len(fields)
  <2>1. ext = IF h.exts = <<>> THEN <<>> ELSE <<n>> \o fields BY DEF ExtBlock, Parts
  <2>2. n \in Nat /\ (h.damage = "none" => n = Len(fields)) BY <1>3
  <2>. HIDE DEF n, fields, ext
  <2>3. /\ <<n>> \o fields \in Seq(Nat) /\ Len(<<n>> \o fields) = 1 + Len(fields)
        /\ (<<n>> \o fields)[1] = n
        /\ \A i \in 1..Len(fields) : (<<n>> \o fields)[1 + i] = fields[i]
    BY <1>3, <2>2
  <2>. QED BY <2>1, <2>2, <2>3
<1>5. sid \in Seq(Nat) /\ Len(sid) = 1 + h.sid /\ (h.damage = "none" => sid[1] = h.sid)
  <2>. DEFINE a == <<IF h.damage = "sid" THEN 9 ELSE h.sid>>
              b == [i \in 1..h.sid |-> 0]
  <2>1. a \in Seq(Nat) /\ Len(a) = 1 /\ (h.damage = "none" => a[1] = h.sid) BY <1>2
  <2>2. b \in Seq(Nat) /\ Len(b) = h.sid BY <1>2
  <2>. HIDE DEF a, b
  <2>3. Joins(sid, a, b) BY <2>1, <2>2, Joined DEF a, b
  <2>. HIDE DEF sid
  <2>. QED BY <2>1, <2>2, <2>3 DEF Joins
<1>. HIDE DEF fields, ext, sid
<1>6. upTo \in Seq(Nat) /\ Len(upTo) = 2 + h.sid /\ upTo[1] = sid[1]
  <2>1. <<0>> \in Seq(Nat) /\ Len(<<0>>) = 1 OBVIOUS
  <2>2. Joins(upTo, sid, <<0>>) BY <1>5, <2>1, Joined
  <2>. HIDE DEF upTo
  <2>. QED BY <1>2, <1>5, <2>1, <2>2 DEF Joins
<1>. HIDE DEF upTo
<1>7. /\ rest \in Seq(Nat)
      /\ h.damage = "none" =>
           /\ Len(rest) = 2 + h.sid + Len(ext) /\ rest[1] = upTo[1]
           /\ \A i \in 1..Len(ext) : rest[2 + h.sid + i] = ext[i]
  <2>. DEFINE c == upTo \o ext
  <2>1. /\ c \in Seq(Nat) /\ Len(c) = 2 + h.sid + Len(ext) /\ c[1] = upTo[1]
        /\ \A i \in 1..Len(ext) : c[2 + h.sid + i] = ext[i]
    <3>1. Joins(c, upTo, ext) BY <1>4, <1>6, Joined
    <3>2. 1 \in 1..(2 + h.sid) BY <1>2
    <3>. HIDE DEF c
    <3>. QED BY <1>6, <3>1, <3>2 DEF Joins
  <2>2. /\ h.damage = "none" => rest = c
        /\ rest = c \/ rest = <<>>
        /\ <<>> \in Seq(Nat)
    OBVIOUS
  <2>. HIDE DEF c, rest
  <2>. QED BY <2>1, <2>2
<1>. HIDE DEF rest
<1>8. /\ body \in Seq(Nat) /\ Len(body) = 1 + Len(rest) /\ Len(rest) \in Nat
      /\ \A i \in 1..Len(rest) : body[1 + i] = rest[i]
  BY <1>7
<1>. HIDE DEF body
<1>9. /\ head \in Seq(Nat) /\ Len(head) = 2 /\ head[1] = ServerHello
      /\ h.damage = "none" => head[2] = Len(body)
  BY <1>8, MaxLenAssumption DEF ServerHello
<1>. HIDE DEF head
<1>. DEFINE msg == head \o body
<1>10. /\ msg \in Seq(Nat) /\ Len(msg) = 2 + Len(body) /\ Len(body) \in Nat
       /\ msg[1] = head[1] /\ msg[2] = head[2]
       /\ \A i \in 1..Len(body) : msg[2 + i] = body[i]
  <2>1. Joins(msg, head, body) BY <1>8, <1>9, Joined
  <2>2. 1 \in 1..2 /\ 2 \in 1..2 OBVIOUS
  <2>. HIDE DEF msg
  <2>. QED BY <1>9, <2>1, <2>2 DEF Joins
<1>. HIDE DEF msg
<1>11. Len(msg) >= 3 BY <1>8, <1>10
<1>12. ASSUME h.damage = "none" PROVE Layout(h, msg)
  <2>1. Len(msg) = 3 + Len(rest) /\ \A i \in 1..Len(rest) : msg[3 + i] = rest[i]
    <3>1. Len(msg) = 3 + Len(rest) BY <1>8, <1>10
    <3>2. ASSUME NEW i \in 1..Len(rest) PROVE msg[3 + i] = rest[i]
      <4>1. 1 + i \in 1..Len(body) /\ 2 + (1 + i) = 3 + i BY <1>8
      <4>2. msg[2 + (1 + i)] = body[1 + i] BY <1>10, <4>1
      <4>. QED BY <1>8, <4>1, <4>2
    <3>. QED BY <3>1, <3>2
  <2>2. MsgLen(msg) = Len(msg) BY <1>9, <1>10, <1>12 DEF MsgLen
  <2>3. Len(ext) \in Nat /\ Len(rest) = 2 + h.sid + Len(ext) BY <1>4, <1>7, <1>12
  <2>4. msg[4] = h.sid
    <3>1. 1 \in 1..Len(rest) BY <1>2, <2>3
    <3>2. msg[3 + 1] = rest[1] BY <2>1, <3>1
    <3>. QED BY <1>5, <1>6, <1>7, <1>12, <3>2
  <2>5. ASSUME NEW i \in 1..Len(ext) PROVE msg[5 + h.sid + i] = ext[i]
    <3>1. 2 + h.sid + i \in 1..Len(rest) /\ 3 + (2 + h.sid + i) = 5 + h.sid + i
      BY <1>2, <2>3
    <3>. QED BY <1>7, <1>12, <2>1, <3>1
  <2>6. ASSUME h.exts # <<>>
        PROVE  /\ Len(msg) = 6 + h.sid + Len(fields) /\ msg[6 + h.sid] = Len(fields)
               /\ \A i \in 1..Len(fields) : msg[6 + h.sid + i] = fields[i]
    <3>1. Len(fields) \in Nat /\ Len(ext) = 1 + Len(fields) /\ ext[1] = Len(fields)
      BY <1>3, <1>4, <1>12, <2>6
    <3>2. Len(msg) = 6 + h.sid + Len(fields)
      <4>. DEFINE x == h.sid
                  y == Len(fields)
      <4>1. x \in Nat /\ y \in Nat /\ Len(ext) = 1 + y BY <1>2, <3>1
      <4>2. Len(msg) = 3 + (2 + x + Len(ext)) BY <2>1, <2>3
      <4>. HIDE DEF x, y
      <4>3. Len(msg) = 6 + x + y BY <4>1, <4>2
      <4>. QED BY <4>3 DEF x, y
    <3>3. msg[6 + h.sid] = Len(fields)
      <4>1. 1 \in 1..Len(ext) /\ 5 + h.sid + 1 = 6 + h.sid BY <1>2, <3>1
      <4>. QED BY <2>5, <3>1, <4>1
    <3>4. ASSUME NEW i \in 1..Len(fields) PROVE msg[6 + h.sid + i] = fields[i]
      <4>1. 1 + i \in 1..Len(ext) /\ 5 + h.sid + (1 + i) = 6 + h.sid + i BY <1>2, <3>1
      <4>2. ext[1 + i] = fields[i] BY <1>4, <1>12, <2>6
      <4>. QED BY <2>5, <4>1, <4>2
    <3>. QED BY <3>2, <3>3, <3>4
  <2>7. 4 <= Len(msg) /\ (h.exts = <<>> => Len(msg) = 5 + h.sid)
    BY <1>2, <1>4, <2>1, <2>3
  <2>. QED BY <2>2, <2>4, <2>6, <2>7 DEF Layout, fields
<1>. QED BY <1>1, <1>9, <1>10, <1>11, <1>12 DEF msg

\* serverHelloHasExtension is right about a ServerHello whose lengths are: the
\* extension is there or it is not, whatever the others hold.
THEOREM FindsTheExtension ==
  ASSUME NEW h \in Hellos, h.damage = "none"
  PROVE  serverHelloHasExtension(HelloMessage(h), RenegInfo)
           <=> \E i \in 1..Len(h.exts) : h.exts[i].type = RenegInfo
<1>. DEFINE msg    == HelloMessage(h)
            fields == FlattenSeq(Parts(h))
            n      == Len(h.exts)
            from   == 6 + h.sid
            walk   == CHOOSE f : Walk(msg, RenegInfo, Len(msg), f)
<1>0. msg \in Seq(Nat) /\ Layout(h, msg) /\ h.sid \in Nat /\ Len(msg) \in Nat
  BY HelloLies DEF Hellos
<1>1. /\ n \in Nat /\ fields \in Seq(Nat) /\ Len(fields) \in Nat
      /\ Before(Parts(h), 0) = 0 /\ Before(Parts(h), n) = Len(fields)
      /\ \A k \in 0..n : Before(Parts(h), k) \in 0..Len(fields)
      /\ \A k \in 1..n :
           /\ Before(Parts(h), k) = Before(Parts(h), k - 1) + Len(Parts(h)[k])
           /\ \A i \in 1..Len(Parts(h)[k]) :
                fields[Before(Parts(h), k - 1) + i] = Parts(h)[k][i]
  BY PartsLie, FlattenAt
<1>. HIDE DEF msg, fields
<1>2. CASE h.exts = <<>>
  <2>1. n = 0 BY <1>2
  <2>2. ~(5 + msg[4] + 1 <= Len(msg)) BY <1>0, <1>2 DEF Layout
  <2>3. ~serverHelloHasExtension(msg, RenegInfo) BY <2>2 DEF serverHelloHasExtension
  <2>. QED BY <2>1, <2>3 DEF msg
<1>3. CASE h.exts # <<>>
  <2>1. /\ Len(msg) = from + Len(fields) /\ msg[from] = Len(fields)
        /\ \A i \in 1..Len(fields) : msg[from + i] = fields[i]
        /\ 4 <= Len(msg) /\ msg[4] = h.sid /\ 5 + h.sid + 1 = from
        /\ from \in Nat
    <3>1. /\ Len(msg) = from + Len(fields) /\ msg[from] = Len(fields)
          /\ \A i \in 1..Len(fields) : msg[from + i] = fields[i]
          /\ 4 <= Len(msg) /\ msg[4] = h.sid
      BY <1>0, <1>3 DEF Layout, fields
    <3>2. 5 + h.sid + 1 = from /\ from \in Nat BY <1>0
    <3>. QED BY <3>1, <3>2
  <2>. HIDE DEF from
  <2>2. serverHelloHasExtension(msg, RenegInfo) <=> walk[from]
    <3>1. 5 + msg[4] + 1 = from /\ 4 <= Len(msg) /\ from <= Len(msg) BY <1>1, <2>1
    <3>2. 5 + msg[4] + 1 + msg[5 + msg[4] + 1] = Len(msg) BY <2>1, <3>1
    <3>. DEFINE e    == 5 + msg[4] + 1 + msg[5 + msg[4] + 1]
                last == IF e > Len(msg) THEN Len(msg) ELSE e
    <3>3. last = Len(msg) BY <1>0, <3>2
    <3>4. serverHelloHasExtension(msg, RenegInfo)
            <=> /\ 4 <= Len(msg) /\ 5 + msg[4] + 1 <= Len(msg)
                /\ (CHOOSE f : Walk(msg, RenegInfo, last, f))[5 + msg[4] + 1]
      BY Zenon DEF serverHelloHasExtension, Walk, Walks
    <3>. HIDE DEF last
    <3>. QED BY <3>1, <3>3, <3>4
  <2>3. Walk(msg, RenegInfo, Len(msg), walk)
    <3>1. RenegInfo \in Nat BY DEF RenegInfo
    <3>. QED BY <1>0, <3>1, WalkExists
  <2>4. \A p \in Nat : walk[p] = Walks(msg, RenegInfo, Len(msg), walk, p)
    BY <2>3 DEF Walk
  <2>. HIDE DEF walk
  <2>. DEFINE At(k) == from + Before(Parts(h), k)
              Has(k) == \E i \in (k + 1)..n : h.exts[i].type = RenegInfo
              T == {d \in Nat : d <= n => (walk[At(n - d)] <=> Has(n - d))}
  <2>5. 0 \in T
    <3>1. At(n) = Len(msg) /\ Len(msg) \in Nat /\ ~(Len(msg) + 2 <= Len(msg))
      BY <1>0, <1>1, <2>1
    <3>2. ~walk[At(n)]
      <4>1. walk[At(n)] = Walks(msg, RenegInfo, Len(msg), walk, At(n)) BY <2>4, <3>1
      <4>. QED BY <3>1, <4>1 DEF Walks
    <3>3. ~Has(n) BY <1>1
    <3>4. n - 0 = n BY <1>1
    <3>. HIDE DEF At, Has
    <3>. QED BY <3>2, <3>3, <3>4
  <2>6. ASSUME NEW d \in Nat, d \in T PROVE d + 1 \in T
    <3>. SUFFICES ASSUME d + 1 <= n
                  PROVE  walk[At(n - (d + 1))] <=> Has(n - (d + 1))
      OBVIOUS
    <3>. DEFINE k == n - d
                j == n - (d + 1)
    <3>1. k \in 1..n /\ j = k - 1 /\ d <= n /\ k \in 0..n /\ j \in 0..n BY <1>1
    <3>2. walk[At(k)] <=> Has(k) BY <2>6, <3>1
    <3>. HIDE DEF k, j, T
    <3>3. /\ h.exts[k].type \in Nat /\ h.exts[k].len \in Nat
          /\ Len(Parts(h)[k]) = 2 + h.exts[k].len
          /\ Parts(h)[k][1] = h.exts[k].type /\ Parts(h)[k][2] = h.exts[k].len
      BY <3>1, PartsLie
    <3>4. /\ Before(Parts(h), k) = Before(Parts(h), j) + 2 + h.exts[k].len
          /\ Before(Parts(h), k) <= Len(fields) /\ Before(Parts(h), j) \in Nat
          /\ fields[Before(Parts(h), j) + 1] = h.exts[k].type
          /\ fields[Before(Parts(h), j) + 2] = h.exts[k].len
      <4>1. /\ Before(Parts(h), k) = Before(Parts(h), j) + Len(Parts(h)[k])
            /\ Before(Parts(h), k) \in 0..Len(fields)
            /\ Before(Parts(h), j) \in 0..Len(fields)
            /\ \A i \in 1..Len(Parts(h)[k]) :
                 fields[Before(Parts(h), j) + i] = Parts(h)[k][i]
        BY <1>1, <3>1
      <4>2. 1 \in 1..Len(Parts(h)[k]) /\ 2 \in 1..Len(Parts(h)[k]) BY <3>3
      <4>3. \A x, y, z \in Nat : x = y + (2 + z) => x = y + 2 + z OBVIOUS
      <4>4. 0..Len(fields) \subseteq Nat OBVIOUS
      <4>5. /\ Before(Parts(h), k) \in Nat /\ Before(Parts(h), j) \in Nat
            /\ Before(Parts(h), k) <= Len(fields)
        BY <1>1, <4>1, <4>4
      <4>6. Before(Parts(h), k) = Before(Parts(h), j) + 2 + h.exts[k].len
        BY <3>3, <4>1, <4>3, <4>5
      <4>7. /\ fields[Before(Parts(h), j) + 1] = h.exts[k].type
            /\ fields[Before(Parts(h), j) + 2] = h.exts[k].len
        BY <3>3, <4>1, <4>2
      <4>. QED BY <4>5, <4>6, <4>7
    <3>. DEFINE b == Before(Parts(h), j)
                p == from + b
    <3>5. /\ p \in Nat /\ p + 2 <= Len(msg) /\ p + 2 + h.exts[k].len = At(k)
          /\ b + 1 \in 1..Len(fields) /\ b + 2 \in 1..Len(fields)
          /\ from + (b + 1) = p + 1 /\ from + (b + 2) = p + 2
      <4>1. b \in Nat /\ Len(fields) \in Nat /\ h.exts[k].len \in Nat
            /\ b + 2 + h.exts[k].len <= Len(fields)
        BY <1>1, <3>3, <3>4
      <4>2. At(k) = from + (b + 2 + h.exts[k].len) BY <3>4
      <4>3. from \in Nat /\ Len(msg) = from + Len(fields) BY <2>1
      <4>. HIDE DEF b, At
      <4>4. /\ from + b \in Nat /\ from + b + 2 <= Len(msg)
            /\ from + b + 2 + h.exts[k].len = from + (b + 2 + h.exts[k].len)
        <5>. DEFINE l == h.exts[k].len
                    w == Len(fields)
        <5>1. /\ b \in Nat /\ l \in Nat /\ w \in Nat /\ from \in Nat
              /\ b + 2 + l <= w /\ Len(msg) = from + w
          BY <4>1, <4>3
        <5>. HIDE DEF l, w
        <5>2. from + b \in Nat /\ from + b + 2 <= Len(msg) BY <5>1
        <5>3. from + b + 2 + l = from + (b + 2 + l) BY <5>1
        <5>. QED BY <5>2, <5>3 DEF l
      <4>5. b + 1 \in 1..Len(fields) /\ b + 2 \in 1..Len(fields) BY <4>1
      <4>6. from + (b + 1) = from + b + 1 /\ from + (b + 2) = from + b + 2 BY <4>1, <4>3
      <4>. QED BY <4>2, <4>4, <4>5, <4>6
    <3>6. msg[p + 1] = h.exts[k].type /\ msg[p + 2] = h.exts[k].len
      <4>1. msg[from + (b + 1)] = fields[b + 1] /\ msg[from + (b + 2)] = fields[b + 2]
        BY <2>1, <3>5
      <4>. QED BY <3>4, <3>5, <4>1
    <3>7. At(j) = p OBVIOUS
    <3>. HIDE DEF At, p, b
    <3>8. walk[p] <=> h.exts[k].type = RenegInfo \/ walk[At(k)]
      <4>1. walk[p] = Walks(msg, RenegInfo, Len(msg), walk, p) BY <2>4, <3>5
      <4>. QED BY <3>5, <3>6, <4>1 DEF Walks
    <3>9. Has(j) <=> h.exts[k].type = RenegInfo \/ Has(k)
      <4>1. (j + 1)..n = {k} \cup (k + 1)..n BY <1>1, <3>1
      <4>. QED BY <4>1
    <3>. HIDE DEF Has
    <3>. QED BY <3>2, <3>7, <3>8, <3>9 DEF j
  <2>. HIDE DEF T
  <2>7. n \in T BY <1>1, <2>5, <2>6, SetInduction
  <2>8. At(0) = from /\ n - n = 0 /\ 0 + 1 = 1 BY <1>1, <2>1
  <2>9. walk[At(0)] <=> Has(0) BY <1>1, <2>7, <2>8 DEF T
  <2>. QED BY <2>2, <2>8, <2>9 DEF msg
<1>. QED BY <1>2, <1>3

----------------------------------------------------------------------------
(* What a server answers. *)

Records == [type : {"handshake", "alert", "sslv2"}, version : {"ssl3", "ssl2", "tls"},
            fields : Seq(Nat)]

\* The servers that send handshake records.
Frames(s) ==
  \/ s.selects /\ s.probe # "ssl2"
  \/ ~s.selects /\ s.refusal \in {"newer", "request"}

Agreed(s) == IF s.probe = "ssl3" THEN "ssl3" ELSE "tls"

LEMMA ServersAreTyped ==
  ASSUME NEW s \in Servers
  PROVE  /\ s.probe \in Probes /\ s.selects \in BOOLEAN /\ s.hello \in Hellos
         /\ s.pieces \in Seq(Seq(Nat)) /\ Len(s.pieces) \in Nat
         /\ s.refusal \in {"silence", "alert", "fallback", "newer", "request"}
         /\ FlattenSeq(s.pieces) = Flight(s)
         /\ \A i \in 1..Len(s.pieces) :
              s.pieces[i] \in Seq(Nat) /\ s.pieces[i] # <<>> /\ Len(s.pieces[i]) >= 1
<1>1. /\ s.probe \in Probes /\ s.selects \in BOOLEAN /\ s.hello \in Hellos
      /\ s.pieces \in Seq(Seq(Nat))
      /\ s.refusal \in {"silence", "alert", "fallback", "newer", "request"}
  BY ServersAssumption DEF ServerType
<1>2. Len(s.pieces) \in Nat /\ DOMAIN s.pieces = 1..Len(s.pieces) BY <1>1
<1>3. /\ FlattenSeq(s.pieces) = Flight(s)
      /\ \A i \in DOMAIN s.pieces : s.pieces[i] # <<>>
  BY ServersAssumption
<1>4. ASSUME NEW i \in 1..Len(s.pieces)
      PROVE  s.pieces[i] \in Seq(Nat) /\ s.pieces[i] # <<>> /\ Len(s.pieces[i]) >= 1
  <2>. DEFINE p == s.pieces[i]
  <2>1. p \in Seq(Nat) /\ p # <<>> BY <1>1, <1>2, <1>3
  <2>. HIDE DEF p
  <2>2. Len(p) >= 1 BY <2>1
  <2>. QED BY <2>1, <2>2 DEF p
<1>. QED BY <1>1, <1>2, <1>3, <1>4

LEMMA AnswerLies ==
  ASSUME NEW s \in Servers
  PROVE  /\ Answer(s) \in Seq(Records)
         /\ Frames(s) =>
              /\ Len(Answer(s)) = Len(s.pieces)
              /\ \A i \in 1..Len(s.pieces) :
                   /\ Answer(s)[i].type = "handshake" /\ Answer(s)[i].fields = s.pieces[i]
                   /\ Answer(s)[i].version = "ssl3" => s.selects \/ s.refusal = "request"
                   /\ s.selects => Answer(s)[i].version = Agreed(s)
         /\ ~Frames(s) => \A i \in 1..Len(Answer(s)) :
              /\ i = 1 /\ Answer(s)[i].type = IF s.selects THEN "sslv2" ELSE "alert"
              /\ s.selects => Answer(s)[i].fields = <<SSL2Hello, 0>>
<1>1. s.selects \in BOOLEAN /\ s.refusal \in {"silence", "alert", "fallback", "newer", "request"}
  BY ServersAreTyped
<1>2. Agreed(s) \in {"ssl3", "tls"} BY DEF Agreed
<1>. DEFINE framed(v) == [i \in DOMAIN s.pieces |-> Record("handshake", v, s.pieces[i])]
<1>3. ASSUME NEW v \in {"ssl3", "tls"}
      PROVE  /\ framed(v) \in Seq(Records) /\ Len(framed(v)) = Len(s.pieces)
             /\ \A i \in 1..Len(s.pieces) :
                  /\ framed(v)[i].type = "handshake" /\ framed(v)[i].fields = s.pieces[i]
                  /\ framed(v)[i].version = v
  <2>1. Len(s.pieces) \in Nat /\ DOMAIN s.pieces = 1..Len(s.pieces) BY ServersAreTyped
  <2>2. \A i \in 1..Len(s.pieces) :
          /\ framed(v)[i] = Record("handshake", v, s.pieces[i])
          /\ Record("handshake", v, s.pieces[i]) \in Records
    BY <2>1, ServersAreTyped DEF Records, Record
  <2>3. framed(v) \in [1..Len(s.pieces) -> Records] BY <2>1, <2>2
  <2>. HIDE DEF framed
  <2>4. framed(v) \in Seq(Records) /\ Len(framed(v)) = Len(s.pieces) BY <2>1, <2>3
  <2>5. ASSUME NEW f
        PROVE  LET r == Record("handshake", v, f)
               IN  r.type = "handshake" /\ r.fields = f /\ r.version = v
    BY DEF Record
  <2>. QED BY <2>2, <2>4, <2>5
<1>4. /\ s.selects /\ s.probe = "ssl2" =>
           Answer(s) = <<Record("sslv2", "ssl2", <<SSL2Hello, 0>>)>>
      /\ s.selects /\ s.probe # "ssl2" => Answer(s) = framed(Agreed(s))
      /\ ~s.selects /\ s.refusal = "silence" => Answer(s) = <<>>
      /\ ~s.selects /\ s.refusal = "alert" => Answer(s) = <<Record("alert", Agreed(s), <<2, 40>>)>>
      /\ ~s.selects /\ s.refusal = "fallback" =>
           Answer(s) = <<Record("alert", Agreed(s), <<2, Inappropriate>>)>>
      /\ ~s.selects /\ s.refusal = "newer" => Answer(s) = framed("tls")
      /\ ~s.selects /\ s.refusal = "request" => Answer(s) = framed(Agreed(s))
  BY DEF Answer, Agreed
<1>. HIDE DEF framed
<1>5. ASSUME NEW r \in Records
      PROVE  <<r>> \in Seq(Records) /\ \A i \in 1..Len(<<r>>) : i = 1 /\ <<r>>[i] = r
  OBVIOUS
<1>6. CASE s.selects /\ s.probe = "ssl2"
  <2>. DEFINE r == Record("sslv2", "ssl2", <<SSL2Hello, 0>>)
  <2>1. r \in Records /\ r.type = "sslv2" /\ r.fields = <<SSL2Hello, 0>>
    BY DEF Record, Records, SSL2Hello
  <2>2. ~Frames(s) BY <1>6 DEF Frames
  <2>. HIDE DEF r
  <2>3. Answer(s) = <<r>> BY <1>4, <1>6 DEF r
  <2>. QED BY <1>5, <1>6, <2>1, <2>2, <2>3
<1>7. CASE ~s.selects /\ s.refusal \in {"alert", "fallback"}
  <2>. DEFINE r == Record("alert", Agreed(s), <<2, IF s.refusal = "alert" THEN 40 ELSE Inappropriate>>)
  <2>1. r \in Records /\ r.type = "alert" BY <1>2 DEF Record, Records, Inappropriate
  <2>2. ~Frames(s) BY <1>7 DEF Frames
  <2>3. Answer(s) = <<r>> BY <1>4, <1>7
  <2>. HIDE DEF r
  <2>. QED BY <1>5, <1>7, <2>1, <2>2, <2>3
<1>8. CASE ~s.selects /\ s.refusal = "silence"
  <2>1. ~Frames(s) /\ Answer(s) = <<>> BY <1>4, <1>8 DEF Frames
  <2>. QED BY <1>8, <2>1
<1>9. CASE Frames(s)
  <2>1. PICK v \in {"ssl3", "tls"} :
          /\ Answer(s) = framed(v)
          /\ v = "ssl3" => s.selects \/ s.refusal = "request"
          /\ s.selects => v = Agreed(s)
    BY <1>2, <1>4, <1>9 DEF Frames
  <2>. QED BY <1>3, <1>9, <2>1
<1>. QED BY <1>1, <1>6, <1>7, <1>8, <1>9 DEF Frames

\* The fields of the first r records of a handshake.
Sofar(s, r) == FlattenSeq(SubSeq(s.pieces, 1, r))

LEMMA SofarIsPrefix ==
  ASSUME NEW s \in Servers, NEW r \in 0..Len(s.pieces)
  PROVE  /\ Flight(s) \in Seq(Nat) /\ Sofar(s, r) \in Seq(Nat)
         /\ Len(Sofar(s, r)) <= Len(Flight(s))
         /\ \A i \in 1..Len(Sofar(s, r)) : Sofar(s, r)[i] = Flight(s)[i]
<1>1. s.pieces \in Seq(Seq(Nat)) /\ FlattenSeq(s.pieces) = Flight(s) BY ServersAreTyped
<1>2. Sofar(s, r) \in Seq(Nat) BY <1>1, FlattenType DEF Sofar
<1>3. Flight(s) = Sofar(s, Len(s.pieces)) /\ Flight(s) \in Seq(Nat)
  BY <1>1, FlattenWhole DEF Sofar
<1>4. Len(s.pieces) \in 0..Len(s.pieces) /\ r <= Len(s.pieces) BY <1>1
<1>5. /\ Len(Sofar(s, r)) <= Len(Sofar(s, Len(s.pieces)))
      /\ \A i \in 1..Len(Sofar(s, r)) : Sofar(s, Len(s.pieces))[i] = Sofar(s, r)[i]
  BY <1>1, <1>4, FlattenPrefix DEF Sofar
<1>. QED BY <1>2, <1>3, <1>5

\* One more record.
LEMMA SofarGrows ==
  ASSUME NEW s \in Servers, NEW r \in 1..Len(s.pieces)
  PROVE  Sofar(s, r) = Sofar(s, r - 1) \o s.pieces[r]
<1>1. s.pieces \in Seq(Seq(Nat)) BY ServersAreTyped
<1>. QED BY <1>1, FlattenNext DEF Sofar

LEMMA SofarEmpty == ASSUME NEW s \in Servers PROVE Sofar(s, 0) = <<>>
<1>1. s.pieces \in Seq(Seq(Nat)) BY ServersAreTyped
<1>2. SubSeq(s.pieces, 1, 0) = <<>> BY <1>1
<1>. QED BY <1>2, FlattenEmpty DEF Sofar

\* A handshake begins with its ServerHello, or with something else.
LEMMA FlightLies ==
  ASSUME NEW s \in Servers
  PROVE  /\ ~s.selects /\ s.refusal = "request" => Flight(s)[1] = 0
         /\ s.selects \/ s.refusal # "request" =>
              /\ Flight(s)[1] = ServerHello
              /\ \A i \in 1..Len(HelloMessage(s.hello)) : Flight(s)[i] = HelloMessage(s.hello)[i]
<1>. DEFINE msg == HelloMessage(s.hello)
            c   == msg \o <<Certificate, 1, 0>>
<1>1. CASE ~s.selects /\ s.refusal = "request" BY <1>1 DEF Flight
<1>2. CASE ~(~s.selects /\ s.refusal = "request")
  <2>1. msg \in Seq(Nat) /\ Len(msg) >= 3 /\ msg[1] = ServerHello
    BY ServersAreTyped, HelloLies
  <2>2. <<Certificate, 1, 0>> \in Seq(Nat) BY DEF Certificate
  <2>3. Flight(s) = c BY <1>2 DEF Flight
  <2>. HIDE DEF msg
  <2>4. Joins(c, msg, <<Certificate, 1, 0>>) BY <2>1, <2>2, Joined
  <2>. HIDE DEF c
  <2>5. \A i \in 1..Len(msg) : c[i] = msg[i] BY <2>4 DEF Joins
  <2>6. 1 \in 1..Len(msg) BY <2>1
  <2>. QED BY <1>2, <2>1, <2>3, <2>5, <2>6 DEF msg
<1>. QED BY <1>1, <1>2

\* The first field of the first record is the first of the handshake.
LEMMA FirstField ==
  ASSUME NEW s \in Servers, 1 \in 1..Len(s.pieces)
  PROVE  s.pieces[1][1] = Flight(s)[1]
<1>1. s.pieces \in Seq(Seq(Nat)) /\ FlattenSeq(s.pieces) = Flight(s) /\ Len(s.pieces[1]) >= 1
  BY ServersAreTyped
<1>2. s.pieces[1] \in Seq(Nat) BY ServersAreTyped
<1>3. 1 \in 1..Len(s.pieces[1]) BY <1>1, <1>2
<1>4. /\ Before(s.pieces, 0) = 0
      /\ \A k \in 1..Len(s.pieces) : \A i \in 1..Len(s.pieces[k]) :
            Flight(s)[Before(s.pieces, k - 1) + i] = s.pieces[k][i]
  <2>1. /\ Before(s.pieces, 0) = 0
        /\ \A k \in 1..Len(s.pieces) : \A i \in 1..Len(s.pieces[k]) :
              FlattenSeq(s.pieces)[Before(s.pieces, k - 1) + i] = s.pieces[k][i]
    BY <1>1, FlattenAt
  <2>. QED BY <1>1, <2>1
<1>5. Flight(s)[Before(s.pieces, 1 - 1) + 1] = s.pieces[1][1] BY <1>3, <1>4
<1>6. 1 - 1 = 0 /\ 0 + 1 = 1 OBVIOUS
<1>. QED BY <1>4, <1>5, <1>6

----------------------------------------------------------------------------
(* What a probe makes of what it has read. *)

\* The renegotiation probe: of a server whose lengths are right its verdict is
\* right too, and it comes to one once it has the whole ServerHello.
LEMMA VerdictIsRight ==
  ASSUME NEW s \in Servers, s.probe = "reneg", s.hello.damage = "none", Frames(s),
         NEW r \in 0..Len(s.pieces), NEW b, b = Sofar(s, r)
  PROVE  /\ Verdict(b) => Flawed(s)
         /\ Flawed(s) /\ Len(HelloMessage(s.hello)) <= MaxLen =>
              /\ ~TooLong(b)
              /\ Len(b) > MaxLen \/ ~Incomplete(b) => Verdict(b)
<1>. DEFINE msg == HelloMessage(s.hello)
<1>1. /\ b \in Seq(Nat) /\ Len(b) \in Nat /\ Len(b) <= Len(Flight(s))
      /\ \A i \in 1..Len(b) : b[i] = Flight(s)[i]
  BY SofarIsPrefix
<1>2. s.refusal # "newer" BY ServersAssumption
<1>3. s.selects \in BOOLEAN /\ s.hello \in Hellos BY ServersAreTyped
<1>4. CASE ~s.selects
  <2>1. Flight(s)[1] = 0 BY <1>2, <1>4, FlightLies DEF Frames
  <2>2. Len(b) >= 2 => b[1] = 0
    <3>1. Len(b) >= 2 => 1 \in 1..Len(b) BY <1>1
    <3>. QED BY <1>1, <2>1, <3>1
  <2>3. ~Verdict(b) BY <2>2 DEF Verdict, ServerHello
  <2>. QED BY <1>4, <2>3 DEF Flawed
<1>5. CASE s.selects
  <2>1. /\ msg \in Seq(Nat) /\ Len(msg) \in Nat /\ Len(msg) >= 3 /\ MsgLen(msg) = Len(msg)
        /\ msg[1] = ServerHello
    BY <1>3, HelloLies DEF Layout
  <2>2. \A i \in 1..Len(msg) : Flight(s)[i] = msg[i] BY <1>5, FlightLies
  <2>3. serverHelloHasExtension(msg, RenegInfo) <=> ~Flawed(s)
    <3>1. s.hello.exts \in Seq([type : 0..2, len : 0..2]) BY <1>3 DEF Hellos
    <3>2. DOMAIN s.hello.exts = 1..Len(s.hello.exts) BY <3>1
    <3>. QED BY <1>3, <1>5, <3>2, FindsTheExtension DEF Flawed
  <2>. HIDE DEF msg
  <2>4. ASSUME Len(b) >= 2 PROVE b[1] = ServerHello /\ MsgLen(b) = Len(msg)
    <3>1. 1 \in 1..Len(b) /\ 2 \in 1..Len(b) /\ 1 \in 1..Len(msg) /\ 2 \in 1..Len(msg)
      BY <1>1, <2>1, <2>4
    <3>2. b[1] = msg[1] /\ b[2] = msg[2] BY <1>1, <2>2, <3>1
    <3>. QED BY <2>1, <3>2 DEF MsgLen
  <2>5. ASSUME Len(msg) <= Len(b)
        PROVE  Len(b) >= 2 /\ SubSeq(b, 1, MsgLen(b)) = msg
    <3>1. Len(b) >= 2 BY <1>1, <2>1, <2>5
    <3>2. MsgLen(b) = Len(msg) BY <2>4, <3>1
    <3>3. /\ SubSeq(b, 1, Len(msg)) \in Seq(Nat) /\ Len(SubSeq(b, 1, Len(msg))) = Len(msg)
          /\ \A i \in 1..Len(msg) : SubSeq(b, 1, Len(msg))[i] = b[i]
      BY <1>1, <2>1, <2>5
    <3>4. \A i \in 1..Len(msg) : b[i] = msg[i]
      <4>1. \A i \in 1..Len(msg) : i \in 1..Len(b) BY <1>1, <2>1, <2>5
      <4>. QED BY <1>1, <2>2, <4>1
    <3>5. SubSeq(b, 1, Len(msg)) = msg BY <2>1, <3>3, <3>4
    <3>. QED BY <3>1, <3>2, <3>5
  <2>6. Verdict(b) => Flawed(s) BY <2>3, <2>4, <2>5 DEF Verdict
  <2>7. ASSUME Flawed(s), Len(msg) <= MaxLen
        PROVE  ~TooLong(b) /\ (Len(b) > MaxLen \/ ~Incomplete(b) => Verdict(b))
    <3>1. ~TooLong(b) BY <2>1, <2>4, <2>7, MaxLenAssumption DEF TooLong
    <3>2. ASSUME Len(b) > MaxLen \/ ~Incomplete(b) PROVE Len(msg) <= Len(b)
      <4>1. CASE Len(b) > MaxLen BY <1>1, <2>1, <2>7, <4>1, MaxLenAssumption
      <4>2. CASE ~Incomplete(b) BY <2>4, <4>2 DEF Incomplete
      <4>. QED BY <3>2, <4>1, <4>2
    <3>3. Len(msg) <= Len(b) => Verdict(b) BY <2>3, <2>4, <2>5, <2>7 DEF Verdict
    <3>. QED BY <3>1, <3>2, <3>3
  <2>. QED BY <2>6, <2>7 DEF msg
<1>. QED BY <1>3, <1>4, <1>5

----------------------------------------------------------------------------
(* Time. *)

Cap == capTimeout(OptTimeout)

\* Before the connection there is the dialler's deadline, and after it the one of
\* the connection, which no read prolongs.
TimeInv ==
  /\ now \in Nat /\ by \in Nat
  /\ pc = "dial" => now <= Cap
  /\ pc \in {"hello", "header", "payload"} => now <= by
  /\ by <= 2 * Cap
  /\ now <= 2 * Cap

LEMMA CapType == Cap \in Nat /\ Cap <= OptTimeout /\ Cap <= TimeoutCap
BY TimeAssumption DEF Cap, capTimeout

\* Every step keeps the clock within the deadlines.
LEMMA TimeStep == TimeInv /\ [Next]_vars => TimeInv'
<1>. SUFFICES ASSUME TimeInv, [Next]_vars PROVE TimeInv'  OBVIOUS
<1>. USE CapType DEF TimeInv
<1>1. CASE Dial
  <2>1. pc = "dial" /\ pc' = "hello" /\ by' = now + Cap /\ now' = now BY <1>1 DEF Dial, Cap
  <2>. QED BY <2>1
<1>2. CASE Tick
  <2>1. /\ now' = now + 1 /\ UNCHANGED <<by, pc>>
        /\ \/ pc = "dial" /\ now < Cap
           \/ pc \in {"header", "payload"} /\ now < by
    BY <1>2 DEF Tick, Cap
  <2>2. CASE pc = "dial" BY <2>1, <2>2
  <2>3. CASE pc \in {"header", "payload"} BY <2>1, <2>3
  <2>. QED BY <2>1, <2>2, <2>3
<1>3. ASSUME UNCHANGED <<now, by>>, pc' = "dial" => pc = "dial",
             pc' \in {"hello", "header", "payload"} => pc \in {"hello", "header", "payload"}
      PROVE  TimeInv'
  BY <1>3
<1>4. CASE DialFails \/ SendHello \/ SendFails
  BY <1>3, <1>4 DEF DialFails, SendHello, SendFails, Return
<1>5. CASE ReadHeader BY <1>3, <1>5 DEF ReadHeader, Return
<1>6. CASE Peek BY <1>3, <1>6 DEF Peek, Return
<1>7. CASE Assemble
  <2>1. pc = "payload" /\ UNCHANGED <<now, by>> BY <1>7 DEF Assemble
  <2>2. pc' \in {"header", "done"} BY <1>7 DEF Assemble, Return
  <2>. QED BY <1>3, <2>1, <2>2
<1>8. CASE ReadFails BY <1>3, <1>8 DEF ReadFails, Return
<1>9. CASE Deliver \/ End BY <1>3, <1>9 DEF Deliver, End
<1>10. CASE UNCHANGED vars BY <1>3, <1>10 DEF vars
<1>. QED BY <1>1, <1>2, <1>4, <1>5, <1>6, <1>7, <1>8, <1>9, <1>10
         DEF Next, Step, Terminated

\* EndsInTime: a probe takes its capped timeout twice at most, however slowly the
\* server lets its answer trickle in.
THEOREM EndsInTimeTheorem == Spec => []EndsInTime
<1>1. Init => TimeInv BY CapType DEF Init, TimeInv
<1>2. TimeInv => EndsInTime BY CapType, TimeAssumption DEF TimeInv, EndsInTime
<1>. QED BY <1>1, <1>2, TimeStep, PTL DEF Spec

LEMMA TimeInvariant == Spec => []TimeInv
<1>1. Init => TimeInv BY CapType DEF Init, TimeInv
<1>. QED BY <1>1, TimeStep, PTL DEF Spec

----------------------------------------------------------------------------
(* Where a probe is in the answer. *)

\* The cells of the first r of some records.
Upto(rs, r) == Before([i \in DOMAIN rs |-> CellsOf(rs[i])], r)

\* What was taken are the records read, and the header of the one being read;
\* only the renegotiation probe reads a second one.
Reads ==
  /\ pc \in {"dial", "hello"} => arrived = 0 /\ taken = 0 /\ record = 0 /\ buf = <<>>
  /\ pc = "header" => taken = Upto(records, record)
  /\ pc = "payload" =>
       /\ record \in 1..Len(records) /\ taken = Upto(records, record - 1) + 1
       /\ need = Wanted(Current) /\ need # 0
  /\ server.probe # "reneg" =>
       /\ pc = "header" => record = 0
       /\ pc = "payload" => record = 1

TypeInv == TypeOK /\ Reads

LEMMA RecordsLie ==
  ASSUME NEW rs \in Seq(Records)
  PROVE  LET cells == Len(FlattenSeq([i \in DOMAIN rs |-> CellsOf(rs[i])]))
         IN  /\ Upto(rs, 0) = 0 /\ Upto(rs, Len(rs)) = cells /\ cells \in Nat
             /\ Len(rs) \in Nat
             /\ \A r \in 0..Len(rs) : Upto(rs, r) \in 0..cells
             /\ \A r \in 1..Len(rs) :
                  /\ rs[r] \in Records /\ rs[r].fields \in Seq(Nat)
                  /\ Len(rs[r].fields) \in Nat
                  /\ Upto(rs, r) = Upto(rs, r - 1) + 1 + Len(rs[r].fields)
<1>. DEFINE parts == [i \in DOMAIN rs |-> CellsOf(rs[i])]
<1>1. Len(rs) \in Nat /\ DOMAIN rs = 1..Len(rs) OBVIOUS
<1>2. ASSUME NEW r \in 1..Len(rs)
      PROVE  /\ rs[r] \in Records /\ rs[r].fields \in Seq(Nat) /\ Len(rs[r].fields) \in Nat
             /\ CellsOf(rs[r]) \in Seq(Nat) /\ Len(CellsOf(rs[r])) = 1 + Len(rs[r].fields)
  <2>. DEFINE f == rs[r].fields
  <2>1. rs[r] \in Records OBVIOUS
  <2>2. f \in Seq(Nat) BY <2>1 DEF Records
  <2>. HIDE DEF f
  <2>3. Len(f) \in Nat /\ <<Len(f)>> \in Seq(Nat) /\ Len(<<Len(f)>>) = 1 BY <2>2
  <2>. DEFINE c == <<Len(f)>> \o f
  <2>4. Joins(c, <<Len(f)>>, f) BY <2>2, <2>3, Joined
  <2>. HIDE DEF c
  <2>5. c \in Seq(Nat) /\ Len(c) = 1 + Len(f) BY <2>3, <2>4 DEF Joins
  <2>. QED BY <2>1, <2>2, <2>3, <2>5 DEF c, f, CellsOf
<1>3. parts \in Seq(Seq(Nat)) /\ Len(parts) = Len(rs)
  <2>1. parts \in [1..Len(rs) -> Seq(Nat)] BY <1>1, <1>2
  <2>. QED BY <1>1, <2>1
<1>4. \A r \in 1..Len(rs) : Len(parts[r]) = 1 + Len(rs[r].fields) BY <1>1, <1>2
<1>. HIDE DEF parts
<1>5. /\ FlattenSeq(parts) \in Seq(Nat) /\ Before(parts, 0) = 0
      /\ Before(parts, Len(rs)) = Len(FlattenSeq(parts))
      /\ \A r \in 0..Len(rs) : Before(parts, r) \in 0..Len(FlattenSeq(parts))
      /\ \A r \in 1..Len(rs) : Before(parts, r) = Before(parts, r - 1) + Len(parts[r])
  BY <1>3, FlattenAt
<1>6. Len(FlattenSeq(parts)) \in Nat BY <1>5
<1>7. ASSUME NEW r \in 1..Len(rs)
      PROVE  Before(parts, r) = Before(parts, r - 1) + 1 + Len(rs[r].fields)
  <2>. DEFINE x == Before(parts, r - 1)
              l == Len(rs[r].fields)
  <2>1. r - 1 \in 0..Len(rs) BY <1>1
  <2>2. x \in Nat /\ l \in Nat /\ Before(parts, r) = x + (1 + l)
    BY <1>2, <1>4, <1>5, <1>6, <2>1
  <2>. HIDE DEF x, l
  <2>3. x + (1 + l) = x + 1 + l BY <2>2
  <2>. QED BY <2>2, <2>3 DEF x, l
<1>. QED BY <1>1, <1>2, <1>5, <1>6, <1>7 DEF Upto, parts

\* What a probe wants of a record is there.
LEMMA WantedLies ==
  ASSUME NEW r \in Records
  PROVE  Wanted(r) \in 0..Len(r.fields)
<1>1. Len(r.fields) \in Nat
  <2>. DEFINE f == r.fields
  <2>1. f \in Seq(Nat) BY DEF Records
  <2>. HIDE DEF f
  <2>. QED BY <2>1 DEF f
<1>. HIDE DEF Records
<1>. QED BY <1>1 DEF Wanted

\* Behind what was read of the answer there is another record, if anything more
\* arrived.
LEMMA NextRecordLies ==
  ASSUME TypeInv, pc = "header", readFull(1)
  PROVE  record + 1 \in 1..Len(records) /\ records[record + 1] \in Records
<1>1. records \in Seq(Records) /\ record \in 0..Len(records)
  BY AnswerLies DEF TypeInv, TypeOK
<1>2. taken = Upto(records, record) /\ taken + 1 <= arrived /\ arrived \in 0..Cells
  BY DEF TypeInv, TypeOK, Reads, readFull
<1>3. Cells \in Nat /\ Upto(records, Len(records)) = Cells /\ Len(records) \in Nat
  BY <1>1, RecordsLie DEF Cells
<1>4. record # Len(records) BY <1>2, <1>3
<1>5. record + 1 \in 1..Len(records) BY <1>1, <1>3, <1>4
<1>. QED BY <1>1, <1>5, RecordsLie

LEMMA TypeStep == TypeInv /\ TimeInv' /\ [Next]_vars => TypeInv'
<1>. SUFFICES ASSUME TypeInv, TimeInv', [Next]_vars PROVE TypeInv'  OBVIOUS
<1>1. /\ server' = server /\ records' = records /\ Cells' = Cells
      /\ now' \in Nat /\ by' \in Nat
  BY DEF Next, Step, Dial, DialFails, SendHello, SendFails, ReadHeader, Peek, Assemble,
       ReadFails, Deliver, End, Tick, Terminated, fixed, vars, Cells, TimeInv
<1>2. /\ server \in Servers /\ records = Answer(server) /\ records \in Seq(Records)
      /\ arrived \in 0..Cells /\ taken \in 0..arrived /\ record \in 0..Len(records)
      /\ need \in Nat /\ buf \in Seq(Nat) /\ ended \in BOOLEAN /\ result \in BOOLEAN
  BY AnswerLies DEF TypeInv, TypeOK
<1>3. Cells \in Nat /\ Len(records) \in Nat /\ Upto(records, 0) = 0
  BY <1>2, RecordsLie DEF Cells
<1>4. ASSUME UNCHANGED <<arrived, taken, record, need, buf>>, ended' \in BOOLEAN,
             result' \in BOOLEAN, pc' = pc \/ pc' = "done"
      PROVE  TypeInv'
  BY <1>1, <1>2, <1>4 DEF TypeInv, TypeOK, Reads, Wanted, Current
<1>5. CASE DialFails \/ SendFails \/ ReadFails \/ Tick \/ UNCHANGED vars
  BY <1>2, <1>4, <1>5 DEF DialFails, SendFails, ReadFails, Tick, Return, vars
<1>6. CASE Dial \/ SendHello
  BY <1>1, <1>2, <1>3, <1>6 DEF Dial, SendHello, TypeInv, TypeOK, Reads
<1>7. CASE ReadHeader
  <2>. DEFINE n == Wanted(records[record + 1])
  <2>1. /\ pc = "header" /\ taken + 1 <= arrived /\ taken' = taken + 1 /\ record' = record + 1
        /\ \/ n = 0 /\ pc' = "done" /\ result' = FALSE /\ need' = need
           \/ n # 0 /\ pc' = "payload" /\ need' = n /\ result' = result
        /\ UNCHANGED <<arrived, buf, ended>>
    BY <1>7 DEF ReadHeader, readFull, Return
  <2>2. record + 1 \in 1..Len(records) /\ records[record + 1] \in Records
    BY <1>7, <2>1, NextRecordLies DEF ReadHeader
  <2>3. n \in Nat BY <2>2, WantedLies
  <2>4. Wanted(Current)' = n BY <1>1, <2>1 DEF Wanted, Current
  <2>5. record + 1 - 1 = record /\ record + 1 \in 0..Len(records) BY <1>2, <1>3, <2>2
  <2>6. taken = Upto(records, record) BY <2>1 DEF TypeInv, Reads
  <2>7. server.probe # "reneg" => record = 0 BY <2>1 DEF TypeInv, Reads
  <2>. HIDE DEF n
  <2>8. TypeOK'
    <3>1. taken + 1 \in 0..arrived BY <1>2, <1>3, <2>1
    <3>. QED BY <1>1, <1>2, <2>1, <2>3, <2>5, <3>1 DEF TypeOK
  <2>9. Reads'
    BY <1>1, <1>2, <2>1, <2>2, <2>4, <2>5, <2>6, <2>7 DEF Reads
  <2>. QED BY <2>8, <2>9 DEF TypeInv
<1>8. CASE Peek \/ Assemble
  <2>1. /\ pc = "payload" /\ taken + need <= arrived /\ taken' = taken + need
        /\ UNCHANGED <<arrived, record, need, ended>>
    BY <1>8 DEF Peek, Assemble, readFull
  <2>2. /\ record \in 1..Len(records) /\ taken = Upto(records, record - 1) + 1
        /\ need = Wanted(Current) /\ need # 0
    BY <2>1 DEF TypeInv, Reads
  <2>3. /\ Current \in Records /\ Current.fields \in Seq(Nat) /\ Len(Current.fields) \in Nat
        /\ Upto(records, record) = Upto(records, record - 1) + 1 + Len(Current.fields)
    BY <1>2, <2>2, RecordsLie DEF Current
  <2>4. CASE Peek
    <3>1. pc' = "done" /\ buf' = buf /\ result' \in BOOLEAN
      BY <2>4 DEF Peek, Return, Judge
    <3>2. taken' \in 0..arrived BY <1>2, <1>3, <2>1
    <3>3. TypeOK' BY <1>1, <1>2, <2>1, <3>1, <3>2 DEF TypeOK
    <3>4. Reads' BY <3>1 DEF Reads
    <3>. QED BY <3>3, <3>4 DEF TypeInv
  <2>5. CASE Assemble
    <3>1. /\ server.probe = "reneg" /\ buf' = buf \o Current.fields /\ pc' \in {"header", "done"}
          /\ result' \in BOOLEAN
      <4>1. Verdict(buf') \in BOOLEAN BY DEF Verdict
      <4>. QED BY <1>2, <2>5, <4>1 DEF Assemble, Return
    <3>2. need = Len(Current.fields)
      BY <2>2, <2>3, <3>1 DEF Wanted
    <3>3. taken' = Upto(records, record)
      <4>. DEFINE x == Upto(records, record - 1)
      <4>1. x \in Nat
        <5>1. record - 1 \in 0..Len(records) BY <1>3, <2>2
        <5>2. x \in 0..Cells BY <1>2, <5>1, RecordsLie DEF Cells
        <5>. QED BY <1>3, <5>2
      <4>. QED BY <2>1, <2>2, <2>3, <3>2
    <3>4. buf' \in Seq(Nat) BY <1>2, <2>3, <3>1
    <3>5. taken' \in 0..arrived BY <1>2, <1>3, <2>1
    <3>6. TypeOK' BY <1>1, <1>2, <2>1, <3>1, <3>4, <3>5 DEF TypeOK
    <3>7. Reads' BY <1>1, <2>1, <3>1, <3>3 DEF Reads
    <3>. QED BY <3>6, <3>7 DEF TypeInv
  <2>. QED BY <1>8, <2>4, <2>5
<1>9. CASE Deliver
  <2>1. /\ pc \in {"header", "payload"} /\ arrived < Cells /\ arrived' = arrived + 1
        /\ UNCHANGED <<pc, taken, record, need, buf, ended, result>>
    BY <1>9 DEF Deliver
  <2>2. arrived' \in 0..Cells /\ taken \in 0..arrived' BY <1>2, <1>3, <2>1
  <2>3. TypeOK' BY <1>1, <1>2, <2>1, <2>2 DEF TypeInv, TypeOK
  <2>4. Reads' BY <1>1, <2>1 DEF TypeInv, Reads, Wanted, Current
  <2>. QED BY <2>3, <2>4 DEF TypeInv
<1>10. CASE End
  <2>1. /\ ended' = TRUE /\ arrived' \in {arrived, taken}
        /\ UNCHANGED <<pc, taken, record, need, buf, result>>
    BY <1>10 DEF End
  <2>2. arrived' \in 0..Cells /\ taken \in 0..arrived' BY <1>2, <1>3, <2>1
  <2>3. TypeOK' BY <1>1, <1>2, <2>1, <2>2 DEF TypeInv, TypeOK
  <2>4. Reads' BY <1>1, <2>1 DEF TypeInv, Reads, Wanted, Current
  <2>. QED BY <2>3, <2>4 DEF TypeInv
<1>. QED BY <1>5, <1>6, <1>7, <1>8, <1>9, <1>10 DEF Next, Step, Terminated

LEMMA TypeInvariant == Spec => []TypeInv
<1>1. Init => TypeInv
  <2>. SUFFICES ASSUME Init PROVE TypeInv  OBVIOUS
  <2>1. server \in Servers /\ records = Answer(server) BY DEF Init
  <2>2. Cells \in Nat /\ Len(records) \in Nat BY <2>1, AnswerLies, RecordsLie DEF Cells
  <2>3. 0 \in 0..Cells /\ 0 \in 0..0 /\ 0 \in 0..Len(records) /\ <<>> \in Seq(Nat) BY <2>2
  <2>4. TypeOK BY <2>1, <2>3 DEF Init, TypeOK
  <2>. QED BY <2>4 DEF Init, TypeInv, Reads
<1>. QED BY <1>1, TypeStep, TimeInvariant, PTL DEF Spec

\* TypeOK: a probe reads nothing that did not arrive, of however many records the
\* answer is, and no record that is not there.
THEOREM TypeCorrectness == Spec => []TypeOK
BY TypeInvariant, PTL DEF TypeInv

----------------------------------------------------------------------------
(* What a probe finds. *)

\* The renegotiation probe has the records read so far, whole; it reads on only
\* in a handshake.
Assembled ==
  server.probe = "reneg" =>
    /\ pc = "header" => buf = Sofar(server, record) /\ (record = 0 \/ Frames(server))
    /\ pc = "payload" => buf = Sofar(server, record - 1) /\ Frames(server)

\* A server that goes along sends what the probe wants to read.
LEMMA SelectedIsWanted ==
  ASSUME TypeInv, server.selects, NEW r \in 1..Len(records)
  PROVE  Wanted(records[r]) # 0
<1>1. server \in Servers /\ records = Answer(server) /\ server.probe \in Probes
  BY ServersAreTyped DEF TypeInv, TypeOK
<1>2. CASE Frames(server)
  <2>1. /\ records[r].type = "handshake" /\ records[r].version = Agreed(server)
        /\ records[r].fields = server.pieces[r] /\ r \in 1..Len(server.pieces)
    BY <1>1, <1>2, AnswerLies
  <2>2. Len(server.pieces[r]) >= 1 /\ server.pieces[r] \in Seq(Nat) BY <1>1, <2>1, ServersAreTyped
  <2>. DEFINE size == Len(records[r].fields)
  <2>3. size >= 1 /\ size # 0 BY <2>1, <2>2
  <2>. HIDE DEF size
  <2>4. server.probe \in {"ssl3", "export", "fallback", "reneg"}
    BY <1>1, <1>2 DEF Frames, Probes
  <2>. QED BY <2>1, <2>3, <2>4 DEF Wanted, IsSSL3, Agreed, size
<1>3. CASE ~Frames(server)
  <2>1. records[r].type = "sslv2" /\ records[r].fields = <<SSL2Hello, 0>>
    BY <1>1, <1>3, AnswerLies
  <2>2. server.probe = "ssl2" BY <1>3 DEF Frames
  <2>3. Len(<<SSL2Hello, 0>>) = 2 OBVIOUS
  <2>. QED BY <2>1, <2>2, <2>3 DEF Wanted
<1>. QED BY <1>2, <1>3

\* The first field of the answer tells whether the server goes along.
LEMMA JudgeIsRight ==
  ASSUME TypeInv, pc = "payload", server.probe # "reneg"
  PROVE  Judge(Current.fields) <=> server.selects
<1>1. /\ server \in Servers /\ records = Answer(server) /\ server.probe \in Probes
      /\ server.selects \in BOOLEAN
      /\ server.refusal \in {"silence", "alert", "fallback", "newer", "request"}
  BY ServersAreTyped DEF TypeInv, TypeOK
<1>2. /\ Current = records[1] /\ 1 \in 1..Len(records) /\ Wanted(Current) # 0
  BY DEF TypeInv, Reads, Current
<1>3. server.refusal = "newer" => server.probe \in {"ssl3", "ssl2"}
  BY <1>1, ServersAssumption
<1>4. CASE Frames(server)
  <2>1. /\ Current.type = "handshake" /\ Current.fields = server.pieces[1]
        /\ Current.version = "ssl3" => server.selects \/ server.refusal = "request"
        /\ 1 \in 1..Len(server.pieces)
    BY <1>1, <1>2, <1>4, AnswerLies
  <2>2. Current.fields[1] = Flight(server)[1] BY <1>1, <2>1, FirstField
  <2>3. server.probe # "ssl2" BY <1>2, <2>1 DEF Wanted
  <2>4. CASE server.selects
    <3>1. Current.fields[1] = ServerHello BY <1>1, <2>2, <2>4, FlightLies
    <3>. QED BY <2>1, <2>3, <2>4, <3>1 DEF Judge
  <2>5. CASE ~server.selects
    <3>1. server.refusal = "newer" => server.probe = "ssl3" BY <1>3, <2>3
    <3>2. server.probe = "ssl3" => Current.version = "ssl3" BY <1>2 DEF Wanted, IsSSL3
    <3>3. server.refusal = "request" BY <1>4, <2>1, <2>5, <3>1, <3>2 DEF Frames
    <3>4. Current.fields[1] = 0 BY <1>1, <2>2, <2>5, <3>3, FlightLies
    <3>. QED BY <2>3, <2>5, <3>4 DEF Judge, ServerHello
  <2>. QED BY <1>1, <2>4, <2>5
<1>5. CASE ~Frames(server)
  <2>1. /\ Current.type = IF server.selects THEN "sslv2" ELSE "alert"
        /\ server.selects => Current.fields = <<SSL2Hello, 0>>
    BY <1>1, <1>2, <1>5, AnswerLies
  <2>2. CASE server.selects
    <3>1. server.probe = "ssl2" BY <1>5, <2>2 DEF Frames
    <3>2. Current.fields[1] = SSL2Hello BY <2>1, <2>2
    <3>. QED BY <2>2, <3>1, <3>2 DEF Judge
  <2>3. CASE ~server.selects
    <3>1. server.probe # "ssl2" BY <1>2, <2>1, <2>3 DEF Wanted
    <3>. QED BY <2>1, <2>3, <3>1 DEF Judge
  <2>. QED BY <1>1, <2>2, <2>3
<1>. QED BY <1>4, <1>5

\* A record is added to those read.
LEMMA Assembling ==
  ASSUME TypeInv, Assembled, Assemble
  PROVE  /\ server.probe = "reneg" /\ Frames(server) /\ server \in Servers
         /\ record \in 1..Len(server.pieces) /\ Len(server.pieces) \in Nat
         /\ buf' = Sofar(server, record)
<1>1. server.probe = "reneg" /\ pc = "payload" /\ buf' = buf \o Current.fields BY DEF Assemble
<1>2. /\ server \in Servers /\ records = Answer(server)
      /\ record \in 1..Len(records)
  BY <1>1 DEF TypeInv, TypeOK, Reads
<1>3. Frames(server) /\ buf = Sofar(server, record - 1) BY <1>1 DEF Assembled
<1>4. /\ record \in 1..Len(server.pieces) /\ Current.fields = server.pieces[record]
      /\ Len(server.pieces) \in Nat
  BY <1>2, <1>3, AnswerLies, ServersAreTyped DEF Current
<1>5. Sofar(server, record) = Sofar(server, record - 1) \o server.pieces[record]
  BY <1>2, <1>4, SofarGrows
<1>. QED BY <1>1, <1>2, <1>3, <1>4, <1>5

LEMMA AssembledStep == TypeInv /\ Assembled /\ [Next]_vars => Assembled'
<1>. SUFFICES ASSUME TypeInv, Assembled, [Next]_vars PROVE Assembled'  OBVIOUS
<1>0. CASE server.probe # "reneg"
  <2>1. server' = server
    BY DEF Next, Step, Dial, DialFails, SendHello, SendFails, ReadHeader, Peek, Assemble,
         ReadFails, Deliver, End, Tick, Terminated, fixed, vars
  <2>. QED BY <1>0, <2>1 DEF Assembled
<1>. SUFFICES ASSUME server.probe = "reneg" PROVE Assembled'  BY <1>0
<1>1. server \in Servers /\ records = Answer(server) BY DEF TypeInv, TypeOK
<1>2. CASE Dial \/ SendHello
  <2>1. buf' = <<>> /\ record' = 0 /\ server' = server /\ pc' \in {"hello", "header"}
    BY <1>2 DEF Dial, SendHello, TypeInv, Reads, fixed
  <2>. QED BY <1>1, <2>1, SofarEmpty DEF Assembled
<1>3. CASE ReadHeader
  <2>. DEFINE n == Wanted(records[record + 1])
  <2>1. /\ pc = "header" /\ readFull(1) /\ server' = server /\ buf' = buf
        /\ record' = record + 1
        /\ (n = 0 /\ pc' = "done") \/ (n # 0 /\ pc' = "payload")
    BY <1>3 DEF ReadHeader, Return, fixed
  <2>2. record + 1 \in 1..Len(records) /\ records[record + 1] \in Records /\ record \in Nat
    BY <2>1, NextRecordLies DEF TypeInv, TypeOK
  <2>3. ~Frames(server) => n = 0
    <3>1. ~Frames(server) => records[record + 1].type # "handshake"
      BY <1>1, <2>2, AnswerLies
    <3>. QED BY <3>1 DEF Wanted
  <2>4. buf = Sofar(server, record) /\ record + 1 - 1 = record
    BY <2>1, <2>2 DEF Assembled
  <2>5. Sofar(server', record' - 1) = Sofar(server, record)
    <3>1. record' = record + 1 /\ record \in Nat BY <2>1, <2>2
    <3>2. record' - 1 = record BY <3>1
    <3>. QED BY <2>1, <3>2
  <2>6. Frames(server)' <=> Frames(server) BY <2>1 DEF Frames
  <2>. HIDE DEF n
  <2>7. pc' # "header" /\ (pc' = "payload" => Frames(server)) BY <2>1, <2>3
  <2>. QED BY <2>1, <2>4, <2>5, <2>6, <2>7 DEF Assembled
<1>4. CASE Assemble
  <2>1. server' = server /\ record' = record /\ pc' \in {"header", "done"}
    BY <1>4 DEF Assemble, Return, fixed
  <2>. QED BY <1>4, <2>1, Assembling DEF Assembled, Frames
<1>5. CASE DialFails \/ SendFails \/ Peek \/ ReadFails
  <2>1. pc' = "done" BY <1>5 DEF DialFails, SendFails, Peek, ReadFails, Return
  <2>. QED BY <2>1 DEF Assembled
<1>6. CASE Deliver \/ End \/ Tick \/ UNCHANGED vars
  <2>1. UNCHANGED <<server, pc, record, buf>> BY <1>6 DEF Deliver, End, Tick, vars, fixed
  <2>. QED BY <2>1 DEF Assembled, Frames
<1>. QED BY <1>2, <1>3, <1>4, <1>5, <1>6 DEF Next, Step, Terminated

LEMMA AssembledInvariant == Spec => []Assembled
<1>1. Init => Assembled BY DEF Init, Assembled
<1>. QED BY <1>1, AssembledStep, TypeInvariant, PTL DEF Spec

VerdictInv == (pc # "done" => result = FALSE) /\ NoFalseClaim /\ FindsTheFlaw

\* Every step that ends a probe leaves it with the truth.
LEMMA VerdictStep == TypeInv /\ Assembled /\ VerdictInv /\ [Next]_vars => VerdictInv'
<1>. SUFFICES ASSUME TypeInv, Assembled, VerdictInv, [Next]_vars PROVE VerdictInv'  OBVIOUS
<1>1. server' = server /\ server \in Servers
  BY DEF Next, Step, Dial, DialFails, SendHello, SendFails, ReadHeader, Peek, Assemble,
       ReadFails, Deliver, End, Tick, Terminated, fixed, vars, TypeInv, TypeOK
<1>2. ASSUME pc = "done" PROVE VerdictInv'
  <2>1. UNCHANGED vars
    BY <1>2 DEF Next, Step, Dial, DialFails, SendHello, SendFails, ReadHeader, Peek, Assemble,
         ReadFails, Deliver, End, Tick, Terminated
  <2>. QED BY <2>1 DEF vars, fixed, VerdictInv, NoFalseClaim, FindsTheFlaw
<1>3. ASSUME result' = FALSE, ~(pc' = "done" /\ ~ended' /\ record' > 0 /\ now' < by')
      PROVE  VerdictInv'
  BY <1>3 DEF VerdictInv, NoFalseClaim, FindsTheFlaw
<1>4. ASSUME pc # "done", result' = result, pc' # "done" PROVE VerdictInv'
  BY <1>3, <1>4 DEF VerdictInv
<1>5. CASE DialFails
  <2>1. result' = FALSE /\ record' = 0 BY <1>5 DEF DialFails, Return, TypeInv, Reads
  <2>2. ~(record' > 0) BY <2>1
  <2>. QED BY <1>3, <2>1, <2>2
<1>6. CASE SendFails
  <2>1. result' = FALSE /\ ended' BY <1>6 DEF SendFails, Return
  <2>. QED BY <1>3, <2>1
<1>7. CASE ReadFails
  <2>1. result' = FALSE /\ (ended' \/ now' >= by') /\ now' \in Nat /\ by' \in Nat
    BY <1>7 DEF ReadFails, Return, GivesUp, TypeInv, TypeOK
  <2>2. ended' \/ ~(now' < by') BY <2>1
  <2>. QED BY <1>3, <2>1, <2>2
<1>8. CASE ReadHeader
  <2>. DEFINE n == Wanted(records[record + 1])
  <2>1. /\ pc = "header" /\ readFull(1)
        /\ \/ n = 0 /\ pc' = "done" /\ result' = FALSE
           \/ n # 0 /\ pc' = "payload" /\ result' = result
    BY <1>8 DEF ReadHeader, Return
  <2>2. CASE n = 0
    <3>1. ~server.selects
      <4>1. record + 1 \in 1..Len(records) BY <2>1, NextRecordLies
      <4>. QED BY <2>2, <4>1, SelectedIsWanted
    <3>. QED BY <1>1, <2>1, <2>2, <3>1 DEF VerdictInv, NoFalseClaim, FindsTheFlaw, Flawed
  <2>3. CASE n # 0 BY <1>4, <2>1, <2>3
  <2>. QED BY <2>2, <2>3
<1>9. CASE Peek
  <2>1. /\ server.probe # "reneg" /\ pc = "payload" /\ pc' = "done"
        /\ result' = Judge(Current.fields)
    BY <1>9 DEF Peek, Return
  <2>2. result' <=> Flawed(server) BY <2>1, JudgeIsRight DEF Flawed
  <2>. QED BY <1>1, <2>1, <2>2 DEF VerdictInv, NoFalseClaim, FindsTheFlaw
<1>10. CASE Assemble
  <2>. DEFINE b == Sofar(server, record)
  <2>1. /\ server.probe = "reneg" /\ Frames(server) /\ buf' = b
        /\ record \in 0..Len(server.pieces)
    BY <1>10, Assembling
  <2>2. server.hello.damage = "none" =>
          /\ Verdict(b) => Flawed(server)
          /\ Flawed(server) /\ Len(HelloMessage(server.hello)) <= MaxLen =>
               /\ ~TooLong(b)
               /\ Len(b) > MaxLen \/ ~Incomplete(b) => Verdict(b)
    BY <1>1, <2>1, VerdictIsRight
  <2>3. \/ TooLong(b) /\ pc' = "done" /\ result' = FALSE
        \/ pc # "done" /\ pc' = "header" /\ result' = result
        \/ /\ Len(b) > MaxLen \/ ~Incomplete(b)
           /\ pc' = "done" /\ result' = Verdict(b)
    BY <1>10, <2>1 DEF Assemble, Return
  <2>. HIDE DEF b
  <2>4. CASE pc # "done" /\ pc' = "header" /\ result' = result BY <1>4, <2>4
  <2>5. CASE pc' = "done"
    <3>1. server.hello.damage = "none" /\ result' => Flawed(server) BY <2>2, <2>3, <2>5
    <3>2. server.hello.damage = "none" /\ Flawed(server)
            /\ Len(HelloMessage(server.hello)) <= MaxLen => result'
      BY <2>2, <2>3, <2>5
    <3>. QED BY <1>1, <2>1, <2>5, <3>1, <3>2 DEF VerdictInv, NoFalseClaim, FindsTheFlaw
  <2>. QED BY <2>3, <2>4, <2>5
<1>11. CASE Dial \/ SendHello
  BY <1>4, <1>11 DEF Dial, SendHello
<1>12. CASE (Deliver \/ End \/ Tick \/ UNCHANGED vars) /\ pc # "done"
  <2>1. pc' = pc /\ result' = result BY <1>12 DEF Deliver, End, Tick, vars
  <2>. QED BY <1>4, <1>12, <2>1
<1>. QED BY <1>2, <1>5, <1>6, <1>7, <1>8, <1>9, <1>10, <1>11, <1>12 DEF Next, Step, Terminated

LEMMA VerdictInvariant == Spec => []VerdictInv
<1>1. Init => VerdictInv BY DEF Init, VerdictInv, NoFalseClaim, FindsTheFlaw
<1>. QED BY <1>1, VerdictStep, TypeInvariant, AssembledInvariant, PTL DEF Spec

\* NoFalseClaim: no probe claims a flaw of a server without it, however its
\* ServerHello is cut into records and wherever the connection breaks off, as
\* long as the lengths in the ServerHello are right.
THEOREM NoFalseClaimTheorem == Spec => []NoFalseClaim
BY VerdictInvariant, PTL DEF VerdictInv

\* FindsTheFlaw: a probe that got its answer in time knows a flawed server, however
\* the answer was cut and whatever other extensions it holds.
THEOREM FindsTheFlawTheorem == Spec => []FindsTheFlaw
BY VerdictInvariant, PTL DEF VerdictInv
=============================================================================
