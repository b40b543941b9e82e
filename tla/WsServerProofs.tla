--------------------------- MODULE WsServerProofs ---------------------------
(***************************************************************************)
(* Proofs about WsServer, for every set of connections, every limit of the *)
(* send queue and every number of requests and ledgers: what is pushed to  *)
(* a connection reaches the wire in order and is not left in the queue,    *)
(* and no subscriber misses a close or stays listed when it is gone.       *)
(***************************************************************************)
EXTENDS WsServer, SharedLemmas

-----------------------------------------------------------------------------
(* What was pushed to a connection, laid out: sent, in the write, queued,  *)
(* posted, one behind the other.  The steps of a message along this way    *)
(* are lemmas about sequences.                                             *)

LEMMA Messages == NoMsg \notin Msg /\ Answer \in Msg /\ \A l \in 1 .. LedgerBound + 1 : l \in Msg
BY DEF Msg, NoMsg, Answer

One(m) == IF m = NoMsg THEN 0 ELSE 1

Begins(s, t) == Len(s) <= Len(t) /\ \A i \in 1 .. Len(s) : t[i] = s[i]

Flow(s, m, q, p, all) ==
  /\ Len(all) = Len(s) + One(m) + Len(q) + Len(p)
  /\ \A i \in 1 .. Len(s) : all[i] = s[i]
  /\ m # NoMsg => all[Len(s) + 1] = m
  /\ \A i \in 1 .. Len(q) : all[Len(s) + One(m) + i] = q[i]
  /\ \A i \in 1 .. Len(p) : all[Len(s) + One(m) + Len(q) + i] = p[i]

(* A sequence with one more at its end, and what is left without the first. *)
Grown(s, x, t) ==
  /\ Len(t) = Len(s) + 1 /\ t[Len(s) + 1] = x
  /\ \A i \in 1 .. Len(s) : t[i] = s[i]

Rest(s, x, t) ==
  /\ Len(s) = Len(t) + 1 /\ s[1] = x
  /\ \A i \in 1 .. Len(t) : t[i] = s[i + 1]

LEMMA Longer ==
  ASSUME NEW S, NEW s \in Seq(S), NEW x \in S
  PROVE  Append(s, x) \in Seq(S) /\ Grown(s, x, Append(s, x))
BY AppendProperties DEF Grown

LEMMA Shorter ==
  ASSUME NEW S, NEW s \in Seq(S), s # << >>
  PROVE  Head(s) \in S /\ Tail(s) \in Seq(S) /\ Rest(s, Head(s), Tail(s))
BY HeadTailProperties, LenProperties DEF Rest

LEMMA BeginsMore ==
  ASSUME NEW s \in Seq(Msg), NEW t \in Seq(Msg), NEW x, NEW u \in Seq(Msg),
         Begins(s, t), Grown(t, x, u)
  PROVE  Begins(s, u)
BY LenProperties DEF Begins, Grown

LEMMA FlowPush ==
  ASSUME NEW s \in Seq(Msg), NEW m, NEW q \in Seq(Msg), NEW p \in Seq(Msg),
         NEW all \in Seq(Msg), NEW x, NEW p2 \in Seq(Msg), NEW all2 \in Seq(Msg),
         Flow(s, m, q, p, all), Grown(p, x, p2), Grown(all, x, all2)
  PROVE  Flow(s, m, q, p2, all2)
<1>. DEFINE n == Len(s) + One(m) + Len(q)
<1>0. /\ Len(s) \in Nat /\ Len(q) \in Nat /\ Len(p) \in Nat /\ Len(all) \in Nat
      /\ One(m) \in {0, 1} /\ (m # NoMsg => One(m) = 1) /\ n \in Nat
  BY LenProperties DEF One
<1>1. Len(all) = n + Len(p) /\ Len(all2) = n + Len(p2) /\ Len(p2) = Len(p) + 1
  BY <1>0 DEF Flow, Grown
<1>2. \A i \in 1 .. n + Len(p) : all2[i] = all[i]
  BY <1>0, <1>1 DEF Grown
<1>3. ASSUME NEW i \in 1 .. Len(p2) PROVE all2[n + i] = p2[i]
  <2>1. CASE i = Len(p) + 1
    BY <1>0, <1>1, <2>1 DEF Grown
  <2>2. CASE i \in 1 .. Len(p)
    <3>1. n + i \in 1 .. n + Len(p)
      <4>1. n \in Nat /\ i \in Nat /\ i >= 1 /\ i <= Len(p)
        BY <1>0, <2>2
      <4>. HIDE DEF n
      <4>. QED  BY <1>0, <4>1
    <3>2. all[n + i] = p[i]
      BY <2>2 DEF Flow
    <3>3. p2[i] = p[i]
      BY <2>2 DEF Grown
    <3>. QED  BY <1>2, <3>1, <3>2, <3>3
  <2>. QED  BY <1>0, <1>1, <2>1, <2>2
<1>4. \A i \in 1 .. Len(s) : all2[i] = s[i]
  BY <1>0, <1>2 DEF Flow
<1>5. m # NoMsg => all2[Len(s) + 1] = m
  BY <1>0, <1>2 DEF Flow
<1>6. ASSUME NEW i \in 1 .. Len(q) PROVE all2[Len(s) + One(m) + i] = q[i]
  <2>1. all[Len(s) + One(m) + i] = q[i]
    BY DEF Flow
  <2>2. Len(s) + One(m) + i \in 1 .. n + Len(p)
    <3>1. i \in Nat /\ i >= 1 /\ i <= Len(q) /\ One(m) \in Nat
      BY <1>0
    <3>. QED  BY <1>0, <3>1, SMTT(20)
  <2>. QED  BY <1>2, <2>1, <2>2
<1>. QED  BY <1>1, <1>3, <1>4, <1>5, <1>6 DEF Flow

LEMMA FlowTake ==
  ASSUME NEW s \in Seq(Msg), NEW m, NEW q \in Seq(Msg), NEW p \in Seq(Msg),
         NEW all \in Seq(Msg), NEW x, NEW q2 \in Seq(Msg), NEW p2 \in Seq(Msg),
         Flow(s, m, q, p, all), Rest(p, x, p2), Grown(q, x, q2)
  PROVE  Flow(s, m, q2, p2, all)
<1>. DEFINE n == Len(s) + One(m)
<1>0. /\ Len(s) \in Nat /\ Len(q) \in Nat /\ Len(p) \in Nat /\ Len(p2) \in Nat
      /\ One(m) \in {0, 1} /\ n \in Nat
  BY LenProperties DEF One
<1>1. Len(q2) = Len(q) + 1 /\ Len(p) = Len(p2) + 1 /\ Len(all) = n + Len(q2) + Len(p2)
  BY <1>0 DEF Flow, Grown, Rest
<1>2. ASSUME NEW i \in 1 .. Len(q2) PROVE all[n + i] = q2[i]
  <2>1. CASE i = Len(q) + 1
    <3>1. 1 \in 1 .. Len(p) /\ p[1] = x /\ q2[Len(q) + 1] = x
      BY <1>0, <1>1 DEF Grown, Rest
    <3>2. all[n + Len(q) + 1] = p[1]
      BY <3>1 DEF Flow
    <3>3. n + i = n + Len(q) + 1
      BY <1>0, <2>1
    <3>. QED  BY <2>1, <3>1, <3>2, <3>3
  <2>2. CASE i \in 1 .. Len(q)
    BY <2>2 DEF Flow, Grown
  <2>. QED  BY <1>0, <1>1, <2>1, <2>2
<1>3. ASSUME NEW i \in 1 .. Len(p2) PROVE all[n + Len(q2) + i] = p2[i]
  <2>1. i + 1 \in 1 .. Len(p) /\ p2[i] = p[i + 1]
    BY <1>0, <1>1 DEF Rest
  <2>2. all[n + Len(q) + (i + 1)] = p[i + 1]
    BY <2>1 DEF Flow
  <2>3. n + Len(q2) + i = n + Len(q) + (i + 1)
    BY <1>0, <1>1
  <2>. QED  BY <2>1, <2>2, <2>3
<1>. QED  BY <1>1, <1>2, <1>3 DEF Flow

LEMMA FlowPump ==
  ASSUME NEW s \in Seq(Msg), NEW q \in Seq(Msg), NEW p \in Seq(Msg),
         NEW all \in Seq(Msg), NEW x \in Msg, NEW q2 \in Seq(Msg),
         Flow(s, NoMsg, q, p, all), Rest(q, x, q2)
  PROVE  Flow(s, x, q2, p, all)
<1>0. Len(s) \in Nat /\ Len(q) \in Nat /\ Len(p) \in Nat /\ Len(q2) \in Nat
  BY LenProperties
<1>1. One(x) = 1 /\ One(NoMsg) = 0
  BY Messages DEF One
<1>2. Len(q) = Len(q2) + 1 /\ Len(all) = Len(s) + 1 + Len(q2) + Len(p)
  BY <1>0, <1>1 DEF Flow, Rest
<1>3. \A i \in 1 .. Len(q) : all[Len(s) + i] = q[i]
  BY <1>0, <1>1 DEF Flow
<1>4. all[Len(s) + 1] = x
  BY <1>0, <1>2, <1>3 DEF Rest
<1>5. ASSUME NEW i \in 1 .. Len(q2) PROVE all[Len(s) + 1 + i] = q2[i]
  <2>1. i + 1 \in 1 .. Len(q) /\ q2[i] = q[i + 1]
    BY <1>0, <1>2 DEF Rest
  <2>. QED  BY <1>0, <1>3, <2>1
<1>6. ASSUME NEW i \in 1 .. Len(p) PROVE all[Len(s) + 1 + Len(q2) + i] = p[i]
  <2>1. all[Len(s) + 0 + Len(q) + i] = p[i]
    BY <1>1 DEF Flow
  <2>. QED  BY <1>0, <1>2, <2>1
<1>. QED  BY <1>1, <1>2, <1>4, <1>5, <1>6 DEF Flow

LEMMA FlowSent ==
  ASSUME NEW s \in Seq(Msg), NEW m \in Msg, NEW q \in Seq(Msg), NEW p \in Seq(Msg),
         NEW all \in Seq(Msg), NEW s2 \in Seq(Msg),
         Flow(s, m, q, p, all), Grown(s, m, s2)
  PROVE  Flow(s2, NoMsg, q, p, all)
<1>0. Len(s) \in Nat /\ Len(q) \in Nat /\ Len(p) \in Nat
  BY LenProperties
<1>1. One(m) = 1 /\ One(NoMsg) = 0 /\ m # NoMsg
  BY Messages DEF One
<1>2. Len(s2) = Len(s) + 1 /\ Len(all) = Len(s) + 1 + Len(q) + Len(p)
  BY <1>1 DEF Flow, Grown
<1>3. ASSUME NEW i \in 1 .. Len(s2) PROVE all[i] = s2[i]
  <2>1. CASE i = Len(s) + 1
    BY <1>1, <2>1 DEF Flow, Grown
  <2>2. CASE i \in 1 .. Len(s)
    BY <2>2 DEF Flow, Grown
  <2>. QED  BY <1>0, <1>2, <2>1, <2>2
<1>4. \A i \in 1 .. Len(q) : all[Len(s2) + 0 + i] = q[i]
  BY <1>0, <1>1, <1>2 DEF Flow
<1>5. \A i \in 1 .. Len(p) : all[Len(s2) + 0 + Len(q) + i] = p[i]
  BY <1>0, <1>1, <1>2 DEF Flow
<1>. QED  BY <1>0, <1>1, <1>2, <1>3, <1>4, <1>5 DEF Flow

(* Laid out so, it is what the parts make when they are joined.            *)
LEMMA FlowBegins ==
  ASSUME NEW s \in Seq(Msg), NEW m, NEW q \in Seq(Msg), NEW p \in Seq(Msg),
         NEW all \in Seq(Msg), Flow(s, m, q, p, all)
  PROVE  Begins(s, all)
BY LenProperties DEF Flow, Begins, One

LEMMA BeginsIsPrefix ==
  ASSUME NEW s \in Seq(Msg), NEW t \in Seq(Msg), Begins(s, t)
  PROVE  IsPrefix(s, t)
<1>1. Len(s) \in Nat /\ Len(s) <= Len(t) /\ \A i \in 1 .. Len(s) : t[i] = s[i]
  BY LenProperties DEF Begins
<1>2. SubSeq(s, 1, Len(s)) = SubSeq(t, 1, Len(s))
  BY <1>1
<1>. QED  BY <1>1, <1>2 DEF IsPrefix

(* What follows what, when two are joined.                                 *)
Joined(s, t, u) ==
  /\ Len(u) = Len(s) + Len(t)
  /\ \A i \in 1 .. Len(s) + Len(t) : u[i] = IF i <= Len(s) THEN s[i] ELSE t[i - Len(s)]

LEMMA Concats ==
  ASSUME NEW s \in Seq(Msg), NEW t \in Seq(Msg)
  PROVE  s \o t \in Seq(Msg) /\ Joined(s, t, s \o t)
BY ConcatProperties DEF Joined

LEMMA Offset ==
  \A a, n, i \in Nat : i > a /\ i <= a + n =>
    \E k \in 1 .. n : i = a + k /\ i - a = k /\ ~(i <= a)
<1>. SUFFICES ASSUME NEW a \in Nat, NEW n \in Nat, NEW i \in Nat, i > a, i <= a + n
              PROVE  \E k \in 1 .. n : i = a + k /\ i - a = k /\ ~(i <= a)
  OBVIOUS
<1>1. i - a \in 1 .. n /\ i = a + (i - a)
  OBVIOUS
<1>. QED  BY <1>1

Concat4(s, w, q, p, u) ==
  \E sw, swq \in Seq(Msg) : Joined(s, w, sw) /\ Joined(sw, q, swq) /\ Joined(swq, p, u)

Single(m, w) == Len(w) = One(m) /\ (m # NoMsg => w[1] = m)

Parts(s, m, q, p, all, w, u) ==
  /\ s \in Seq(Msg) /\ q \in Seq(Msg) /\ p \in Seq(Msg) /\ all \in Seq(Msg)
  /\ w \in Seq(Msg) /\ Single(m, w)
  /\ u \in Seq(Msg) /\ Concat4(s, w, q, p, u)
  /\ Flow(s, m, q, p, all)

LEMMA FlowJoined ==
  ASSUME NEW s, NEW m, NEW q, NEW p, NEW all, NEW w, NEW joined,
         Parts(s, m, q, p, all, w, joined)
  PROVE  all = joined
<1>0. /\ s \in Seq(Msg) /\ q \in Seq(Msg) /\ p \in Seq(Msg) /\ all \in Seq(Msg)
      /\ w \in Seq(Msg) /\ joined \in Seq(Msg) /\ Flow(s, m, q, p, all)
      /\ Len(w) = One(m) /\ (m # NoMsg => w[1] = m)
  BY DEF Parts, Single
<1>a. PICK sw \in Seq(Msg), swq \in Seq(Msg) :
        Joined(s, w, sw) /\ Joined(sw, q, swq) /\ Joined(swq, p, joined)
  BY DEF Parts, Concat4
<1>1. /\ Len(s) \in Nat /\ Len(q) \in Nat /\ Len(p) \in Nat /\ Len(all) \in Nat
      /\ One(m) \in Nat /\ One(m) \in {0, 1} /\ (m # NoMsg <=> One(m) = 1)
  BY <1>0, LenProperties DEF One
<1>b. Len(w) = One(m) /\ Len(sw) = Len(s) + Len(w) /\ Len(swq) = Len(sw) + Len(q)
      /\ Len(joined) = Len(swq) + Len(p)
  BY <1>0, <1>a DEF Joined
<1>c. Len(all) = Len(s) + One(m) + Len(q) + Len(p)
  BY <1>0 DEF Flow
<1>d. Len(sw) \in Nat /\ Len(swq) \in Nat
  BY LenProperties
<1>2. /\ Len(sw) = Len(s) + One(m) /\ Len(swq) = Len(s) + One(m) + Len(q)
      /\ Len(joined) = Len(all) /\ Len(sw) \in Nat /\ Len(swq) \in Nat
      /\ Len(swq) = Len(sw) + Len(q) /\ Len(all) = Len(swq) + Len(p)
  BY <1>1, <1>b, <1>c, <1>d
<1>3. /\ \A i \in 1 .. Len(s) : all[i] = s[i]
      /\ m # NoMsg => all[Len(s) + 1] = m
      /\ \A i \in 1 .. Len(q) : all[Len(s) + One(m) + i] = q[i]
      /\ \A i \in 1 .. Len(p) : all[Len(s) + One(m) + Len(q) + i] = p[i]
  BY <1>0 DEF Flow
<1>4. ASSUME NEW i \in 1 .. Len(all) PROVE all[i] = joined[i]
  <2>0. i \in Nat /\ i >= 1 /\ i <= Len(all)
    BY <1>1
  <2>a. joined[i] = IF i <= Len(swq) THEN swq[i] ELSE p[i - Len(swq)]
    <3>1. i \in 1 .. Len(swq) + Len(p)
      BY <1>1, <1>2, <2>0
    <3>. QED  BY <1>a, <3>1 DEF Joined
  <2>b. i <= Len(swq) => swq[i] = IF i <= Len(sw) THEN sw[i] ELSE q[i - Len(sw)]
    <3>1. i <= Len(swq) => i \in 1 .. Len(sw) + Len(q)
      BY <1>1, <1>2, <2>0
    <3>. QED  BY <1>a, <3>1 DEF Joined
  <2>c. i <= Len(sw) => sw[i] = IF i <= Len(s) THEN s[i] ELSE w[i - Len(s)]
    <3>1. i <= Len(sw) => i \in 1 .. Len(s) + Len(w)
      BY <1>0, <1>1, <1>2, <2>0
    <3>. QED  BY <1>a, <3>1 DEF Joined
  <2>1. CASE i <= Len(s)
    <3>1. i \in 1 .. Len(s)
      BY <1>1, <2>0, <2>1
    <3>2. i <= Len(sw) /\ i <= Len(swq)
      BY <1>1, <1>2, <2>0, <2>1, SMTT(20)
    <3>. QED  BY <1>3, <2>1, <2>a, <2>b, <2>c, <3>1, <3>2
  <2>2. CASE i = Len(s) + 1 /\ One(m) = 1
    <3>1. ~(i <= Len(s)) /\ i <= Len(sw) /\ i <= Len(swq) /\ i - Len(s) = 1
      BY <1>1, <1>2, <2>2
    <3>. QED  BY <1>0, <1>1, <1>3, <2>2, <2>a, <2>b, <2>c, <3>1
  <2>3. CASE i > Len(sw) /\ i <= Len(swq)
    <3>1. PICK k \in 1 .. Len(q) : i = Len(sw) + k /\ i - Len(sw) = k /\ ~(i <= Len(sw))
      <4>1. Len(sw) \in Nat /\ Len(q) \in Nat /\ i \in Nat
        BY <1>1, <1>2, <2>0
      <4>2. i > Len(sw) /\ i <= Len(sw) + Len(q)
        BY <1>2, <2>0, <2>3
      <4>. QED  BY <4>1, <4>2, Offset
    <3>2. all[Len(sw) + k] = q[k]
      BY <1>2, <1>3
    <3>. QED  BY <2>3, <2>a, <2>b, <3>1, <3>2
  <2>4. CASE i > Len(swq)
    <3>1. PICK k \in 1 .. Len(p) : i = Len(swq) + k /\ i - Len(swq) = k /\ ~(i <= Len(swq))
      <4>1. Len(swq) \in Nat /\ Len(p) \in Nat /\ i \in Nat
        BY <1>1, <1>2, <2>0
      <4>2. i > Len(swq) /\ i <= Len(swq) + Len(p)
        BY <1>2, <2>0, <2>4
      <4>. QED  BY <4>1, <4>2, Offset
    <3>2. all[Len(swq) + k] = p[k]
      BY <1>2, <1>3
    <3>. QED  BY <2>a, <3>1, <3>2
  <2>5. i <= Len(s) \/ (i = Len(s) + 1 /\ One(m) = 1) \/ i > Len(sw)
    BY <1>1, <1>2, <2>0, SMTT(20)
  <2>6. i > Len(swq) \/ i <= Len(swq)
    BY <1>2, <2>0
  <2>. QED  BY <2>1, <2>2, <2>3, <2>4, <2>5, <2>6
<1>. QED  BY <1>0, <1>2, <1>4, SeqEqual

-----------------------------------------------------------------------------
(* The line of a connection: its types, that something is in the write as  *)
(* long as one is going on, and where what was pushed is.                  *)

LineTypes ==
  /\ posted \in [Conn -> Seq(Msg)] /\ queue \in [Conn -> Seq(Msg)]
  /\ \A c \in Conn : Len(queue[c]) <= QueueCap
  /\ writing \in [Conn -> BOOLEAN] /\ closed \in [Conn -> BOOLEAN]
  /\ inWrite \in [Conn -> Msg \cup {NoMsg}]
  /\ pushed \in [Conn -> Seq(Msg)] /\ sent \in [Conn -> Seq(Msg)]

WritingInv == \A c \in Conn : ~closed[c] => (writing[c] <=> inWrite[c] # NoMsg)

Flows(c) == Flow(sent[c], inWrite[c], queue[c], posted[c], pushed[c])

FlowInv == \A c \in Conn : Begins(sent[c], pushed[c]) /\ (~closed[c] => Flows(c))

LineInv == LineTypes /\ WritingInv /\ FlowInv

(* Only the line of c changes: the invariant is that of c. *)
LEMMA OneLine ==
  ASSUME LineInv, LineTypes', NEW c \in Conn,
         \A d \in Conn \ {c} :
           /\ posted'[d] = posted[d] /\ queue'[d] = queue[d] /\ writing'[d] = writing[d]
           /\ inWrite'[d] = inWrite[d] /\ closed'[d] = closed[d]
           /\ pushed'[d] = pushed[d] /\ sent'[d] = sent[d],
         ~closed'[c] => (writing'[c] <=> inWrite'[c] # NoMsg),
         Begins(sent'[c], pushed'[c]), ~closed'[c] => Flows(c)'
  PROVE  LineInv'
<1>1. WritingInv'
  BY DEF LineInv, WritingInv
<1>2. \A d \in Conn \ {c} : Flows(d)' = Flows(d)
  BY DEF Flows
<1>3. FlowInv'
  BY <1>2 DEF LineInv, FlowInv
<1>. QED  BY <1>1, <1>3 DEF LineInv

LEMMA LinePush ==
  ASSUME LineInv, NEW c \in Conn, NEW m \in Msg, Push(c, m),
         UNCHANGED <<queue, writing, inWrite, closed, sent>>
  PROVE  LineInv'
<1>1. /\ posted \in [Conn -> Seq(Msg)] /\ pushed \in [Conn -> Seq(Msg)]
      /\ queue[c] \in Seq(Msg) /\ sent[c] \in Seq(Msg)
      /\ posted[c] \in Seq(Msg) /\ pushed[c] \in Seq(Msg)
  BY DEF LineInv, LineTypes
<1>2. /\ posted' = [posted EXCEPT ![c] = Append(posted[c], m)]
      /\ pushed' = [pushed EXCEPT ![c] = Append(pushed[c], m)]
  BY DEF Push
<1>3. Append(posted[c], m) \in Seq(Msg) /\ Append(pushed[c], m) \in Seq(Msg)
  BY <1>1, AppendProperties
<1>4. LineTypes'
  <2>1. posted' \in [Conn -> Seq(Msg)] /\ pushed' \in [Conn -> Seq(Msg)]
    BY <1>1, <1>2, <1>3
  <2>. QED  BY <2>1 DEF LineInv, LineTypes
<1>5. /\ posted'[c] \in Seq(Msg) /\ Grown(posted[c], m, posted'[c])
      /\ pushed'[c] \in Seq(Msg) /\ Grown(pushed[c], m, pushed'[c])
  <2>1. posted'[c] = Append(posted[c], m) /\ pushed'[c] = Append(pushed[c], m)
    BY <1>1, <1>2
  <2>2. Grown(posted[c], m, Append(posted[c], m)) /\ Grown(pushed[c], m, Append(pushed[c], m))
    BY <1>1, Longer
  <2>. QED  BY <1>3, <2>1, <2>2
<1>6. \A d \in Conn \ {c} : posted'[d] = posted[d] /\ pushed'[d] = pushed[d]
  BY <1>1, <1>2
<1>7. Begins(sent'[c], pushed'[c])
  BY <1>1, <1>5, BeginsMore DEF LineInv, FlowInv
<1>8. ASSUME ~closed'[c] PROVE Flows(c)'
  <2>1. Flow(sent[c], inWrite[c], queue[c], posted[c], pushed[c])
    BY <1>8 DEF LineInv, FlowInv, Flows
  <2>2. Flow(sent[c], inWrite[c], queue[c], posted'[c], pushed'[c])
    BY <1>1, <1>5, <2>1, FlowPush
  <2>. QED  BY <2>2 DEF Flows
<1>9. ~closed'[c] => (writing'[c] <=> inWrite'[c] # NoMsg)
  BY DEF LineInv, WritingInv
<1>. QED  BY <1>4, <1>6, <1>7, <1>8, <1>9, OneLine

(* pump, with q queued and nothing in the write: the front of q goes into  *)
(* it, if there is one.                                                    *)
LEMMA Pumps ==
  ASSUME LineTypes, NEW c \in Conn, NEW q \in Seq(Msg), Pump(c, q), Len(q) <= QueueCap + 1
  PROVE  /\ queue' \in [Conn -> Seq(Msg)] /\ Len(queue'[c]) <= QueueCap
         /\ writing' \in [Conn -> BOOLEAN] /\ inWrite' \in [Conn -> Msg \cup {NoMsg}]
         /\ \A d \in Conn \ {c} : /\ queue'[d] = queue[d] /\ writing'[d] = writing[d]
                                  /\ inWrite'[d] = inWrite[d]
         /\ writing'[c] <=> inWrite'[c] # NoMsg
         /\ \A s, p, all \in Seq(Msg) :
              Flow(s, NoMsg, q, p, all) => Flow(s, inWrite'[c], queue'[c], p, all)
<1>1. /\ queue \in [Conn -> Seq(Msg)] /\ writing \in [Conn -> BOOLEAN]
      /\ inWrite \in [Conn -> Msg \cup {NoMsg}] /\ QueueCap \in Nat \ {0}
  BY ServerAssumption DEF LineTypes
<1>2. CASE q = << >>
  <2>1. /\ writing' = [writing EXCEPT ![c] = FALSE] /\ inWrite' = [inWrite EXCEPT ![c] = NoMsg]
        /\ queue' = [queue EXCEPT ![c] = q]
    BY <1>2 DEF Pump
  <2>2. queue'[c] = q /\ inWrite'[c] = NoMsg /\ writing'[c] = FALSE /\ Len(q) = 0
    BY <1>1, <1>2, <2>1
  <2>. QED  BY <1>1, <2>1, <2>2
<1>3. CASE q # << >>
  <2>1. /\ writing' = [writing EXCEPT ![c] = TRUE] /\ inWrite' = [inWrite EXCEPT ![c] = Head(q)]
        /\ queue' = [queue EXCEPT ![c] = Tail(q)]
    BY <1>3 DEF Pump
  <2>2. /\ Head(q) \in Msg /\ Tail(q) \in Seq(Msg) /\ Len(Tail(q)) = Len(q) - 1
        /\ Len(q) \in Nat
    BY <1>3, HeadTailProperties, LenProperties
  <2>3. Head(q) # NoMsg
    BY <2>2, Messages
  <2>4. writing'[c] = TRUE /\ inWrite'[c] = Head(q) /\ queue'[c] = Tail(q)
    BY <1>1, <2>1
  <2>5. \A s, p, all \in Seq(Msg) :
          Flow(s, NoMsg, q, p, all) => Flow(s, Head(q), Tail(q), p, all)
    <3>1. Rest(q, Head(q), Tail(q))
      BY <1>3, Shorter
    <3>. QED  BY <2>2, <3>1, FlowPump
  <2>6. Len(queue'[c]) <= QueueCap
    BY <1>1, <2>2, <2>4
  <2>7. queue' \in [Conn -> Seq(Msg)]
    BY <1>1, <2>1, <2>2
  <2>8. writing' \in [Conn -> BOOLEAN] /\ inWrite' \in [Conn -> Msg \cup {NoMsg}]
    BY <1>1, <2>1, <2>2
  <2>9. \A d \in Conn \ {c} : /\ queue'[d] = queue[d] /\ writing'[d] = writing[d]
                              /\ inWrite'[d] = inWrite[d]
    BY <1>1, <2>1
  <2>. QED  BY <2>3, <2>4, <2>5, <2>6, <2>7, <2>8, <2>9
<1>. QED  BY <1>2, <1>3
-----------------------------------------------------------------------------
(* The line through the steps that touch it. *)

LEMMA LineRunPosted == ASSUME LineInv, NEW c \in Conn, RunPosted(c) PROVE LineInv'
<1>1. /\ posted \in [Conn -> Seq(Msg)] /\ queue \in [Conn -> Seq(Msg)]
      /\ closed \in [Conn -> BOOLEAN]
      /\ queue[c] \in Seq(Msg) /\ sent[c] \in Seq(Msg) /\ pushed[c] \in Seq(Msg)
      /\ posted[c] \in Seq(Msg) /\ Len(queue[c]) <= QueueCap /\ Len(queue[c]) \in Nat
      /\ QueueCap \in Nat
  BY LenProperties, ServerAssumption DEF LineInv, LineTypes
<1>2. posted[c] # << >> /\ posted' = [posted EXCEPT ![c] = Tail(posted[c])]
      /\ UNCHANGED <<pushed, sent>>
  BY DEF RunPosted
<1>. DEFINE q == Append(queue[c], Head(posted[c]))
<1>3. /\ Head(posted[c]) \in Msg /\ Tail(posted[c]) \in Seq(Msg)
      /\ Rest(posted[c], Head(posted[c]), Tail(posted[c]))
  BY <1>1, <1>2, Shorter
<1>4. q \in Seq(Msg) /\ Grown(queue[c], Head(posted[c]), q)
  BY <1>1, <1>3, Longer
<1>5. Len(q) = Len(queue[c]) + 1
  BY <1>4 DEF Grown
<1>6. /\ posted' \in [Conn -> Seq(Msg)] /\ posted'[c] = Tail(posted[c])
      /\ \A d \in Conn \ {c} : posted'[d] = posted[d]
  BY <1>1, <1>2, <1>3
<1>7. Begins(sent'[c], pushed'[c])
  BY <1>2 DEF LineInv, FlowInv
<1>8. ASSUME ~closed[c]
      PROVE  Flow(sent[c], inWrite[c], q, posted'[c], pushed[c])
  <2>1. Flow(sent[c], inWrite[c], queue[c], posted[c], pushed[c])
    BY <1>8 DEF LineInv, FlowInv, Flows
  <2>. HIDE DEF q
  <2>. QED  BY <1>1, <1>3, <1>4, <1>6, <2>1, FlowTake
<1>9. CASE closed[c]
  <2>1. UNCHANGED <<queue, writing, inWrite, closed>>
    BY <1>9 DEF RunPosted
  <2>2. LineTypes'
    BY <1>2, <1>6, <2>1 DEF LineInv, LineTypes
  <2>. QED  BY <1>2, <1>6, <1>7, <1>9, <2>1, <2>2, OneLine
<1>10. CASE ~closed[c] /\ Full(c)
  <2>1. UNCHANGED <<queue, writing, inWrite>> /\ closed' = [closed EXCEPT ![c] = TRUE]
    BY <1>10 DEF RunPosted, Fail
  <2>2. /\ closed' \in [Conn -> BOOLEAN] /\ closed'[c]
        /\ \A d \in Conn \ {c} : closed'[d] = closed[d]
    BY <1>1, <2>1
  <2>3. LineTypes'
    BY <1>2, <1>6, <2>1, <2>2 DEF LineInv, LineTypes
  <2>. QED  BY <1>2, <1>6, <1>7, <2>1, <2>2, <2>3, OneLine
<1>11. CASE ~closed[c] /\ ~Full(c)
  <2>1. Len(q) <= QueueCap
    BY <1>1, <1>5, <1>11 DEF Full
  <2>2. UNCHANGED closed
    BY <1>11 DEF RunPosted
  <2>3. CASE MustPump(c)
    <3>1. Pump(c, q)
      BY <1>11, <2>3 DEF RunPosted
    <3>2. inWrite[c] = NoMsg
      BY <1>11, <2>3 DEF MustPump, LineInv, WritingInv
    <3>. HIDE DEF q
    <3>3. Len(q) <= QueueCap + 1 /\ LineTypes
      BY <1>1, <1>5, <2>1 DEF LineInv
    <3>4. /\ queue' \in [Conn -> Seq(Msg)] /\ Len(queue'[c]) <= QueueCap
          /\ writing' \in [Conn -> BOOLEAN] /\ inWrite' \in [Conn -> Msg \cup {NoMsg}]
          /\ \A d \in Conn \ {c} : /\ queue'[d] = queue[d] /\ writing'[d] = writing[d]
                                   /\ inWrite'[d] = inWrite[d]
          /\ writing'[c] <=> inWrite'[c] # NoMsg
          /\ \A s, p, all \in Seq(Msg) :
               Flow(s, NoMsg, q, p, all) => Flow(s, inWrite'[c], queue'[c], p, all)
      BY <1>4, <3>1, <3>3, Pumps
    <3>5. LineTypes'
      BY <1>2, <1>6, <2>2, <3>4 DEF LineInv, LineTypes
    <3>6. Flow(sent[c], NoMsg, q, posted'[c], pushed[c])
      BY <1>8, <1>11, <3>2
    <3>7. Flow(sent[c], inWrite'[c], queue'[c], posted'[c], pushed[c])
      BY <1>1, <1>3, <1>6, <3>4, <3>6
    <3>8. Flows(c)'
      BY <1>2, <3>7 DEF Flows
    <3>. QED  BY <1>2, <1>6, <1>7, <2>2, <3>4, <3>5, <3>8, OneLine
  <2>4. CASE ~MustPump(c)
    <3>1. queue' = [queue EXCEPT ![c] = q] /\ UNCHANGED <<writing, inWrite>>
      BY <1>11, <2>4 DEF RunPosted
    <3>. HIDE DEF q
    <3>2. /\ queue' \in [Conn -> Seq(Msg)] /\ queue'[c] = q
          /\ \A d \in Conn \ {c} : queue'[d] = queue[d]
      BY <1>1, <1>4, <3>1
    <3>3. LineTypes'
      BY <1>2, <1>6, <2>1, <2>2, <3>1, <3>2 DEF LineInv, LineTypes
    <3>4. Flows(c)'
      BY <1>2, <1>8, <1>11, <3>1, <3>2 DEF Flows
    <3>5. ~closed'[c] => (writing'[c] <=> inWrite'[c] # NoMsg)
      BY <2>2, <3>1 DEF LineInv, WritingInv
    <3>. QED  BY <1>2, <1>6, <1>7, <2>2, <3>1, <3>2, <3>3, <3>4, <3>5, OneLine
  <2>. QED  BY <2>3, <2>4
<1>. QED  BY <1>9, <1>10, <1>11

LEMMA LineWriteOk == ASSUME LineInv, NEW c \in Conn, WriteOk(c) PROVE LineInv'
<1>1. /\ sent \in [Conn -> Seq(Msg)] /\ QueueCap \in Nat
      /\ queue[c] \in Seq(Msg) /\ sent[c] \in Seq(Msg) /\ pushed[c] \in Seq(Msg)
      /\ posted[c] \in Seq(Msg) /\ Len(queue[c]) <= QueueCap /\ Len(queue[c]) \in Nat
      /\ inWrite[c] \in Msg \cup {NoMsg}
  BY LenProperties, ServerAssumption DEF LineInv, LineTypes
<1>2. /\ inWrite[c] # NoMsg /\ ~closed[c] /\ Pump(c, queue[c])
      /\ sent' = [sent EXCEPT ![c] = Append(sent[c], inWrite[c])]
      /\ UNCHANGED <<posted, closed, pushed>>
  BY DEF WriteOk, PumpNext
<1>3. Append(sent[c], inWrite[c]) \in Seq(Msg)
      /\ Grown(sent[c], inWrite[c], Append(sent[c], inWrite[c]))
  BY <1>1, <1>2, Longer
<1>4. /\ sent' \in [Conn -> Seq(Msg)] /\ sent'[c] = Append(sent[c], inWrite[c])
      /\ \A d \in Conn \ {c} : sent'[d] = sent[d]
  BY <1>1, <1>2, <1>3
<1>5. Len(queue[c]) <= QueueCap + 1 /\ LineTypes
  BY <1>1 DEF LineInv
<1>6. /\ queue' \in [Conn -> Seq(Msg)] /\ Len(queue'[c]) <= QueueCap
      /\ writing' \in [Conn -> BOOLEAN] /\ inWrite' \in [Conn -> Msg \cup {NoMsg}]
      /\ \A d \in Conn \ {c} : /\ queue'[d] = queue[d] /\ writing'[d] = writing[d]
                               /\ inWrite'[d] = inWrite[d]
      /\ writing'[c] <=> inWrite'[c] # NoMsg
      /\ \A s, p, all \in Seq(Msg) :
           Flow(s, NoMsg, queue[c], p, all) => Flow(s, inWrite'[c], queue'[c], p, all)
  BY <1>1, <1>2, <1>5, Pumps
<1>7. LineTypes'
  BY <1>2, <1>4, <1>6 DEF LineInv, LineTypes
<1>8. Flow(sent[c], inWrite[c], queue[c], posted[c], pushed[c])
  BY <1>2 DEF LineInv, FlowInv, Flows
<1>9. Flow(sent'[c], NoMsg, queue[c], posted[c], pushed[c])
  BY <1>1, <1>2, <1>3, <1>4, <1>8, FlowSent
<1>10. sent'[c] \in Seq(Msg)
  BY <1>3, <1>4
<1>11. Flows(c)'
  BY <1>1, <1>2, <1>6, <1>9, <1>10 DEF Flows
<1>12. Begins(sent'[c], pushed'[c])
  BY <1>1, <1>2, <1>9, <1>10, FlowBegins
<1>. QED  BY <1>2, <1>4, <1>6, <1>7, <1>11, <1>12, OneLine

LEMMA LineWriteError == ASSUME LineInv, NEW c \in Conn, WriteError(c) PROVE LineInv'
<1>1. inWrite \in [Conn -> Msg \cup {NoMsg}] /\ closed \in [Conn -> BOOLEAN]
  BY DEF LineInv, LineTypes
<1>2. /\ inWrite' = [inWrite EXCEPT ![c] = NoMsg] /\ closed' = [closed EXCEPT ![c] = TRUE]
      /\ UNCHANGED <<posted, queue, writing, sent, pushed>>
  BY DEF WriteError
<1>3. /\ inWrite' \in [Conn -> Msg \cup {NoMsg}] /\ closed' \in [Conn -> BOOLEAN] /\ closed'[c]
      /\ \A d \in Conn \ {c} : inWrite'[d] = inWrite[d] /\ closed'[d] = closed[d]
  BY <1>1, <1>2
<1>4. LineTypes'
  BY <1>2, <1>3 DEF LineInv, LineTypes
<1>5. Begins(sent'[c], pushed'[c])
  BY <1>2 DEF LineInv, FlowInv
<1>. QED  BY <1>2, <1>3, <1>4, <1>5, OneLine

-----------------------------------------------------------------------------
(* The other variables: types, and what the subscribers have been told. *)

RestTypes ==
  /\ reader \in [Conn -> {"reading", "acking", "ackingFeed", "looking", "feeding",
                         "leaving", "gone"}]
  /\ seen \in [Conn -> 0 .. LedgerBound + 1]
  /\ peer \in [Conn -> BOOLEAN]
  /\ ledgerSubs \subseteq Conn /\ targets \subseteq Conn
  /\ ledger \in 1 .. LedgerBound + 1 /\ announced \in 1 .. ledger
  /\ telling \in {"no", "copy", "push"}
  /\ requests \in [Conn -> 0 .. RequestBound]

LEMMA TypeParts == TypeOK <=> LineTypes /\ RestTypes
BY DEF TypeOK, LineTypes, RestTypes

(* A subscriber knows the ledger last broadcast, or a later one, or it     *)
(* will be told: by the broadcast, which has it on its list, or by its     *)
(* first feed, which has not been looked up yet or was since that ledger.  *)
(* Only between the close and the copy of the list is that not so.         *)
Told(c) == \E x \in Int : InQueue(pushed[c], x) /\ x >= announced

WillBeTold(c) ==
  \/ c \in targets
  \/ reader[c] \in {"ackingFeed", "looking"}
  \/ reader[c] = "feeding" /\ seen[c] >= announced

FeedInv ==
  /\ telling = "no" => targets = {}
  /\ telling # "no" => announced = ledger
  /\ telling # "copy" => \A c \in ledgerSubs : Told(c) \/ WillBeTold(c)

(* What has been pushed stays pushed. *)
LEMMA PushTells ==
  ASSUME LineTypes, NEW c \in Conn, NEW m \in Msg, Push(c, m)
  PROVE  \A d \in Conn : \A x :
           InQueue(pushed'[d], x) <=> InQueue(pushed[d], x) \/ (d = c /\ x = m)
<1>1. pushed \in [Conn -> Seq(Msg)] /\ pushed[c] \in Seq(Msg)
  BY DEF LineTypes
<1>2. pushed' = [pushed EXCEPT ![c] = Append(pushed[c], m)]
  BY DEF Push
<1>3. pushed'[c] = Append(pushed[c], m) /\ \A d \in Conn \ {c} : pushed'[d] = pushed[d]
  BY <1>1, <1>2
<1>4. \A x : InQueue(Append(pushed[c], m), x) <=> InQueue(pushed[c], x) \/ x = m
  BY <1>1, AppendQueue
<1>. QED  BY <1>3, <1>4

(* The handlers and the other end touch none of it. *)
LEMMA Handlers ==
  ASSUME RestTypes, FeedInv, NEW c \in Conn, RunPosted(c) \/ WriteEnds(c) \/ PeerLeaves(c)
  PROVE  RestTypes' /\ FeedInv'
<1>1. UNCHANGED <<reader, seen, ledgerSubs, targets, ledger, announced, telling, requests,
                  pushed>>
  BY DEF RunPosted, WriteEnds, WriteOk, WriteError, PeerLeaves, feedVars, ledgerVars
<1>2. peer' \in [Conn -> BOOLEAN]
  <2>1. peer' = peer \/ (\E b \in BOOLEAN : peer' = [peer EXCEPT ![c] = b])
    <3>1. CASE WriteError(c)
      <4>1. peer' = [peer EXCEPT ![c] = peer[c] /\ closed[c]]
        BY <3>1 DEF WriteError
      <4>. QED  BY <4>1
    <3>2. CASE RunPosted(c) \/ WriteOk(c) \/ PeerLeaves(c)
      BY <3>2 DEF RunPosted, WriteOk, PeerLeaves
    <3>. QED  BY <3>1, <3>2 DEF WriteEnds
  <2>. QED  BY <2>1 DEF RestTypes
<1>. QED  BY <1>1, <1>2 DEF RestTypes, FeedInv, Told, WillBeTold

LEMMA Requests ==
  ASSUME RestTypes, FeedInv, NEW c \in Conn, Read(c)
  PROVE  RestTypes' /\ FeedInv'
<1>1. /\ reader \in [Conn -> {"reading", "acking", "ackingFeed", "looking", "feeding",
                              "leaving", "gone"}]
      /\ requests \in [Conn -> 0 .. RequestBound] /\ RequestBound \in Nat
  BY ServerAssumption DEF RestTypes
<1>2. /\ reader[c] = "reading" /\ requests[c] > 0
      /\ requests' = [requests EXCEPT ![c] = requests[c] - 1]
      /\ UNCHANGED <<seen, peer, pushed, targets, ledger, announced, telling>>
  BY DEF Read, ReadSubscribe, ReadUnsubscribe, ReadOther, Reads, feedVars, ledgerVars
<1>3. requests' \in [Conn -> 0 .. RequestBound]
  BY <1>1, <1>2
<1>4. \/ /\ reader' = [reader EXCEPT ![c] = "ackingFeed"] /\ ledgerSubs' = ledgerSubs \cup {c}
      \/ /\ reader' = [reader EXCEPT ![c] = "acking"] /\ ledgerSubs' \in SUBSET ledgerSubs
  BY DEF Read, ReadSubscribe, ReadUnsubscribe, ReadOther, Register, Registers
<1>5. RestTypes'
  BY <1>2, <1>3, <1>4 DEF RestTypes
<1>6. \A d \in Conn \ {c} : reader'[d] = reader[d]
  BY <1>1, <1>4
<1>7. FeedInv'
  <2>1. CASE reader' = [reader EXCEPT ![c] = "ackingFeed"] /\ ledgerSubs' = ledgerSubs \cup {c}
    <3>1. reader'[c] = "ackingFeed"
      BY <1>1, <2>1
    <3>. QED  BY <1>2, <1>6, <2>1, <3>1 DEF FeedInv, Told, WillBeTold, RestTypes
  <2>2. CASE reader' = [reader EXCEPT ![c] = "acking"] /\ ledgerSubs' \in SUBSET ledgerSubs
    BY <1>2, <1>6, <2>2 DEF FeedInv, Told, WillBeTold, RestTypes
  <2>. QED  BY <1>4, <2>1, <2>2
<1>. QED  BY <1>5, <1>7

LEMMA Dispatches ==
  ASSUME LineTypes, RestTypes, FeedInv, NEW c \in Conn, Dispatch(c)
  PROVE  RestTypes' /\ FeedInv'
<1>1. /\ reader \in [Conn -> {"reading", "acking", "ackingFeed", "looking", "feeding",
                              "leaving", "gone"}]
      /\ seen \in [Conn -> 0 .. LedgerBound + 1] /\ LedgerBound \in Nat
      /\ ledger \in 1 .. LedgerBound + 1 /\ announced \in 1 .. ledger
      /\ ledgerSubs \subseteq Conn
  BY ServerAssumption DEF RestTypes
<1>2. CASE Ack(c)
  <2>1. /\ reader[c] \in {"acking", "ackingFeed"} /\ Push(c, Answer)
        /\ reader' = [reader EXCEPT ![c] = IF reader[c] = "acking" THEN "reading" ELSE "looking"]
        /\ UNCHANGED <<seen, peer, ledgerSubs, targets, ledger, announced, telling, requests>>
    BY <1>2 DEF Ack, feedVars, ledgerVars
  <2>2. \A d \in Conn : Told(d) => Told(d)'
    <3>1. \A d \in Conn : \A x : InQueue(pushed[d], x) => InQueue(pushed'[d], x)
      BY <2>1, Messages, PushTells
    <3>. QED  BY <2>1, <3>1 DEF Told
  <2>3. /\ reader[c] = "ackingFeed" => reader'[c] = "looking"
        /\ \A d \in Conn \ {c} : reader'[d] = reader[d]
    BY <1>1, <2>1
  <2>4. RestTypes'
    BY <2>1 DEF RestTypes
  <2>5. \A d \in Conn : WillBeTold(d) => WillBeTold(d)'
    BY <2>1, <2>3 DEF WillBeTold
  <2>. QED  BY <1>1, <2>1, <2>2, <2>4, <2>5 DEF FeedInv
<1>3. CASE LookUp(c)
  <2>1. /\ reader[c] = "looking" /\ reader' = [reader EXCEPT ![c] = "feeding"]
        /\ seen' = [seen EXCEPT ![c] = ledger]
        /\ UNCHANGED <<peer, pushed, ledgerSubs, targets, ledger, announced, telling, requests>>
    BY <1>3 DEF LookUp, feedVars, ledgerVars
  <2>2. /\ reader'[c] = "feeding" /\ seen'[c] = ledger /\ ledger >= announced
        /\ \A d \in Conn \ {c} : reader'[d] = reader[d] /\ seen'[d] = seen[d]
    BY <1>1, <2>1
  <2>3. seen' \in [Conn -> 0 .. LedgerBound + 1]
    BY <1>1, <2>1
  <2>4. RestTypes'
    BY <2>1, <2>3 DEF RestTypes
  <2>5. \A d \in Conn : WillBeTold(d) => WillBeTold(d)'
    BY <2>1, <2>2 DEF WillBeTold
  <2>. QED  BY <1>1, <2>1, <2>4, <2>5 DEF FeedInv, Told
<1>4. CASE FirstFeed(c)
  <2>1. /\ reader[c] = "feeding" /\ reader' = [reader EXCEPT ![c] = "reading"]
        /\ Push(c, seen[c]) /\ seen' = [seen EXCEPT ![c] = 0]
        /\ UNCHANGED <<peer, ledgerSubs, targets, ledger, announced, telling, requests>>
    BY <1>4 DEF FirstFeed, Register, Registers, feedVars, ledgerVars
  <2>2. seen[c] \in Msg
    BY <1>1 DEF Msg, Answer
  <2>3. \A d \in Conn : \A x :
          InQueue(pushed'[d], x) <=> InQueue(pushed[d], x) \/ (d = c /\ x = seen[c])
    BY <2>1, <2>2, PushTells
  <2>4. \A d \in Conn \ {c} : reader'[d] = reader[d] /\ seen'[d] = seen[d]
    BY <1>1, <2>1
  <2>5. seen' \in [Conn -> 0 .. LedgerBound + 1]
    BY <1>1, <2>1
  <2>6. RestTypes'
    BY <2>1, <2>5 DEF RestTypes
  <2>7. ASSUME NEW d \in Conn, Told(d) \/ WillBeTold(d) PROVE Told(d)' \/ WillBeTold(d)'
    <3>1. CASE Told(d)
      BY <2>1, <2>3, <3>1 DEF Told
    <3>2. CASE d = c /\ WillBeTold(d)
      <4>1. d \in targets \/ seen[c] >= announced
        BY <2>1, <3>2 DEF WillBeTold
      <4>2. seen[c] \in Int
        BY <1>1
      <4>. QED  BY <2>1, <2>3, <3>2, <4>1, <4>2 DEF Told, WillBeTold
    <3>3. CASE d # c /\ WillBeTold(d)
      BY <2>1, <2>4, <3>3 DEF WillBeTold
    <3>. QED  BY <2>7, <3>1, <3>2, <3>3
  <2>. QED  BY <1>1, <2>1, <2>6, <2>7 DEF FeedInv
<1>5. CASE ReadEnds(c) \/ Leave(c)
  <2>1. /\ reader[c] \in {"reading", "leaving"} /\ ledgerSubs' \in SUBSET ledgerSubs
        /\ \/ reader' = [reader EXCEPT ![c] = "leaving"]
           \/ reader' = [reader EXCEPT ![c] = "gone"]
        /\ UNCHANGED <<seen, peer, pushed, targets, ledger, announced, telling, requests>>
    BY <1>5 DEF ReadEnds, Leave, Unlist, feedVars, ledgerVars
  <2>2. \A d \in Conn \ {c} : reader'[d] = reader[d]
    BY <1>1, <2>1
  <2>3. RestTypes'
    BY <2>1 DEF RestTypes
  <2>4. \A d \in Conn : WillBeTold(d) => WillBeTold(d)'
    BY <2>1, <2>2 DEF WillBeTold
  <2>. QED  BY <1>1, <2>1, <2>3, <2>4 DEF FeedInv, Told
<1>. QED  BY <1>2, <1>3, <1>4, <1>5 DEF Dispatch

LEMMA Broadcasts ==
  ASSUME LineTypes, RestTypes, FeedInv, Broadcast \/ Resnapshot
  PROVE  RestTypes' /\ FeedInv'
<1>1. LedgerBound \in Nat /\ ledger \in 1 .. LedgerBound + 1 /\ announced \in 1 .. ledger
      /\ ledgerSubs \subseteq Conn /\ targets \subseteq Conn
  BY ServerAssumption DEF RestTypes
<1>2. CASE CloseLedger
  <2>1. /\ ledger <= LedgerBound /\ ledger' = ledger + 1 /\ telling' = "copy"
        /\ announced' = ledger + 1
        /\ UNCHANGED <<reader, seen, peer, ledgerSubs, targets, requests>>
    BY <1>2 DEF CloseLedger
  <2>2. ledger' \in 1 .. LedgerBound + 1 /\ announced' \in 1 .. ledger'
    BY <1>1, <2>1
  <2>. QED  BY <1>1, <2>1, <2>2 DEF RestTypes, FeedInv
<1>6. CASE Resnapshot
  <2>1. /\ telling = "no" /\ ledger <= LedgerBound /\ ledger' = ledger + 1
        /\ UNCHANGED <<reader, seen, peer, pushed, ledgerSubs, announced, targets, telling,
                       requests>>
    BY <1>6 DEF Resnapshot
  <2>2. ledger' \in 1 .. LedgerBound + 1 /\ announced' \in 1 .. ledger'
    BY <1>1, <2>1
  <2>3. RestTypes'
    BY <2>1, <2>2 DEF RestTypes
  <2>. QED  BY <2>1, <2>3 DEF FeedInv, Told, WillBeTold
<1>3. CASE BroadcastCopy
  <2>1. /\ targets' = ledgerSubs /\ telling' = "push"
        /\ UNCHANGED <<reader, seen, peer, ledgerSubs, ledger, announced, requests>>
    BY <1>3 DEF BroadcastCopy, ledgerVars
  <2>2. RestTypes'
    BY <1>1, <2>1 DEF RestTypes
  <2>3. telling # "no"
    BY <1>3 DEF BroadcastCopy
  <2>. QED  BY <2>1, <2>2, <2>3 DEF FeedInv, WillBeTold
<1>4. CASE BroadcastPush
  <2>1. PICK c \in targets : Push(c, ledger) /\ targets' = targets \ {c}
    BY <1>4 DEF BroadcastPush
  <2>2. /\ telling = "push"
        /\ UNCHANGED <<reader, seen, peer, ledgerSubs, ledger, announced, telling, requests>>
    BY <1>4 DEF BroadcastPush, ledgerVars
  <2>3. \A d \in Conn : \A x :
          InQueue(pushed'[d], x) <=> InQueue(pushed[d], x) \/ (d = c /\ x = ledger)
    BY <1>1, <2>1, Messages, PushTells
  <2>4. ASSUME NEW d \in Conn, Told(d) \/ WillBeTold(d) PROVE Told(d)' \/ WillBeTold(d)'
    <3>1. CASE Told(d)
      BY <2>2, <2>3, <3>1 DEF Told
    <3>2. CASE d = c
      <4>1. ledger \in Int /\ ledger >= announced
        BY <1>1
      <4>. QED  BY <2>2, <2>3, <3>2, <4>1 DEF Told
    <3>3. CASE d # c /\ WillBeTold(d)
      BY <2>1, <2>2, <3>3 DEF WillBeTold
    <3>. QED  BY <2>4, <3>1, <3>2, <3>3
  <2>5. RestTypes'
    BY <2>1, <2>2 DEF RestTypes
  <2>. QED  BY <1>1, <2>2, <2>4, <2>5 DEF FeedInv
<1>5. CASE BroadcastEnds
  <2>1. /\ telling = "push" /\ targets = {} /\ telling' = "no"
        /\ UNCHANGED <<reader, seen, peer, pushed, ledgerSubs, targets, ledger, announced,
                       requests>>
    BY <1>5 DEF BroadcastEnds, ledgerVars
  <2>. QED  BY <2>1 DEF RestTypes, FeedInv, Told, WillBeTold
<1>. QED  BY <1>2, <1>3, <1>4, <1>5, <1>6 DEF Broadcast

-----------------------------------------------------------------------------
WsInv == LineInv /\ RestTypes /\ FeedInv

LEMMA WsInit == Init => WsInv
<1>. SUFFICES ASSUME Init PROVE WsInv
  OBVIOUS
<1>. USE DEF Init
<1>0. QueueCap \in Nat \ {0} /\ LedgerBound \in Nat /\ RequestBound \in Nat
  BY ServerAssumption
<1>1. << >> \in Seq(Msg) /\ Len(<< >>) = 0
  BY EmptySeq
<1>2. LineTypes
  BY <1>0, <1>1 DEF LineTypes
<1>3. WritingInv
  BY DEF WritingInv
<1>4. Flow(<< >>, NoMsg, << >>, << >>, << >>) /\ Begins(<< >>, << >>)
  BY <1>1 DEF Flow, Begins, One
<1>5. FlowInv
  BY <1>4 DEF FlowInv, Flows
<1>6. RestTypes
  BY <1>0 DEF RestTypes
<1>7. FeedInv
  BY DEF FeedInv
<1>. QED  BY <1>2, <1>3, <1>5, <1>6, <1>7 DEF WsInv, LineInv

(* The line through all steps. *)
LEMMA LineStep == ASSUME LineInv, RestTypes, Next PROVE LineInv'
<1>1. ASSUME UNCHANGED <<sendVars, pushed>> PROVE LineInv'
  BY <1>1 DEF sendVars, LineInv, LineTypes, WritingInv, FlowInv, Flows
<1>2. ASSUME Broadcast \/ Resnapshot PROVE LineInv'
  <2>1. CASE CloseLedger \/ BroadcastCopy \/ BroadcastEnds \/ Resnapshot
    BY <1>1, <2>1 DEF CloseLedger, BroadcastCopy, BroadcastEnds, Resnapshot
  <2>2. CASE BroadcastPush
    <3>1. PICK c \in targets : Push(c, ledger)
      BY <2>2 DEF BroadcastPush
    <3>2. c \in Conn /\ ledger \in Msg
      BY Messages DEF RestTypes
    <3>3. UNCHANGED <<queue, writing, inWrite, closed, sent>>
      BY <2>2 DEF BroadcastPush
    <3>. QED  BY <3>1, <3>2, <3>3, LinePush
  <2>. QED  BY <1>2, <2>1, <2>2 DEF Broadcast
<1>3. ASSUME NEW c \in Conn, RunPosted(c) \/ WriteEnds(c) \/ PeerLeaves(c) PROVE LineInv'
  <2>1. CASE PeerLeaves(c)
    BY <1>1, <2>1 DEF PeerLeaves
  <2>. QED  BY <1>3, <2>1, LineRunPosted, LineWriteOk, LineWriteError DEF WriteEnds
<1>4. ASSUME NEW c \in Conn, Read(c) PROVE LineInv'
  BY <1>1, <1>4 DEF Read, ReadSubscribe, ReadUnsubscribe, ReadOther, Reads
<1>5. ASSUME NEW c \in Conn, Dispatch(c) PROVE LineInv'
  <2>1. CASE Ack(c)
    <3>1. Push(c, Answer) /\ UNCHANGED <<queue, writing, inWrite, closed, sent>>
      BY <2>1 DEF Ack
    <3>. QED  BY <3>1, Messages, LinePush
  <2>2. CASE FirstFeed(c)
    <3>1. Push(c, seen[c]) /\ UNCHANGED <<queue, writing, inWrite, closed, sent>>
      BY <2>2 DEF FirstFeed
    <3>2. seen[c] \in Msg
      BY ServerAssumption DEF RestTypes, Msg, Answer
    <3>. QED  BY <3>1, <3>2, LinePush
  <2>3. CASE LookUp(c) \/ ReadEnds(c) \/ Leave(c)
    BY <1>1, <2>3 DEF LookUp, ReadEnds, Leave
  <2>. QED  BY <1>5, <2>1, <2>2, <2>3 DEF Dispatch
<1>. QED  BY <1>2, <1>3, <1>4, <1>5 DEF Next

LEMMA WsStep == WsInv /\ [Next]_vars => WsInv'
<1>. SUFFICES ASSUME WsInv, [Next]_vars PROVE WsInv'
  OBVIOUS
<1>1. LineInv /\ LineTypes /\ RestTypes /\ FeedInv
  BY DEF WsInv, LineInv
<1>2. CASE Next
  <2>1. LineInv'
    BY <1>1, <1>2, LineStep
  <2>2. RestTypes' /\ FeedInv'
    BY <1>1, <1>2, Broadcasts, Handlers, Requests, Dispatches DEF Next
  <2>. QED  BY <2>1, <2>2 DEF WsInv
<1>3. CASE UNCHANGED vars
  BY <1>3 DEF vars, sendVars, feedVars, ledgerVars, WsInv, LineInv, LineTypes, WritingInv,
              FlowInv, Flows, RestTypes, FeedInv, Told, WillBeTold
<1>. QED  BY <1>2, <1>3

LEMMA WsAlways == Spec => []WsInv
BY WsInit, WsStep, PTL DEF Spec

(* What is queued on an open connection waits for the write in progress,   *)
(* and a connection whose coroutine has ended is not listed.               *)
BackedInv == \A c \in Conn : ~closed[c] /\ queue[c] # << >> => inWrite[c] # NoMsg

GoneInv == \A c \in ledgerSubs : reader[c] # "gone"

(* pump() leaves nothing queued without a write. *)
LEMMA PumpBacks ==
  ASSUME LineTypes, NEW c \in Conn, NEW q \in Seq(Msg), Pump(c, q)
  PROVE  /\ queue'[c] # << >> => inWrite'[c] # NoMsg
         /\ \A d \in Conn \ {c} : queue'[d] = queue[d] /\ inWrite'[d] = inWrite[d]
<1>1. queue \in [Conn -> Seq(Msg)] /\ inWrite \in [Conn -> Msg \cup {NoMsg}]
  BY DEF LineTypes
<1>2. CASE q = << >>
  BY <1>1, <1>2 DEF Pump
<1>3. CASE q # << >>
  <2>1. Head(q) # NoMsg
    BY <1>3, HeadTailProperties, Messages
  <2>. QED  BY <1>1, <1>3, <2>1 DEF Pump
<1>. QED  BY <1>2, <1>3

LEMMA BackedStep == ASSUME LineInv, BackedInv, [Next]_vars PROVE BackedInv'
<1>0. /\ LineTypes /\ closed \in [Conn -> BOOLEAN]
      /\ queue \in [Conn -> Seq(Msg)] /\ posted \in [Conn -> Seq(Msg)]
  BY DEF LineInv, LineTypes
<1>1. ASSUME UNCHANGED <<queue, inWrite>>, \A c \in Conn : closed[c] => closed'[c]
      PROVE  BackedInv'
  BY <1>1 DEF BackedInv
<1>2. ASSUME NEW c \in Conn, NEW q \in Seq(Msg), Pump(c, q), closed' = closed
      PROVE  BackedInv'
  BY <1>0, <1>2, PumpBacks DEF BackedInv
<1>3. ASSUME NEW c \in Conn, RunPosted(c) PROVE BackedInv'
  <2>1. CASE closed[c]
    BY <1>1, <1>3, <2>1 DEF RunPosted
  <2>2. CASE ~closed[c] /\ Full(c)
    <3>1. Fail(c)
      BY <1>3, <2>2 DEF RunPosted
    <3>. QED  BY <1>0, <1>1, <3>1 DEF Fail
  <2>3. CASE ~closed[c] /\ ~Full(c)
    <3>. DEFINE q == Append(queue[c], Head(posted[c]))
    <3>1. /\ closed' = closed /\ posted[c] # << >>
          /\ IF MustPump(c) THEN Pump(c, q)
             ELSE queue' = [queue EXCEPT ![c] = q] /\ UNCHANGED <<writing, inWrite>>
      BY <1>3, <2>3 DEF RunPosted
    <3>2. q \in Seq(Msg)
      BY <1>0, <3>1, HeadTailProperties, AppendProperties
    <3>. HIDE DEF q
    <3>3. CASE MustPump(c)
      BY <1>2, <3>1, <3>2, <3>3
    <3>4. CASE ~MustPump(c)
      <4>1. inWrite[c] # NoMsg
        BY <2>3, <3>4 DEF MustPump, LineInv, WritingInv
      <4>2. \A d \in Conn : d # c => queue'[d] = queue[d]
        BY <1>0, <3>1, <3>4
      <4>. QED  BY <3>1, <3>4, <4>1, <4>2 DEF BackedInv
    <3>. QED  BY <3>3, <3>4
  <2>. QED  BY <2>1, <2>2, <2>3
<1>4. ASSUME NEW c \in Conn, WriteOk(c) PROVE BackedInv'
  BY <1>0, <1>2, <1>4 DEF WriteOk, PumpNext
<1>5. ASSUME NEW c \in Conn, WriteError(c) PROVE BackedInv'
  <2>1. /\ inWrite' = [inWrite EXCEPT ![c] = NoMsg] /\ queue' = queue
        /\ closed' = [closed EXCEPT ![c] = TRUE] /\ inWrite \in [Conn -> Msg \cup {NoMsg}]
    BY <1>5 DEF WriteError, LineInv, LineTypes
  <2>2. closed'[c] /\ \A d \in Conn : d # c => closed'[d] = closed[d] /\ inWrite'[d] = inWrite[d]
    BY <1>0, <2>1
  <2>. QED  BY <2>1, <2>2 DEF BackedInv
<1>6. ASSUME NEW c \in Conn, PeerLeaves(c) \/ Read(c) \/ Dispatch(c)
      PROVE  UNCHANGED <<queue, inWrite, closed>>
  BY <1>6 DEF PeerLeaves, Read, ReadSubscribe, ReadUnsubscribe, ReadOther, Reads, Dispatch, Ack,
              LookUp, FirstFeed, ReadEnds, Leave, sendVars
<1>7. CASE Broadcast \/ Resnapshot
  BY <1>1, <1>7 DEF Broadcast, CloseLedger, BroadcastCopy, BroadcastPush, BroadcastEnds,
                    Resnapshot, sendVars
<1>8. CASE UNCHANGED vars
  BY <1>1, <1>8 DEF vars, sendVars
<1>. QED  BY <1>1, <1>3, <1>4, <1>5, <1>6, <1>7, <1>8 DEF Next, WriteEnds

(* Only a coroutine that reads registers, and the last thing it does is to *)
(* take itself off the list.                                               *)
LEMMA GoneStep == ASSUME RestTypes, GoneInv, [Next]_vars PROVE GoneInv'
<1>0. reader \in [Conn -> {"reading", "acking", "ackingFeed", "looking", "feeding",
                          "leaving", "gone"}] /\ ledgerSubs \subseteq Conn
  BY DEF RestTypes
<1>1. ASSUME UNCHANGED <<reader, ledgerSubs>> PROVE GoneInv'
  BY <1>1 DEF GoneInv
<1>2. ASSUME NEW c \in Conn, NEW to \in {"reading", "acking", "ackingFeed", "looking",
                                        "feeding", "leaving"},
             reader' = [reader EXCEPT ![c] = to], ledgerSubs' \subseteq ledgerSubs \cup {c}
      PROVE  GoneInv'
  BY <1>0, <1>2 DEF GoneInv
<1>3. ASSUME NEW c \in Conn, Read(c) PROVE GoneInv'
  <2>1. \/ reader' = [reader EXCEPT ![c] = "ackingFeed"]
        \/ reader' = [reader EXCEPT ![c] = "acking"]
    BY <1>3 DEF Read, ReadSubscribe, ReadUnsubscribe, ReadOther
  <2>2. ledgerSubs' \subseteq ledgerSubs \cup {c}
    BY <1>3 DEF Read, ReadSubscribe, ReadUnsubscribe, ReadOther, Register
  <2>. QED  BY <1>2, <2>1, <2>2
<1>4. ASSUME NEW c \in Conn, Dispatch(c) PROVE GoneInv'
  <2>1. CASE Leave(c)
    <3>1. /\ \A d \in Conn : d # c => reader'[d] = reader[d]
          /\ ledgerSubs' = ledgerSubs \ {c}
      BY <1>0, <2>1 DEF Leave, Unlist
    <3>. QED  BY <1>0, <3>1 DEF GoneInv
  <2>2. CASE Ack(c)
    <3>1. /\ ledgerSubs' = ledgerSubs
          /\ \/ reader' = [reader EXCEPT ![c] = "reading"]
             \/ reader' = [reader EXCEPT ![c] = "looking"]
      BY <2>2 DEF Ack
    <3>. QED  BY <1>2, <3>1
  <2>3. CASE LookUp(c) \/ FirstFeed(c) \/ ReadEnds(c)
    <3>1. ledgerSubs' = ledgerSubs
      BY <2>3 DEF LookUp, FirstFeed, ReadEnds, Register, Registers
    <3>2. \/ reader' = [reader EXCEPT ![c] = "feeding"]
          \/ reader' = [reader EXCEPT ![c] = "reading"]
          \/ reader' = [reader EXCEPT ![c] = "leaving"]
      BY <2>3 DEF LookUp, FirstFeed, ReadEnds
    <3>. QED  BY <1>2, <3>1, <3>2
  <2>. QED  BY <1>4, <2>1, <2>2, <2>3 DEF Dispatch
<1>5. ASSUME NEW c \in Conn, RunPosted(c) \/ WriteEnds(c) \/ PeerLeaves(c) PROVE GoneInv'
  BY <1>1, <1>5 DEF RunPosted, WriteEnds, WriteOk, WriteError, PeerLeaves
<1>6. CASE Broadcast \/ Resnapshot
  BY <1>1, <1>6 DEF Broadcast, CloseLedger, BroadcastCopy, BroadcastPush, BroadcastEnds,
                    Resnapshot
<1>7. CASE UNCHANGED vars
  BY <1>1, <1>7 DEF vars
<1>. QED  BY <1>3, <1>4, <1>5, <1>6, <1>7 DEF Next

LEMMA RestAlways == Spec => [](BackedInv /\ GoneInv)
<1>1. Init => BackedInv /\ GoneInv
  BY DEF Init, BackedInv, GoneInv
<1>2. WsInv /\ BackedInv /\ GoneInv /\ [Next]_vars => (BackedInv /\ GoneInv)'
  BY BackedStep, GoneStep DEF WsInv
<1>. QED  BY <1>1, <1>2, WsAlways, PTL DEF Spec

(* WireInOrder: what several threads push to a connection is written once  *)
(* and in the order it was pushed, one write at a time, nothing waits in   *)
(* the send queue without a write before it, and the queue stays within    *)
(* its limit (send, pump and fail in server.cpp).                          *)
THEOREM WiredInOrder == Spec => []WireInOrder
<1>1. WsInv /\ BackedInv => WireInOrder
  <2>. SUFFICES ASSUME WsInv, BackedInv PROVE WireInOrder
    OBVIOUS
  <2>1. TypeOK
    BY TypeParts DEF WsInv, LineInv
  <2>2. ASSUME NEW c \in Conn
        PROVE  /\ IsPrefix(sent[c], pushed[c])
               /\ ~closed[c] => pushed[c] = sent[c] \o InWrite(c) \o queue[c] \o posted[c]
    <3>1. /\ sent[c] \in Seq(Msg) /\ pushed[c] \in Seq(Msg) /\ queue[c] \in Seq(Msg)
          /\ posted[c] \in Seq(Msg) /\ inWrite[c] \in Msg \cup {NoMsg}
      BY DEF WsInv, LineInv, LineTypes
    <3>2. IsPrefix(sent[c], pushed[c])
      BY <3>1, BeginsIsPrefix DEF WsInv, LineInv, FlowInv
    <3>3. ASSUME ~closed[c]
          PROVE  pushed[c] = sent[c] \o InWrite(c) \o queue[c] \o posted[c]
      <4>. DEFINE w == InWrite(c)
                  sw == sent[c] \o w
                  swq == sw \o queue[c]
                  all == swq \o posted[c]
      <4>1. w \in Seq(Msg) /\ Len(w) = One(inWrite[c]) /\ (inWrite[c] # NoMsg => w[1] = inWrite[c])
        BY <3>1, EmptySeq DEF InWrite, One
      <4>2. sw \in Seq(Msg) /\ Joined(sent[c], w, sw)
        <5>. HIDE DEF w
        <5>. QED  BY <3>1, <4>1, Concats
      <4>3. swq \in Seq(Msg) /\ Joined(sw, queue[c], swq)
        <5>. HIDE DEF sw
        <5>. QED  BY <3>1, <4>2, Concats
      <4>4. all \in Seq(Msg) /\ Joined(swq, posted[c], all)
        <5>. HIDE DEF swq
        <5>. QED  BY <3>1, <4>3, Concats
      <4>5. Flow(sent[c], inWrite[c], queue[c], posted[c], pushed[c])
        BY <3>3 DEF WsInv, LineInv, FlowInv, Flows
      <4>6. Single(inWrite[c], w)
        <5>. HIDE DEF w
        <5>. QED  BY <4>1 DEF Single
      <4>7. Concat4(sent[c], w, queue[c], posted[c], all)
        <5>. HIDE DEF w, sw, swq, all
        <5>. QED  BY <4>2, <4>3, <4>4 DEF Concat4
      <4>8. Parts(sent[c], inWrite[c], queue[c], posted[c], pushed[c], w, all)
        <5>. HIDE DEF w, sw, swq, all
        <5>. QED  BY <3>1, <4>1, <4>4, <4>5, <4>6, <4>7 DEF Parts
      <4>9. pushed[c] = all
        <5>. HIDE DEF w, sw, swq, all
        <5>. QED  BY <4>8, FlowJoined
      <4>. QED  BY <4>9
    <3>. QED  BY <3>2, <3>3
  <2>. QED  BY <2>1, <2>2 DEF WireInOrder, BackedInv
<1>. QED  BY <1>1, WsAlways, RestAlways, PTL

(* NoMissedClose: between two broadcasts every listed connection that has  *)
(* been answered has been told the ledger of the last or one served since, *)
(* by the broadcast or by its first feed, and none is listed that was left *)
(* (broadcastLedger and the subscribe command in server.cpp).              *)
THEOREM NoneMissesAClose == Spec => []NoMissedClose
<1>1. WsInv /\ GoneInv => NoMissedClose
  <2>. SUFFICES ASSUME WsInv, GoneInv, telling = "no", NEW c \in ledgerSubs, StrandFree(c)
                PROVE  \E i \in DOMAIN pushed[c] : pushed[c][i] >= announced
    BY DEF NoMissedClose, GoneInv
  <2>1. Told(c)
    BY DEF WsInv, FeedInv, WillBeTold, StrandFree
  <2>2. c \in Conn /\ pushed[c] \in Seq(Msg)
    BY DEF WsInv, LineInv, LineTypes, RestTypes
  <2>3. DOMAIN pushed[c] = 1 .. Len(pushed[c])
    BY <2>2, LenProperties
  <2>. QED  BY <2>1, <2>3 DEF Told, InQueue
<1>. QED  BY <1>1, WsAlways, RestAlways, PTL

=============================================================================
