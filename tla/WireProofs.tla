----------------------------- MODULE WireProofs -----------------------------
(***************************************************************************)
(* The answer that a call returns is that to its request, which one        *)
(* session forwarded to each backend at most once, for any number of       *)
(* clients, connections and backends; and requests sent without waiting    *)
(* are answered in their order.                                            *)
(***************************************************************************)
EXTENDS Wire, TLAPS, SequenceTheorems, FiniteSetTheorems

Ids == (Clients \union {"raw"}) \X Nat

ReqMsgs ==
    [id : Ids, kind : {"request", "replicated request"}, ask : Asks,
     close : BOOLEAN, len : Nat, size : Nat]

AnsMsgs ==
    [id : Ids, kind : Codes \union {503}, close : BOOLEAN, len : Nat, size : Nat]

Msgs == ReqMsgs \union AnsMsgs

Tokens == [t : {"line", "headers", "byte"}, m : Msgs]

(* Of what is on its way, only the start lines matter: a message without   *)
(* its line is never read.                                                 *)
IsLine(s, i) == s[i].t = "line"

Lines(s) == {s[i].m : i \in {j \in DOMAIN s : IsLine(s, j)}}

IdsOf(s) == {m.id : m \in Lines(s)}

Once(s) ==
    \A i, j \in DOMAIN s : IsLine(s, i) /\ IsLine(s, j) /\ s[i].m.id = s[j].m.id => i = j

-----------------------------------------------------------------------------
(* Sequences of tokens.                                                    *)
LEMMA TokenAt ==
    ASSUME NEW s \in Seq(Tokens)
    PROVE  /\ Len(s) \in Nat /\ DOMAIN s = 1 .. Len(s)
           /\ \A i \in DOMAIN s : s[i] \in Tokens /\ s[i].m \in Msgs
<1>1. Len(s) \in Nat /\ DOMAIN s = 1 .. Len(s)
  BY LenProperties
<1>2. ASSUME NEW i \in DOMAIN s PROVE s[i] \in Tokens
  BY <1>1, ElementOfSeq
<1> QED
  BY <1>1, <1>2 DEF Tokens

LEMMA LineIn ==
    ASSUME NEW s, NEW i \in DOMAIN s, IsLine(s, i)
    PROVE  s[i].m \in Lines(s) /\ s[i].m.id \in IdsOf(s)
BY DEF Lines, IdsOf

LEMMA LineAt ==
    ASSUME NEW s, NEW m \in Lines(s)
    PROVE  \E i \in DOMAIN s : IsLine(s, i) /\ s[i].m = m
BY DEF Lines

LEMMA LinesType ==
    ASSUME NEW s \in Seq(Tokens)
    PROVE  Lines(s) \subseteq Msgs
BY TokenAt DEF Lines

LEMMA IdAt ==
    ASSUME NEW s, NEW x \in IdsOf(s)
    PROVE  \E i \in DOMAIN s : IsLine(s, i) /\ s[i].m.id = x
BY DEF Lines, IdsOf

LEMMA EmptyLines ==
    /\ <<>> \in Seq(Tokens)
    /\ Lines(<<>>) = {} /\ IdsOf(<<>>) = {} /\ Once(<<>>)
<1>1. DOMAIN <<>> = {}
  BY EmptySeq, LenProperties
<1> QED
  BY <1>1 DEF Lines, IdsOf, Once

LEMMA Joined ==
    ASSUME NEW s \in Seq(Tokens), NEW t \in Seq(Tokens)
    PROVE  /\ s \o t \in Seq(Tokens)
           /\ DOMAIN (s \o t) = 1 .. Len(s) + Len(t)
           /\ \A i \in DOMAIN s : i \in DOMAIN (s \o t) /\ (s \o t)[i] = s[i]
           /\ \A i \in DOMAIN t : Len(s) + i \in DOMAIN (s \o t) /\ (s \o t)[Len(s) + i] = t[i]
           /\ \A i \in DOMAIN (s \o t) :
                 \/ i \in DOMAIN s /\ (s \o t)[i] = s[i]
                 \/ i - Len(s) \in DOMAIN t /\ (s \o t)[i] = t[i - Len(s)]
<1>1. /\ s \o t \in Seq(Tokens) /\ Len(s \o t) = Len(s) + Len(t)
      /\ \A i \in 1 .. Len(s) + Len(t) :
             (s \o t)[i] = IF i <= Len(s) THEN s[i] ELSE t[i - Len(s)]
  BY ConcatProperties
<1>2. /\ Len(s) \in Nat /\ DOMAIN s = 1 .. Len(s)
      /\ Len(t) \in Nat /\ DOMAIN t = 1 .. Len(t)
      /\ DOMAIN (s \o t) = 1 .. Len(s) + Len(t)
  BY <1>1, LenProperties
<1>3. ASSUME NEW i \in DOMAIN t
      PROVE  Len(s) + i \in DOMAIN (s \o t) /\ (s \o t)[Len(s) + i] = t[i]
  <2>1. Len(s) + i \in 1 .. Len(s) + Len(t) /\ ~(Len(s) + i <= Len(s)) /\ (Len(s) + i) - Len(s) = i
    BY <1>2
  <2> QED
    BY <1>1, <1>2, <2>1
<1>4. ASSUME NEW i \in DOMAIN s
      PROVE  i \in DOMAIN (s \o t) /\ (s \o t)[i] = s[i]
  BY <1>1, <1>2
<1>5. ASSUME NEW i \in DOMAIN (s \o t)
      PROVE  \/ i \in DOMAIN s /\ (s \o t)[i] = s[i]
             \/ i - Len(s) \in DOMAIN t /\ (s \o t)[i] = t[i - Len(s)]
  <2>1. i \in 1 .. Len(s) + Len(t)
    BY <1>2
  <2>2. CASE i <= Len(s)
    BY <1>1, <1>2, <2>1, <2>2
  <2>3. CASE ~(i <= Len(s))
    <3>1. i - Len(s) \in DOMAIN t
      BY <1>2, <2>1, <2>3
    <3> QED
      BY <1>1, <2>1, <2>3, <3>1
  <2> QED
    BY <2>2, <2>3
<1> QED
  BY <1>1, <1>2, <1>3, <1>4, <1>5

LEMMA JoinedLines ==
    ASSUME NEW s \in Seq(Tokens), NEW t \in Seq(Tokens)
    PROVE  /\ s \o t \in Seq(Tokens)
           /\ Lines(s \o t) = Lines(s) \union Lines(t)
           /\ IdsOf(s \o t) = IdsOf(s) \union IdsOf(t)
           /\ Once(s \o t) <=> Once(s) /\ Once(t) /\ IdsOf(s) \intersect IdsOf(t) = {}
<1> DEFINE u == s \o t
<1>1. /\ s \o t \in Seq(Tokens)
      /\ \A i \in DOMAIN s : i \in DOMAIN u /\ u[i] = s[i]
      /\ \A i \in DOMAIN t : Len(s) + i \in DOMAIN u /\ u[Len(s) + i] = t[i]
      /\ \A i \in DOMAIN u : \/ i \in DOMAIN s /\ u[i] = s[i]
                             \/ i - Len(s) \in DOMAIN t /\ u[i] = t[i - Len(s)]
  BY Joined
<1>0. DOMAIN s = 1 .. Len(s) /\ DOMAIN t = 1 .. Len(t) /\ Len(s) \in Nat /\ Len(t) \in Nat
      /\ DOMAIN u = 1 .. Len(s) + Len(t)
  BY Joined, LenProperties
<1> HIDE DEF u
<1>2. Lines(s) \subseteq Lines(u) /\ Lines(t) \subseteq Lines(u)
  BY <1>1 DEF Lines, IsLine
<1>3. Lines(u) \subseteq Lines(s) \union Lines(t)
  <2>1. ASSUME NEW i \in DOMAIN u, IsLine(u, i)
        PROVE  u[i].m \in Lines(s) \union Lines(t)
    <3>1. CASE i \in DOMAIN s /\ u[i] = s[i]
      BY <3>1, <2>1, LineIn DEF IsLine
    <3>2. CASE i - Len(s) \in DOMAIN t /\ u[i] = t[i - Len(s)]
      BY <3>2, <2>1, LineIn DEF IsLine
    <3> QED
      BY <3>1, <3>2, <1>1
  <2> QED
    BY <2>1 DEF Lines
<1>4. Lines(u) = Lines(s) \union Lines(t)
  BY <1>2, <1>3
<1>5. IdsOf(u) = IdsOf(s) \union IdsOf(t)
  BY <1>4 DEF IdsOf
<1>6. ASSUME Once(u) PROVE Once(s) /\ Once(t) /\ IdsOf(s) \intersect IdsOf(t) = {}
  <2>1. Once(s)
    BY <1>1, <1>6 DEF Once, IsLine
  <2>2. Once(t)
    <3>1. SUFFICES ASSUME NEW i \in DOMAIN t, NEW j \in DOMAIN t,
                          IsLine(t, i), IsLine(t, j), t[i].m.id = t[j].m.id
                   PROVE  i = j
      BY DEF Once
    <3>2. Len(s) + i = Len(s) + j
      BY <1>1, <1>6, <3>1 DEF Once, IsLine
    <3> QED
      BY <1>0, <3>2
  <2>3. ASSUME NEW x \in IdsOf(s), x \in IdsOf(t) PROVE FALSE
    <3>1. PICK i \in DOMAIN s : IsLine(s, i) /\ s[i].m.id = x
      BY <2>3, IdAt
    <3>2. PICK j \in DOMAIN t : IsLine(t, j) /\ t[j].m.id = x
      BY <2>3, IdAt
    <3>3. i = Len(s) + j
      BY <1>1, <1>6, <3>1, <3>2 DEF Once, IsLine
    <3> QED
      BY <1>0, <3>1, <3>2, <3>3
  <2> QED
    BY <2>1, <2>2, <2>3
<1>7. ASSUME Once(s), Once(t), IdsOf(s) \intersect IdsOf(t) = {} PROVE Once(u)
  <2>1. SUFFICES ASSUME NEW i \in DOMAIN u, NEW j \in DOMAIN u,
                        IsLine(u, i), IsLine(u, j), u[i].m.id = u[j].m.id
                 PROVE  i = j
    BY DEF Once
  <2>2. CASE i \in DOMAIN s /\ u[i] = s[i] /\ j \in DOMAIN s /\ u[j] = s[j]
    BY <1>7, <2>1, <2>2 DEF Once, IsLine
  <2>3. CASE i \in DOMAIN s /\ u[i] = s[i] /\ j - Len(s) \in DOMAIN t /\ u[j] = t[j - Len(s)]
    BY <1>7, <2>1, <2>3, LineIn DEF IsLine
  <2>4. CASE j \in DOMAIN s /\ u[j] = s[j] /\ i - Len(s) \in DOMAIN t /\ u[i] = t[i - Len(s)]
    BY <1>7, <2>1, <2>4, LineIn DEF IsLine
  <2>5. CASE /\ j - Len(s) \in DOMAIN t /\ u[j] = t[j - Len(s)]
             /\ i - Len(s) \in DOMAIN t /\ u[i] = t[i - Len(s)]
    <3>1. i - Len(s) = j - Len(s)
      BY <1>7, <2>1, <2>5 DEF Once, IsLine
    <3> QED
      BY <1>0, <3>1
  <2> QED
    BY <1>1, <2>2, <2>3, <2>4, <2>5
<1> QED
  BY <1>1, <1>4, <1>5, <1>6, <1>7 DEF u

(* What is received of what was sent, and the rest.                        *)
LEMMA JoinedIds ==
    ASSUME NEW s \in Seq(Tokens), NEW t \in Seq(Tokens)
    PROVE  IdsOf(s) \subseteq IdsOf(s \o t) /\ IdsOf(t) \subseteq IdsOf(s \o t)
<1>1. IdsOf(s \o t) = IdsOf(s) \union IdsOf(t)
  BY JoinedLines
<1> QED
  BY <1>1

LEMMA CutLines ==
    ASSUME NEW s \in Seq(Tokens), NEW n \in 0 .. Len(s)
    PROVE  /\ SubSeq(s, 1, n) \in Seq(Tokens)
           /\ SubSeq(s, n + 1, Len(s)) \in Seq(Tokens)
           /\ s = SubSeq(s, 1, n) \o SubSeq(s, n + 1, Len(s))
<1>1. Len(s) \in Nat
  BY LenProperties
<1>2. s = SubSeq(s, 1, Len(s))
  BY SubSeqFull
<1>3. SubSeq(s, 1, n) \o SubSeq(s, n + 1, Len(s)) = SubSeq(s, 1, Len(s))
  <2>1. /\ 1 \in 1 .. Len(s) + 1 /\ n \in 1 - 1 .. Len(s) /\ Len(s) \in n .. Len(s)
    BY <1>1
  <2> QED
    BY <2>1, ConcatAdjacentSubSeq
<1>4. SubSeq(s, 1, n) \in Seq(Tokens)
  BY <1>1, SubSeqProperties
<1>5. SubSeq(s, n + 1, Len(s)) \in Seq(Tokens)
  BY <1>1, SubSeqProperties
<1> QED
  BY <1>2, <1>3, <1>4, <1>5

LEMMA CutIds ==
    ASSUME NEW s \in Seq(Tokens), NEW n \in 0 .. Len(s)
    PROVE  LET front == SubSeq(s, 1, n)
               back == SubSeq(s, n + 1, Len(s)) IN
           /\ front \in Seq(Tokens) /\ back \in Seq(Tokens) /\ s = front \o back
           /\ Lines(s) = Lines(front) \union Lines(back)
           /\ IdsOf(s) = IdsOf(front) \union IdsOf(back)
           /\ Once(s) => Once(front) /\ Once(back) /\ IdsOf(front) \intersect IdsOf(back) = {}
<1> DEFINE front == SubSeq(s, 1, n)
           back == SubSeq(s, n + 1, Len(s))
<1>1. front \in Seq(Tokens) /\ back \in Seq(Tokens) /\ s = front \o back
  BY CutLines
<1> HIDE DEF front, back
<1>2. /\ Lines(s) = Lines(front) \union Lines(back)
      /\ IdsOf(s) = IdsOf(front) \union IdsOf(back)
      /\ Once(s) => Once(front) /\ Once(back) /\ IdsOf(front) \intersect IdsOf(back) = {}
  BY <1>1, JoinedLines
<1> QED
  BY <1>1, <1>2 DEF front, back

LEMMA FrontLines ==
    ASSUME NEW s \in Seq(Tokens), NEW n \in 0 .. Len(s), NEW t, t = SubSeq(s, 1, n)
    PROVE  /\ t \in Seq(Tokens) /\ Lines(t) \subseteq Lines(s) /\ IdsOf(t) \subseteq IdsOf(s)
           /\ Once(s) => Once(t)
<1> DEFINE back == SubSeq(s, n + 1, Len(s))
<1>1. t \in Seq(Tokens) /\ back \in Seq(Tokens) /\ s = t \o back
  BY CutLines
<1> HIDE DEF back
<1>2. /\ Lines(t \o back) = Lines(t) \union Lines(back)
      /\ IdsOf(t \o back) = IdsOf(t) \union IdsOf(back)
      /\ Once(t \o back) => Once(t)
  BY <1>1, JoinedLines
<1>3. /\ Lines(s) = Lines(t) \union Lines(back)
      /\ IdsOf(s) = IdsOf(t) \union IdsOf(back)
      /\ Once(s) => Once(t)
  BY <1>1, <1>2, Zenon
<1> QED
  BY <1>1, <1>3

LEMMA JoinedThree ==
    ASSUME NEW s \in Seq(Tokens), NEW t \in Seq(Tokens), NEW u \in Seq(Tokens)
    PROVE  (s \o t) \o u = s \o (t \o u)
BY ConcatAssociative

LEMMA MsgTokens ==
    ASSUME NEW m \in Msgs
    PROVE  /\ m.id \in Ids /\ m.len \in Nat /\ m.size \in Nat
           /\ Token("line", m) \in Tokens /\ Token("headers", m) \in Tokens
           /\ Token("byte", m) \in Tokens
<1>1. m.id \in Ids /\ m.len \in Nat /\ m.size \in Nat
  <2>1. CASE m \in ReqMsgs
    BY <2>1 DEF ReqMsgs
  <2>2. CASE m \in AnsMsgs
    BY <2>2 DEF AnsMsgs
  <2> QED
    BY <2>1, <2>2 DEF Msgs
<1>2. \A t \in {"line", "headers", "byte"} : Token(t, m) \in Tokens
  BY DEF Token, Tokens
<1> QED
  BY <1>1, <1>2

LEMMA HeadLines ==
    ASSUME NEW m \in Msgs
    PROVE  /\ HeadOf(m) \in Seq(Tokens)
           /\ Lines(HeadOf(m)) = {m} /\ IdsOf(HeadOf(m)) = {m.id} /\ Once(HeadOf(m))
<1> DEFINE s == HeadOf(m)
<1>1. s = <<Token("line", m), Token("headers", m)>>
  BY DEF HeadOf
<1>2. s \in Seq(Tokens) /\ DOMAIN s = 1 .. 2 /\ s[1] = Token("line", m) /\ s[2] = Token("headers", m)
  BY <1>1, MsgTokens
<1> HIDE DEF s
<1>3. Lines(s) = {m}
  BY <1>2 DEF Lines, IsLine, Token
<1>4. IdsOf(s) = {m.id}
  BY <1>3 DEF IdsOf
<1>5. Once(s)
  BY <1>2 DEF Once, IsLine, Token
<1> QED
  BY <1>2, <1>3, <1>4, <1>5 DEF s

LEMMA BodyLines ==
    ASSUME NEW m \in Msgs
    PROVE  /\ BodyOf(m) \in Seq(Tokens)
           /\ Lines(BodyOf(m)) = {} /\ IdsOf(BodyOf(m)) = {} /\ Once(BodyOf(m))
<1> DEFINE s == BodyOf(m)
<1>1. s = [i \in 1 .. m.size |-> Token("byte", m)]
  BY DEF BodyOf
<1>2. s \in Seq(Tokens)
  BY <1>1, MsgTokens, IsASeq
<1>3. \A i \in DOMAIN s : ~IsLine(s, i)
  BY <1>1 DEF IsLine, Token
<1> HIDE DEF s
<1>4. Lines(s) = {} /\ Once(s)
  BY <1>3 DEF Lines, Once
<1>5. IdsOf(s) = {}
  BY <1>4 DEF IdsOf
<1> QED
  BY <1>2, <1>4, <1>5 DEF s

LEMMA WholeLines ==
    ASSUME NEW m \in Msgs
    PROVE  /\ HeadOf(m) \o BodyOf(m) \in Seq(Tokens)
           /\ Lines(HeadOf(m) \o BodyOf(m)) = {m}
           /\ IdsOf(HeadOf(m) \o BodyOf(m)) = {m.id}
           /\ Once(HeadOf(m) \o BodyOf(m))
<1>1. /\ HeadOf(m) \in Seq(Tokens) /\ Lines(HeadOf(m)) = {m}
      /\ IdsOf(HeadOf(m)) = {m.id} /\ Once(HeadOf(m))
  BY HeadLines
<1>2. /\ BodyOf(m) \in Seq(Tokens) /\ Lines(BodyOf(m)) = {}
      /\ IdsOf(BodyOf(m)) = {} /\ Once(BodyOf(m))
  BY BodyLines
<1> QED
  BY <1>1, <1>2, JoinedLines

(* A reader that is done has the line of a message first.                  *)
LEMMA ProgressIs ==
    ASSUME NEW s \in Seq(Tokens)
    PROVE  /\ Progress(s) \in {"line", "malformed", "headers", "content", "complete"}
           /\ Progress(s) = "complete" =>
                 /\ 1 \in DOMAIN s /\ IsLine(s, 1)
                 /\ s[1].m \in Lines(s) /\ s[1].m \in Msgs /\ 2 + s[1].m.len \in 2 .. Len(s)
<1>1. ASSUME Progress(s) = "complete"
      PROVE  IsStartLine(s) /\ read_headers(s) /\ read_content(s)
  BY <1>1 DEF Progress, IsStartLine
<1>2. ASSUME Progress(s) = "complete"
      PROVE  /\ 1 \in DOMAIN s /\ IsLine(s, 1)
             /\ s[1].m \in Msgs /\ 2 + s[1].m.len \in 2 .. Len(s)
  <2>1. Len(s) \in Nat /\ Len(s) >= 2 /\ DOMAIN s = 1 .. Len(s)
    BY <1>1, <1>2, LenProperties DEF read_headers
  <2>2. 1 \in DOMAIN s /\ s[1] \in Tokens
    BY <2>1, ElementOfSeq
  <2>3. IsLine(s, 1)
    BY <1>1, <1>2 DEF IsStartLine, IsLine
  <2>4. s[1].m \in Msgs
    BY <2>2 DEF Tokens
  <2>5. s[1].m.len \in Nat /\ Len(s) >= 2 + s[1].m.len
    BY <1>1, <1>2, <2>4, MsgTokens DEF read_content
  <2> QED
    BY <2>1, <2>2, <2>3, <2>4, <2>5
<1>3. Progress(s) \in {"line", "malformed", "headers", "content", "complete"}
  BY DEF Progress
<1> QED
  BY <1>2, <1>3, LineIn

-----------------------------------------------------------------------------
(* Connections.  What is closed holds nothing that could be received.      *)
ConnTypes ==
    conn \in [Conns -> [at : [Ends -> {"closed", "open", "backlog"}], to : [Ends -> Seq(Tokens)]]]

ConnOK ==
    /\ ConnTypes
    /\ \A c \in Conns : \A e \in Ends : conn[c].at[e] = "closed" => conn[c].to[e] = <<>>

(* The states of the two ends and what is on its way to them, after a step *)
(* of the socket at one end.                                               *)
SameAt(c) == conn'[c].at = conn[c].at

SameTo(c) == conn'[c].to = conn[c].to

OthersSame(c) == \A d \in Conns \ {c} : conn'[d] = conn[d]

Wrote(c, e, data) ==
    /\ OthersSame(c) /\ SameAt(c)
    /\ conn'[c].to[e] = conn[c].to[e]
    /\ conn'[c].to[Other(e)] = IF Gone(c, Other(e)) THEN conn[c].to[Other(e)]
                               ELSE conn[c].to[Other(e)] \o data

Took(c, e, n) ==
    /\ OthersSame(c) /\ SameAt(c)
    /\ n \in 1 .. Len(conn[c].to[e])
    /\ conn'[c].to[Other(e)] = conn[c].to[Other(e)]
    /\ conn'[c].to[e] = SubSeq(conn[c].to[e], n + 1, Len(conn[c].to[e]))

ClosedEnd(c, e) ==
    /\ OthersSame(c)
    /\ conn'[c].at[e] = "closed" /\ conn'[c].at[Other(e)] = conn[c].at[Other(e)]
    /\ conn'[c].to[e] = <<>>
    /\ \E n \in 0 .. Len(conn[c].to[Other(e)]) :
          conn'[c].to[Other(e)] = SubSeq(conn[c].to[Other(e)], 1, n)

LEMMA OtherEnd ==
    ASSUME NEW e \in Ends
    PROVE  Other(e) \in Ends /\ Other(e) # e /\ Ends = {e, Other(e)}
BY DEF Ends, Other

LEMMA ConnFields ==
    ASSUME ConnOK, NEW c \in Conns
    PROVE  /\ conn[c] \in [at : [Ends -> {"closed", "open", "backlog"}], to : [Ends -> Seq(Tokens)]]
           /\ \A e \in Ends : /\ conn[c].to[e] \in Seq(Tokens)
                              /\ conn[c].at[e] \in {"closed", "open", "backlog"}
                              /\ conn[c].at[e] = "closed" => conn[c].to[e] = <<>>
BY DEF ConnOK, ConnTypes

LEMMA WriteDoes ==
    ASSUME ConnOK, NEW c \in Conns, NEW e \in Ends, NEW data \in Seq(Tokens), NEW ok,
           Write(c, e, data, ok)
    PROVE  ConnOK' /\ Wrote(c, e, data)
<1> DEFINE f == Other(e)
           new == conn[c].to[f] \o data
<1>1. f \in Ends /\ f # e /\ Ends = {e, f}
  BY OtherEnd
<1>2. CASE Gone(c, f)
  <2>1. conn' = conn
    BY <1>2 DEF Write
  <2> QED
    BY <1>1, <1>2, <2>1 DEF ConnOK, ConnTypes, Wrote, OthersSame, SameAt
<1>3. CASE ~Gone(c, f)
  <2>1. conn' = [conn EXCEPT ![c].to[f] = new]
    BY <1>3 DEF Write
  <2>2. conn[c].to[f] \in Seq(Tokens)
    BY <1>1, ConnFields
  <2>3. new \in Seq(Tokens)
    BY <2>2, ConcatProperties
  <2> HIDE DEF new
  <2>4. ConnTypes'
    BY <1>1, <2>1, <2>3 DEF ConnOK, ConnTypes
  <2>5. OthersSame(c) /\ SameAt(c) /\ conn'[c].to[e] = conn[c].to[e] /\ conn'[c].to[f] = new
    BY <1>1, <2>1 DEF ConnOK, ConnTypes, OthersSame, SameAt
  <2>6. ConnOK'
    BY <1>1, <1>3, <2>4, <2>5 DEF ConnOK, OthersSame, SameAt, Gone
  <2> QED
    BY <1>3, <2>5, <2>6 DEF Wrote, new
<1> QED
  BY <1>2, <1>3

LEMMA RecvDoes ==
    ASSUME ConnOK, NEW c \in Conns, NEW e \in Ends, NEW n \in Arrived(c, e), Recv(c, e, n)
    PROVE  ConnOK' /\ Took(c, e, n)
<1> DEFINE f == Other(e)
           s == conn[c].to[e]
           new == SubSeq(s, n + 1, Len(s))
<1>1. f \in Ends /\ f # e /\ Ends = {e, f}
  BY OtherEnd
<1>2. s \in Seq(Tokens) /\ Len(s) \in Nat
  BY ConnFields, LenProperties
<1>3. n \in 1 .. Len(s)
  BY <1>2 DEF Arrived
<1>4. new \in Seq(Tokens)
  BY <1>2, <1>3, CutLines
<1>5. conn' = [conn EXCEPT ![c].to[e] = new]
  BY DEF Recv
<1> HIDE DEF new
<1>6. ConnTypes'
  BY <1>4, <1>5 DEF ConnOK, ConnTypes
<1>7. OthersSame(c) /\ SameAt(c) /\ conn'[c].to[f] = conn[c].to[f] /\ conn'[c].to[e] = new
  BY <1>1, <1>5 DEF ConnOK, ConnTypes, OthersSame, SameAt
<1>8. conn[c].at[e] # "closed"
  BY <1>2, <1>3, ConnFields, EmptySeq
<1>9. ConnOK'
  BY <1>1, <1>6, <1>7, <1>8 DEF ConnOK, OthersSame, SameAt
<1> QED
  BY <1>3, <1>7, <1>9 DEF Took, new

LEMMA CloseDoes ==
    ASSUME ConnOK, NEW c \in Conns, NEW e \in Ends, Close(c, e)
    PROVE  ConnOK' /\ ClosedEnd(c, e)
<1> DEFINE f == Other(e)
           s == conn[c].to[f]
<1>1. f \in Ends /\ f # e /\ Ends = {e, f}
  BY OtherEnd
<1>2. s \in Seq(Tokens) /\ Len(s) \in Nat
  BY <1>1, ConnFields, LenProperties
<1>3. PICK kept \in MayKeep(c, e) : conn' = [conn EXCEPT ![c] = ClosedAt(c, e, kept)]
  BY DEF Close
<1>4. kept \in 0 .. Len(s)
  BY <1>2 DEF MayKeep
<1> DEFINE front == SubSeq(s, 1, kept)
           x == ClosedAt(c, e, kept)
<1>5. front \in Seq(Tokens) /\ <<>> \in Seq(Tokens)
  BY <1>2, <1>4, CutLines, EmptyLines
<1>6. x = [at |-> [conn[c].at EXCEPT ![e] = "closed"],
           to |-> [conn[c].to EXCEPT ![e] = <<>>, ![f] = front]]
  BY <1>1 DEF ClosedAt
<1> HIDE DEF front, x
<1>7. x \in [at : [Ends -> {"closed", "open", "backlog"}], to : [Ends -> Seq(Tokens)]]
  BY <1>1, <1>5, <1>6, ConnFields
<1>8. /\ x.at[e] = "closed" /\ x.at[f] = conn[c].at[f]
      /\ x.to[e] = <<>> /\ x.to[f] = front
  BY <1>1, <1>6, ConnFields
<1>9. conn' = [conn EXCEPT ![c] = x]
  BY <1>3 DEF x
<1>10. ConnTypes' /\ OthersSame(c) /\ conn'[c] = x
  BY <1>7, <1>9 DEF ConnOK, ConnTypes, OthersSame
<1>11. s = <<>> => front = <<>>
  BY <1>4, EmptySeq, SubSeqEmpty DEF front
<1>12. ConnOK'
  BY <1>1, <1>8, <1>10, <1>11, ConnFields DEF ConnOK, OthersSame
<1> QED
  BY <1>4, <1>8, <1>10, <1>12 DEF ClosedEnd, front

LEMMA ConnectDoes ==
    ASSUME ConnOK, NEW slots \in SUBSET Conns, NEW c, Connect(c, slots)
    PROVE  /\ ConnOK' /\ OthersSame(c) /\ c \in slots
           /\ conn[c].at["client"] = "closed" /\ conn[c].at["server"] = "closed"
           /\ conn'[c].at["client"] = "open" /\ conn'[c].at["server"] = "backlog"
           /\ conn'[c].to["client"] = <<>> /\ conn'[c].to["server"] = <<>>
<1>1. c \in Unused(slots)
  BY DEF Connect
<1>2. c \in slots /\ c \in Conns /\ conn[c] = NoConn
  BY <1>1 DEF Unused
<1>3. conn' = [conn EXCEPT ![c] = Connected(c)]
  BY DEF Connect
<1> DEFINE x == Connected(c)
<1>4. /\ x.at = [client |-> "open", server |-> "backlog"]
      /\ x.to = [e \in Ends |-> <<>>]
      /\ x = [at |-> x.at, to |-> x.to]
  BY DEF Connected, NoConn
<1> HIDE DEF x
<1>5. x.at \in [Ends -> {"closed", "open", "backlog"}] /\ x.to \in [Ends -> Seq(Tokens)]
      /\ \A e \in Ends : x.at[e] # "closed"
  BY <1>4, EmptyLines DEF Ends
<1>6. x \in [at : [Ends -> {"closed", "open", "backlog"}], to : [Ends -> Seq(Tokens)]]
  BY <1>4, <1>5
<1>7. ConnTypes' /\ OthersSame(c) /\ conn'[c] = x
  BY <1>2, <1>3, <1>6 DEF ConnOK, ConnTypes, OthersSame, x
<1>8. ConnOK'
  BY <1>5, <1>7 DEF ConnOK, OthersSame
<1>9. conn[c].at["client"] = "closed" /\ conn[c].at["server"] = "closed"
  BY <1>2 DEF NoConn, Ends
<1> QED
  BY <1>2, <1>4, <1>7, <1>8, <1>9 DEF Ends

LEMMA AcceptDoes ==
    ASSUME ConnOK, NEW c \in Conns, Accept(c)
    PROVE  /\ ConnOK' /\ OthersSame(c) /\ SameTo(c)
           /\ conn[c].at["server"] = "backlog" /\ conn'[c].at["server"] = "open"
           /\ conn'[c].at["client"] = conn[c].at["client"]
<1>1. "server" \in Ends /\ "client" \in Ends
  BY DEF Ends
<1>2. conn' = [conn EXCEPT ![c].at["server"] = "open"] /\ conn[c].at["server"] = "backlog"
  BY DEF Accept
<1>3. ConnTypes'
  BY <1>1, <1>2 DEF ConnOK, ConnTypes
<1>4. /\ OthersSame(c) /\ SameTo(c)
      /\ conn'[c].at["server"] = "open" /\ conn'[c].at["client"] = conn[c].at["client"]
  BY <1>1, <1>2 DEF ConnOK, ConnTypes, OthersSame, SameTo
<1>5. ConnOK'
  BY <1>3, <1>4 DEF ConnOK, OthersSame, SameTo, Ends
<1> QED
  BY <1>2, <1>4, <1>5

LEMMA ConnStays ==
    ASSUME ConnOK, UNCHANGED conn
    PROVE  ConnOK'
BY DEF ConnOK, ConnTypes

-----------------------------------------------------------------------------
(* Types, who holds which socket, and what a session works on.             *)
ClientRec ==
    [pc : {"idle", "send", "connect", "head", "body", "read", "return"}, n : Nat,
     sock : Slots \union {None}, req : ReqMsgs \union {None}, buf : Seq(Tokens),
     res : Msgs \union {None}, err : {"Success", "Connection", "Write", "Read"}]

LinkedPcs == {"send", "wait", "answered", "failed"}

WorkingPcs == LinkedPcs \union {"route", "connect", "reply"}

SessionRec ==
    [pc : WorkingPcs \union {"none", "recv", "close"}, buf : Seq(Tokens),
     req : Msgs \union {None}, todo : Seq(Nodes), sock : BackendSlots \union {None},
     rbuf : Seq(Tokens), out : Msgs \union {None}]

BackendRec ==
    [node : Nodes \union {None}, pc : {"read", "run", "write"},
     req : Msgs \union {None}, res : Msgs \union {None}]

RawRec == [pc : {"absent", "new", "open", "closed"}, sent : Nat, buf : Seq(Tokens)]

Types ==
    /\ ConnOK
    /\ client \in [Clients -> ClientRec]
    /\ session \in [Slots -> SessionRec]
    /\ backend \in [BackendSlots -> BackendRec]
    /\ done \in [Nodes -> Seq([id : Ids, kind : Codes])]
    /\ raw \in RawRec

Working(c) == session[c].pc \in WorkingPcs

Linked(c) == session[c].pc \in LinkedPcs

ClientOK(k) ==
    /\ client[k].sock # None => conn[client[k].sock].at["client"] = "open"
    /\ client[k].pc \in {"send", "head", "body", "read"} => client[k].sock # None
    /\ client[k].pc = "connect" => client[k].sock = None
    /\ client[k].pc \notin {"read", "return"} => client[k].buf = <<>>
    /\ client[k].pc # "idle" \/ client[k].n > 0 =>
          client[k].n > 0 /\ client[k].req \in ReqMsgs /\ client[k].req.id = <<k, client[k].n>>
    /\ client[k].pc = "return" /\ client[k].err = "Success" =>
          /\ client[k].sock # None
          /\ 1 \in DOMAIN client[k].buf /\ IsLine(client[k].buf, 1)
          /\ client[k].res = client[k].buf[1].m

FirstIs(buf, m) ==
    /\ 1 \in DOMAIN buf /\ IsLine(buf, 1) /\ m = buf[1].m
    /\ 2 + m.len \in 2 .. Len(buf)

NoRepeat(s) == \A i, j \in DOMAIN s : s[i] = s[j] => i = j

SessionOK(c) ==
    /\ session[c].pc = "none" <=> conn[c].at["server"] # "open"
    /\ session[c].pc = "none" => session[c].buf = <<>>
    /\ Linked(c) <=> session[c].sock # None
    /\ Linked(c) => /\ conn[session[c].sock].at["client"] = "open"
                    /\ session[c].todo # <<>>
                    /\ backend[session[c].sock].node \in {None, Head(session[c].todo)}
    /\ Working(c) => FirstIs(session[c].buf, session[c].req)
    /\ NoRepeat(session[c].todo)
    /\ session[c].pc = "route" => session[c].out = None
    /\ session[c].pc = "answered" => 1 \in DOMAIN session[c].rbuf /\ IsLine(session[c].rbuf, 1)

BackendOK(b) ==
    /\ backend[b].node = None => backend[b] = NoBackend
    /\ backend[b].node = None <=> conn[b].at["server"] = "closed"
    /\ backend[b].pc = "run" => backend[b].req \in Msgs
    /\ backend[b].pc = "write" => backend[b].res \in Msgs

OneOwner ==
    /\ \A k, l \in Clients : client[k].sock # None /\ client[k].sock = client[l].sock => k = l
    /\ \A c, d \in Slots : session[c].sock # None /\ session[c].sock = session[d].sock => c = d

(* What the session of c has yet to answer, or to read.                    *)
UpLines(c) ==
    IF session[c].pc = "close" THEN {}
    ELSE Lines(session[c].buf) \union Lines(conn[c].to["server"])

UpIds(c) == {m.id : m \in UpLines(c)}

UpOnce(c) ==
    session[c].pc # "close" => Once(session[c].buf \o conn[c].to["server"])

(* Either k calls, or the client that does not wait is there.              *)
OneRegime ==
    /\ raw.pc # "absent" =>
          \A k \in Clients : client[k].n = 0 /\ client[k].pc = "idle" /\ client[k].sock = None
    /\ raw.pc = "absent" => raw.sent = 0

Shape ==
    /\ Types
    /\ \A k \in Clients : ClientOK(k)
    /\ \A c \in Slots : SessionOK(c) /\ UpLines(c) \subseteq ReqMsgs
    /\ \A b \in BackendSlots : BackendOK(b)
    /\ OneOwner /\ OneRegime

-----------------------------------------------------------------------------
(* What each step of a client does.                                        *)
OnlyClient(k) ==
    /\ client' \in [Clients -> ClientRec]
    /\ \A l \in Clients \ {k} : client'[l] = client[l]

SameCall(k) ==
    OnlyClient(k) /\ client'[k].n = client[k].n /\ client'[k].req = client[k].req

LEMMA ClientsType ==
    ASSUME Types PROVE client \in [Clients -> ClientRec]
BY DEF Types

LEMMA ClientType ==
    ASSUME Types, NEW k \in Clients
    PROVE  /\ client[k] \in ClientRec
           /\ client[k].sock # None => client[k].sock \in Slots /\ client[k].sock \in Conns
           /\ client[k].buf \in Seq(Tokens)
BY HttpClientAssumption DEF Types, ClientRec

LEMMA RequestType ==
    ASSUME NEW k \in Clients, NEW n \in Nat, NEW r \in Requests[k]
    PROVE  Request(k, n, r) \in ReqMsgs /\ Request(k, n, r).id = <<k, n>>
<1>1. r \in Asks /\ BodyLen(r) \in Nat /\ <<k, n>> \in Ids
  BY DEF Asks, BodyLen, Ids
<1> QED
  BY <1>1 DEF Request, ReqMsgs

LEMMA CallDoes ==
    ASSUME Types, NEW k \in Clients, NEW r \in Requests[k], Call(k, r)
    PROVE  /\ OnlyClient(k) /\ UNCHANGED conn /\ client[k].pc = "idle"
           /\ client'[k].n = client[k].n + 1 /\ client'[k].sock = client[k].sock
           /\ client'[k].req \in ReqMsgs /\ client'[k].req.id = <<k, client[k].n + 1>>
           /\ client'[k].buf = <<>>
           /\ client'[k].pc = IF client[k].sock = None THEN "connect" ELSE "send"
<1> DEFINE x == [pc |-> IF client[k].sock = None THEN "connect" ELSE "send",
                 n |-> client[k].n + 1, sock |-> client[k].sock,
                 req |-> Request(k, client[k].n + 1, r), buf |-> <<>>,
                 res |-> None, err |-> "Success"]
<1>1. client[k] \in ClientRec /\ <<>> \in Seq(Tokens)
  BY ClientType, EmptyLines
<1>2. client[k].n \in Nat /\ client[k].sock \in Slots \union {None}
  BY <1>1 DEF ClientRec
<1>3. Request(k, client[k].n + 1, r) \in ReqMsgs
      /\ Request(k, client[k].n + 1, r).id = <<k, client[k].n + 1>>
  BY <1>2, RequestType
<1>4. x \in ClientRec
  BY <1>1, <1>2, <1>3 DEF ClientRec
<1>5. client' = [client EXCEPT ![k] = x] /\ At(k, "idle") /\ UNCHANGED conn
  BY DEF Call
<1>6. client' \in [Clients -> ClientRec] /\ (\A l \in Clients \ {k} : client'[l] = client[l])
      /\ client'[k] = x
  <2> HIDE DEF x
  <2> QED
    BY <1>4, <1>5 DEF Types
<1> QED
  BY <1>3, <1>5, <1>6 DEF OnlyClient, At

LEMMA GotoDoes ==
    ASSUME Types, NEW k \in Clients, NEW pc \in {"head", "body", "read"}, Goto(k, pc)
    PROVE  /\ SameCall(k) /\ client'[k].pc = pc
           /\ client'[k].sock = client[k].sock /\ client'[k].buf = client[k].buf
BY DEF Types, Goto, ClientRec, OnlyClient, SameCall

LEMMA FailDoes ==
    ASSUME Types, NEW k \in Clients, NEW err \in {"Connection", "Write", "Read"}, Fail(k, err)
    PROVE  /\ SameCall(k) /\ client'[k].pc = "return" /\ client'[k].err # "Success"
           /\ client'[k].sock = client[k].sock /\ client'[k].buf = client[k].buf
BY ClientsType, ZenonT(60) DEF Fail, ClientRec, OnlyClient, SameCall

LEMMA SendDoes ==
    ASSUME Shape, NEW k \in Clients, send_(k)
    PROVE  /\ SameCall(k) /\ client[k].pc = "send" /\ client'[k].buf = client[k].buf
           /\ \/ client'[k].pc = "head" /\ client'[k].sock = client[k].sock /\ UNCHANGED conn
              \/ /\ client'[k].pc = "connect" /\ client'[k].sock = None
                 /\ ConnOK' /\ ClosedEnd(client[k].sock, "client")
<1>1. Types /\ client[k].pc = "send" /\ client[k].sock \in Conns
  BY ClientType DEF Shape, ClientOK, send_, At
<1>2. CASE Goto(k, "head") /\ UNCHANGED conn
  BY <1>1, <1>2, GotoDoes
<1>3. CASE /\ client' = [client EXCEPT ![k].pc = "connect", ![k].sock = None]
           /\ Close(client[k].sock, "client")
  <2>1. ConnOK' /\ ClosedEnd(client[k].sock, "client")
    BY <1>1, <1>3, CloseDoes DEF Types, Ends
  <2>2. SameCall(k) /\ client'[k].buf = client[k].buf /\ client'[k].pc = "connect"
        /\ client'[k].sock = None
    BY <1>1, <1>3, ClientsType, ZenonT(60) DEF ClientRec, OnlyClient, SameCall
  <2> QED
    BY <1>1, <2>1, <2>2
<1> QED
  BY <1>2, <1>3 DEF send_

LEMMA ConnectSocketDoes ==
    ASSUME Shape, NEW k \in Clients, create_and_connect_socket(k, TRUE)
    PROVE  /\ SameCall(k) /\ client[k].pc = "connect" /\ client'[k].buf = client[k].buf
           /\ \/ \E c \in Slots :
                    /\ client'[k].pc = "head" /\ client'[k].sock = c
                    /\ Connect(c, Slots)
              \/ /\ client'[k].pc = "return" /\ client'[k].err # "Success"
                 /\ client'[k].sock = client[k].sock /\ UNCHANGED conn
<1>1. Types /\ client[k].pc = "connect"
  BY DEF Shape, create_and_connect_socket, At
<1>2. CASE Fail(k, "Connection") /\ UNCHANGED conn
  BY <1>1, <1>2, FailDoes
<1>3. ASSUME NEW c \in Slots, Connect(c, Slots),
             client' = [client EXCEPT ![k].pc = "head", ![k].sock = c]
      PROVE  /\ SameCall(k) /\ client'[k].buf = client[k].buf
             /\ client'[k].pc = "head" /\ client'[k].sock = c
  BY <1>1, <1>3, ClientsType, ZenonT(60) DEF ClientRec, OnlyClient, SameCall
<1> QED
  BY <1>1, <1>2, <1>3 DEF create_and_connect_socket

LEMMA WriteHeadDoes ==
    ASSUME Shape, NEW k \in Clients, write_head(k)
    PROVE  /\ SameCall(k) /\ client[k].pc = "head" /\ client'[k].buf = client[k].buf
           /\ client'[k].sock = client[k].sock
           /\ \/ client'[k].pc \in {"body", "read"}
              \/ client'[k].pc = "return" /\ client'[k].err # "Success"
           /\ ConnOK' /\ Wrote(client[k].sock, "client", HeadOf(client[k].req))
<1>1. Types /\ client[k].pc = "head" /\ client[k].sock \in Conns
      /\ client[k].req \in ReqMsgs
  BY ClientType DEF Shape, ClientOK, write_head, At
<1>2. HeadOf(client[k].req) \in Seq(Tokens)
  BY <1>1, HeadLines DEF Msgs
<1>3. PICK ok \in BOOLEAN :
        /\ Write(client[k].sock, "client", HeadOf(client[k].req), ok)
        /\ IF ok THEN Goto(k, IF client[k].req.len > 0 THEN "body" ELSE "read")
           ELSE Fail(k, "Write")
  BY DEF write_head
<1>4. ConnOK' /\ Wrote(client[k].sock, "client", HeadOf(client[k].req))
  BY <1>1, <1>2, <1>3, WriteDoes DEF Types, Ends
<1>5. CASE ok
  BY <1>1, <1>3, <1>4, <1>5, GotoDoes
<1>6. CASE ~ok
  BY <1>1, <1>3, <1>4, <1>6, FailDoes
<1> QED
  BY <1>5, <1>6

LEMMA WriteBodyDoes ==
    ASSUME Shape, NEW k \in Clients, write_body(k)
    PROVE  /\ SameCall(k) /\ client[k].pc = "body" /\ client'[k].buf = client[k].buf
           /\ client'[k].sock = client[k].sock
           /\ \/ client'[k].pc = "read"
              \/ client'[k].pc = "return" /\ client'[k].err # "Success"
           /\ ConnOK' /\ Wrote(client[k].sock, "client", BodyOf(client[k].req))
<1>1. Types /\ client[k].pc = "body" /\ client[k].sock \in Conns
      /\ client[k].req \in ReqMsgs
  BY ClientType DEF Shape, ClientOK, write_body, At
<1>2. BodyOf(client[k].req) \in Seq(Tokens)
  BY <1>1, BodyLines DEF Msgs
<1>3. PICK ok \in BOOLEAN :
        /\ Write(client[k].sock, "client", BodyOf(client[k].req), ok)
        /\ IF ok THEN Goto(k, "read") ELSE Fail(k, "Write")
  BY DEF write_body
<1>4. ConnOK' /\ Wrote(client[k].sock, "client", BodyOf(client[k].req))
  BY <1>1, <1>2, <1>3, WriteDoes DEF Types, Ends
<1>5. CASE ok
  BY <1>1, <1>3, <1>4, <1>5, GotoDoes
<1>6. CASE ~ok
  BY <1>1, <1>3, <1>4, <1>6, FailDoes
<1> QED
  BY <1>5, <1>6

LEMMA ReadResponseDoes ==
    ASSUME Shape, NEW k \in Clients, read_response(k)
    PROVE  LET c == client[k].sock IN
           /\ SameCall(k) /\ client[k].pc = "read" /\ client'[k].sock = c /\ c \in Slots
           /\ client'[k].pc \in {"read", "return"}
           /\ \E n \in 1 .. Len(conn[c].to["client"]) :
                 /\ ConnOK' /\ Took(c, "client", n)
                 /\ client'[k].buf = client[k].buf \o Received(c, "client", n)
           /\ client'[k].pc = "return" /\ client'[k].err = "Success" =>
                 /\ 1 \in DOMAIN client'[k].buf /\ IsLine(client'[k].buf, 1)
                 /\ client'[k].res = client'[k].buf[1].m
<1> DEFINE c == client[k].sock
<1>1. Types /\ client[k].pc = "read" /\ c \in Slots /\ c \in Conns /\ client[k].buf \in Seq(Tokens)
  BY ClientType DEF Shape, ClientOK, read_response, At
<1>2. PICK n \in Arrived(c, "client") :
        LET buf == client[k].buf \o Received(c, "client", n)
            state == Progress(buf) IN
        /\ Recv(c, "client", n)
        /\ client' = [client EXCEPT ![k].buf = buf,
               ![k].pc  = IF state \in {"complete", "malformed"} THEN "return" ELSE "read",
               ![k].err = IF state = "malformed" THEN "Read" ELSE "Success",
               ![k].res = IF state = "complete" THEN buf[1].m ELSE None]
  BY DEF read_response
<1>3. ConnOK' /\ Took(c, "client", n) /\ n \in 1 .. Len(conn[c].to["client"])
  BY <1>1, <1>2, RecvDoes DEF Types, Ends, Took
<1> DEFINE buf == client[k].buf \o Received(c, "client", n)
           state == Progress(buf)
<1>4. buf \in Seq(Tokens)
  <2>1. conn[c].to["client"] \in Seq(Tokens)
    BY <1>1, ConnFields DEF Types, Ends
  <2>2. n \in 0 .. Len(conn[c].to["client"])
    BY <1>3, <2>1, TokenAt
  <2>3. Received(c, "client", n) \in Seq(Tokens)
    BY <2>1, <2>2, CutLines DEF Received
  <2> QED
    BY <1>1, <2>3, JoinedLines
<1>5. state = "complete" => 1 \in DOMAIN buf /\ IsLine(buf, 1) /\ buf[1].m \in Msgs
  BY <1>4, ProgressIs
<1> DEFINE p == IF state \in {"complete", "malformed"} THEN "return" ELSE "read"
           e == IF state = "malformed" THEN "Read" ELSE "Success"
           r == IF state = "complete" THEN buf[1].m ELSE None
<1>6. client' = [client EXCEPT ![k].buf = buf, ![k].pc = p, ![k].err = e, ![k].res = r]
  BY <1>2
<1> HIDE DEF buf, state
<1>7. p \in {"read", "return"} /\ e \in {"Success", "Read"} /\ r \in Msgs \union {None}
      /\ (p = "return" /\ e = "Success" => state = "complete" /\ r = buf[1].m)
  BY <1>5
<1> HIDE DEF p, e, r
<1>8. /\ OnlyClient(k)
      /\ client'[k].n = client[k].n /\ client'[k].req = client[k].req
      /\ client'[k].sock = c /\ client'[k].buf = buf
      /\ client'[k].pc = p /\ client'[k].err = e /\ client'[k].res = r
  BY <1>1, <1>4, <1>6, <1>7, ClientsType, ZenonT(60) DEF ClientRec, OnlyClient
<1>9. buf = client[k].buf \o Received(c, "client", n)
  BY DEF buf
<1> QED
  BY <1>1, <1>3, <1>5, <1>7, <1>8, <1>9 DEF SameCall

LEMMA ReturnDoes ==
    ASSUME Shape, NEW k \in Clients, return(k)
    PROVE  /\ SameCall(k) /\ client[k].pc = "return" /\ client'[k].pc = "idle"
           /\ client'[k].buf = <<>>
           /\ client'[k].res = client[k].res /\ client'[k].err = client[k].err
           /\ \/ /\ client[k].sock # None /\ client'[k].sock = None
                 /\ ConnOK' /\ ClosedEnd(client[k].sock, "client")
              \/ /\ client'[k].sock = client[k].sock /\ UNCHANGED conn
                 /\ client[k].sock # None => client[k].err = "Success"
<1>1. /\ Types /\ client[k].pc = "return" /\ <<>> \in Seq(Tokens)
      /\ client[k].sock # None => client[k].sock \in Conns
  BY ClientType, EmptyLines DEF Shape, return, At
<1>2. CASE client[k].sock # None /\ Closes(k)
  <2>1. ConnOK' /\ ClosedEnd(client[k].sock, "client")
    BY <1>1, <1>2, CloseDoes DEF return, Types, Ends
  <2>2. client' = [client EXCEPT ![k].pc = "idle", ![k].sock = None, ![k].buf = <<>>]
    BY <1>2 DEF return
  <2>3. /\ SameCall(k) /\ client'[k].pc = "idle" /\ client'[k].buf = <<>>
        /\ client'[k].sock = None
        /\ client'[k].res = client[k].res /\ client'[k].err = client[k].err
    BY <1>1, <2>2, ClientsType, ZenonT(60) DEF ClientRec, OnlyClient, SameCall
  <2> QED
    BY <1>1, <1>2, <2>1, <2>3
<1>3. CASE ~(client[k].sock # None /\ Closes(k))
  <2>1. client' = [client EXCEPT ![k].pc = "idle", ![k].buf = <<>>] /\ UNCHANGED conn
    BY <1>3 DEF return
  <2>2. /\ SameCall(k) /\ client'[k].pc = "idle" /\ client'[k].buf = <<>>
        /\ client'[k].sock = client[k].sock
        /\ client'[k].res = client[k].res /\ client'[k].err = client[k].err
    BY <1>1, <2>1 DEF Types, ClientRec, OnlyClient, SameCall
  <2>3. client[k].sock # None => client[k].err = "Success"
    BY <1>3 DEF Closes
  <2> QED
    BY <1>1, <2>1, <2>2, <2>3
<1> QED
  BY <1>2, <1>3

-----------------------------------------------------------------------------
(* What each step of a session does.                                       *)
OnlySession(c) ==
    /\ session' \in [Slots -> SessionRec]
    /\ \A d \in Slots \ {c} : session'[d] = session[d]

SameRequest(c) ==
    OnlySession(c) /\ session'[c].buf = session[c].buf /\ session'[c].req = session[c].req

WholeOf(m) == HeadOf(m) \o BodyOf(m)

Served(m) ==
    \E n \in Nodes : \E i \in DOMAIN done[n] : done[n][i] = [id |-> m.id, kind |-> m.kind]

LEMMA SessionsType ==
    ASSUME Types PROVE session \in [Slots -> SessionRec]
BY DEF Types

LEMMA SessionType ==
    ASSUME Types, NEW c \in Slots
    PROVE  /\ session[c] \in SessionRec /\ c \in Conns
           /\ session[c].buf \in Seq(Tokens) /\ session[c].rbuf \in Seq(Tokens)
           /\ session[c].todo \in Seq(Nodes)
           /\ session[c].sock # None =>
                 session[c].sock \in BackendSlots /\ session[c].sock \in Conns
BY HttpClientAssumption, WireAssumption DEF Types, SessionRec

LEMMA MsgRec ==
    ASSUME NEW m \in Msgs
    PROVE  m.id \in Ids /\ m.len \in Nat /\ m.size \in Nat
BY MsgTokens

(* A session that works has its request, for None is not a request.        *)
LEMMA WorkingRequest ==
    ASSUME Shape, NEW c \in Slots, Working(c)
    PROVE  /\ FirstIs(session[c].buf, session[c].req)
           /\ session[c].req \in ReqMsgs /\ session[c].req \in Msgs
           /\ session[c].req \in Lines(session[c].buf)
           /\ session[c].req \in UpLines(c) /\ session[c].req.id \in UpIds(c)
<1>1. FirstIs(session[c].buf, session[c].req) /\ UpLines(c) \subseteq ReqMsgs
  BY DEF Shape, SessionOK
<1>2. session[c].req \in Lines(session[c].buf)
  BY <1>1, LineIn DEF FirstIs
<1>3. session[c].req \in UpLines(c)
  BY <1>2 DEF UpLines, Working, WorkingPcs, LinkedPcs
<1> QED
  BY <1>1, <1>2, <1>3 DEF UpIds, Msgs

LEMMA InnerIs ==
    ASSUME NEW s, NEW buf \in Seq(Tokens), NEW x, x = Inner(s, buf)
    PROVE  /\ x \in SessionRec
           /\ x.buf = buf /\ x.todo = <<>> /\ x.sock = None /\ x.rbuf = <<>> /\ x.out = None
           /\ x.pc \in {"route", "close", "recv"}
           /\ x.pc = "route" => FirstIs(buf, x.req)
<1> DEFINE state == parseHTTPRequest(buf)
           req == IF state = "COMPLETE" THEN buf[1].m ELSE None
           pc == CASE state = "COMPLETE" -> "route"
                   [] state = "ERROR" -> "close"
                   [] OTHER -> "recv"
<1>1. state \in {"COMPLETE", "ERROR", "INCOMPLETE"} /\ (state = "COMPLETE" => Progress(buf) = "complete")
  BY DEF parseHTTPRequest
<1>2. state = "COMPLETE" => buf[1].m \in Msgs /\ FirstIs(buf, buf[1].m)
  BY <1>1, ProgressIs DEF FirstIs
<1>3. x = [NoSession EXCEPT !.buf = buf, !.req = req, !.pc = pc]
  BY DEF Inner
<1> HIDE DEF state
<1>4. /\ req \in Msgs \union {None} /\ pc \in {"route", "close", "recv"}
      /\ pc = "route" => FirstIs(buf, req)
  BY <1>1, <1>2
<1> HIDE DEF req, pc
<1>5. x = [pc |-> pc, buf |-> buf, req |-> req, todo |-> <<>>, sock |-> None,
           rbuf |-> <<>>, out |-> None]
  BY <1>3 DEF NoSession
<1>6. <<>> \in Seq(Tokens) /\ <<>> \in Seq(Nodes)
  BY EmptyLines, EmptySeq
<1> QED
  BY <1>4, <1>5, <1>6 DEF SessionRec, WorkingPcs, LinkedPcs

LEMMA SessionPutDoes ==
    ASSUME Types, NEW c \in Slots, NEW x \in SessionRec, session' = [session EXCEPT ![c] = x]
    PROVE  OnlySession(c) /\ session'[c] = x
BY DEF Types, OnlySession

LEMMA SessionToDoes ==
    ASSUME Types, NEW c \in Slots, NEW pc \in WorkingPcs \union {"close", "recv"},
           session' = [session EXCEPT ![c].pc = pc]
    PROVE  /\ SameRequest(c) /\ session'[c].pc = pc
           /\ session'[c].todo = session[c].todo /\ session'[c].sock = session[c].sock
           /\ session'[c].rbuf = session[c].rbuf /\ session'[c].out = session[c].out
BY DEF Types, SessionRec, OnlySession, SameRequest

LEMMA AcceptClientsDoes ==
    ASSUME Shape, NEW c \in Slots, acceptClients(c)
    PROVE  /\ SameRequest(c) /\ session[c].pc = "none" /\ session'[c].pc = "recv"
           /\ session'[c].todo = session[c].todo /\ session'[c].sock = session[c].sock
           /\ Accept(c)
BY SessionToDoes DEF Shape, acceptClients, SessionAt

LEMMA RecvClientDoes ==
    ASSUME Shape, NEW c \in Slots, recv_client(c)
    PROVE  /\ session[c].pc = "recv" /\ OnlySession(c)
           /\ \E n \in 1 .. Len(conn[c].to["server"]) :
                 /\ ConnOK' /\ Took(c, "server", n)
                 /\ session[c].buf \o Received(c, "server", n) \in Seq(Tokens)
                 /\ session'[c] = Inner(session[c], session[c].buf \o Received(c, "server", n))
<1>1. Types /\ session[c].pc = "recv" /\ c \in Conns /\ session[c].buf \in Seq(Tokens)
  BY SessionType DEF Shape, recv_client, SessionAt
<1>2. PICK n \in Arrived(c, "server") :
        /\ Recv(c, "server", n)
        /\ session' = [session EXCEPT ![c] = Inner(@, @.buf \o Received(c, "server", n))]
  BY DEF recv_client
<1>3. ConnOK' /\ Took(c, "server", n) /\ n \in 1 .. Len(conn[c].to["server"])
  BY <1>1, <1>2, RecvDoes DEF Types, Ends, Took
<1> DEFINE buf == session[c].buf \o Received(c, "server", n)
           x == Inner(session[c], buf)
<1>4. buf \in Seq(Tokens)
  <2>1. conn[c].to["server"] \in Seq(Tokens)
    BY <1>1, ConnFields DEF Types, Ends
  <2>2. n \in 0 .. Len(conn[c].to["server"])
    BY <1>3, <2>1, TokenAt
  <2>3. Received(c, "server", n) \in Seq(Tokens)
    BY <2>1, <2>2, CutLines DEF Received
  <2> QED
    BY <1>1, <2>3, JoinedLines
<1>5. session' = [session EXCEPT ![c] = x]
  BY <1>1, <1>2 DEF Types
<1>6. x \in SessionRec
  BY <1>4, InnerIs
<1>7. OnlySession(c) /\ session'[c] = x
  <2> HIDE DEF x
  <2> QED
    BY <1>1, <1>5, <1>6, SessionPutDoes
<1> QED
  BY <1>1, <1>3, <1>4, <1>7

LEMMA ClientLeftDoes ==
    ASSUME Shape, NEW c \in Slots, client_left(c)
    PROVE  /\ SameRequest(c) /\ session[c].pc = "recv" /\ session'[c].pc = "close"
           /\ session'[c].todo = session[c].todo /\ session'[c].sock = session[c].sock
           /\ UNCHANGED conn
BY SessionToDoes DEF Shape, client_left, SessionAt, SessionTo

LEMMA ReplyDoes ==
    ASSUME Types, NEW c \in Slots, NEW m \in Msgs, Reply(c, m)
    PROVE  ConnOK' /\ Wrote(c, "server", WholeOf(m))
<1>1. c \in Conns /\ WholeOf(m) \in Seq(Tokens) /\ "server" \in Ends
  BY SessionType, WholeLines DEF WholeOf, Ends
<1> QED
  BY <1>1, WriteDoes DEF Types, Reply, WholeOf

LEMMA UnavailableIs ==
    ASSUME NEW m \in Msgs
    PROVE  /\ ServiceUnavailable(m) \in Msgs
           /\ ServiceUnavailable(m).id = m.id /\ ServiceUnavailable(m).kind = 503
BY MsgRec DEF ServiceUnavailable, Msgs, AnsMsgs

LEMMA GetCandidatesDoes ==
    ASSUME Shape, NEW c \in Slots, get_candidates(c)
    PROVE  /\ SameRequest(c) /\ session[c].pc = "route"
           /\ session'[c].sock = session[c].sock /\ session'[c].out = session[c].out
           /\ \/ /\ session'[c].pc = "close" /\ session'[c].todo = session[c].todo
                 /\ \E m \in Msgs : /\ m.id = session[c].req.id /\ m.kind = 503
                                    /\ ConnOK' /\ Wrote(c, "server", WholeOf(m))
              \/ /\ session'[c].pc = "connect" /\ UNCHANGED conn
                 /\ NoRepeat(session'[c].todo)
<1>1. Types /\ session[c].pc = "route"
  BY DEF Shape, get_candidates, SessionAt
<1>2. session[c].req \in ReqMsgs /\ session[c].req \in Msgs
  BY <1>1, WorkingRequest DEF Working, WorkingPcs
<1>3. session[c].req.ask \in Asks
  BY <1>2 DEF ReqMsgs
<1>4. PICK list \in CandidateLists[getKey(session[c].req.ask)] :
          \/ /\ Reply(c, ServiceUnavailable(session[c].req))
             /\ SessionTo(c, "close")
          \/ /\ session' = [session EXCEPT ![c].pc = "connect", ![c].todo = list]
             /\ UNCHANGED conn
  BY DEF get_candidates
<1>5. list \in Seq(Nodes) /\ NoRepeat(list)
  BY <1>3, WireAssumption DEF NoRepeat
<1>6. CASE Reply(c, ServiceUnavailable(session[c].req)) /\ SessionTo(c, "close")
  <2>1. ConnOK' /\ Wrote(c, "server", WholeOf(ServiceUnavailable(session[c].req)))
    BY <1>1, <1>2, <1>6, ReplyDoes, UnavailableIs
  <2>2. /\ SameRequest(c) /\ session'[c].pc = "close"
        /\ session'[c].todo = session[c].todo /\ session'[c].sock = session[c].sock
        /\ session'[c].out = session[c].out
    BY <1>1, <1>6, SessionToDoes DEF SessionTo
  <2> QED
    BY <1>1, <1>2, <2>1, <2>2, UnavailableIs
<1>7. CASE /\ session' = [session EXCEPT ![c].pc = "connect", ![c].todo = list]
           /\ UNCHANGED conn
  <2>1. /\ SameRequest(c) /\ session'[c].pc = "connect" /\ session'[c].todo = list
        /\ session'[c].sock = session[c].sock /\ session'[c].out = session[c].out
    BY <1>1, <1>5, <1>7, SessionsType, ZenonT(60) DEF SessionRec, WorkingPcs, OnlySession, SameRequest
  <2> QED
    BY <1>1, <1>5, <1>7, <2>1
<1> QED
  BY <1>4, <1>6, <1>7

LEMMA TailOf ==
    ASSUME NEW s \in Seq(Nodes), s # <<>>, NoRepeat(s)
    PROVE  /\ Tail(s) \in Seq(Nodes) /\ NoRepeat(Tail(s)) /\ Head(s) \in Nodes
           /\ \A i \in DOMAIN Tail(s) : Tail(s)[i] # Head(s)
           /\ \A i \in DOMAIN Tail(s) : \E j \in DOMAIN s : s[j] = Tail(s)[i]
           /\ \E j \in DOMAIN s : s[j] = Head(s)
<1>1. /\ Head(s) \in Nodes /\ Tail(s) \in Seq(Nodes) /\ Len(Tail(s)) = Len(s) - 1
      /\ \A i \in 1 .. Len(Tail(s)) : Tail(s)[i] = s[i + 1]
  BY HeadTailProperties
<1>2. /\ DOMAIN s = 1 .. Len(s) /\ Len(s) \in Nat /\ Len(s) # 0
      /\ DOMAIN Tail(s) = 1 .. Len(Tail(s)) /\ Head(s) = s[1]
  BY <1>1, LenProperties, EmptySeq
<1>3. \A i \in DOMAIN Tail(s) : i + 1 \in DOMAIN s /\ i + 1 # 1 /\ Tail(s)[i] = s[i + 1]
  BY <1>1, <1>2
<1>4. 1 \in DOMAIN s
  BY <1>2
<1>5. NoRepeat(Tail(s))
  <2>1. SUFFICES ASSUME NEW i \in DOMAIN Tail(s), NEW j \in DOMAIN Tail(s), Tail(s)[i] = Tail(s)[j]
                 PROVE  i = j
    BY DEF NoRepeat
  <2>2. i + 1 = j + 1
    BY <1>3, <2>1 DEF NoRepeat
  <2> QED
    BY <1>1, <1>2, <2>2
<1> QED
  BY <1>1, <1>2, <1>3, <1>4, <1>5 DEF NoRepeat

LEMMA ConnectBackendDoes ==
    ASSUME Shape, NEW c \in Slots, connectToBackend(c)
    PROVE  /\ SameRequest(c) /\ session[c].pc = "connect" /\ session'[c].out = session[c].out
           /\ session[c].todo # <<>> /\ session[c].sock = None
           /\ \/ \E b \in BackendSlots :
                    /\ Connect(b, BackendSlots)
                    /\ backend' = [backend EXCEPT ![b] =
                           [NoBackend EXCEPT !.node = Head(session[c].todo)]]
                    /\ session'[c].pc = "send" /\ session'[c].sock = b
                    /\ session'[c].todo = session[c].todo
              \/ /\ session'[c].pc = "connect" /\ session'[c].todo = Tail(session[c].todo)
                 /\ session'[c].sock = session[c].sock
                 /\ UNCHANGED <<conn, backend>>
<1>1. Types /\ session[c].pc = "connect" /\ session[c].todo # <<>>
  BY DEF Shape, connectToBackend, SessionAt
<1>2. session[c].sock = None
  BY <1>1 DEF Shape, SessionOK, Linked, LinkedPcs
<1>3. ASSUME NEW b \in BackendSlots, Connect(b, BackendSlots),
             session' = [session EXCEPT ![c].pc = "send", ![c].sock = b]
      PROVE  /\ SameRequest(c) /\ session'[c].out = session[c].out
             /\ session'[c].pc = "send" /\ session'[c].sock = b
             /\ session'[c].todo = session[c].todo
  BY <1>1, <1>3, SessionsType, ZenonT(60) DEF SessionRec, WorkingPcs, LinkedPcs, OnlySession, SameRequest
<1>4. ASSUME session' = [session EXCEPT ![c].todo = Tail(session[c].todo)]
      PROVE  /\ SameRequest(c) /\ session'[c].out = session[c].out
             /\ session'[c].pc = session[c].pc /\ session'[c].sock = session[c].sock
             /\ session'[c].todo = Tail(session[c].todo)
  <2>1. Tail(session[c].todo) \in Seq(Nodes)
    BY <1>1, SessionType, TailOf DEF Shape, SessionOK
  <2> QED
    BY <1>1, <1>4, <2>1 DEF Types, SessionRec, OnlySession, SameRequest
<1> QED
  BY <1>1, <1>2, <1>3, <1>4 DEF connectToBackend

LEMMA PayloadIs ==
    ASSUME NEW m \in ReqMsgs
    PROVE  Payload(m) \in ReqMsgs /\ Payload(m) \in Msgs /\ Payload(m).id = m.id
BY DEF Payload, ReqMsgs, Msgs

LEMMA SendRequestDoes ==
    ASSUME Shape, NEW c \in Slots, send_request(c)
    PROVE  /\ SameRequest(c) /\ session[c].pc = "send" /\ session'[c].pc = "wait"
           /\ session'[c].rbuf = <<>> /\ session'[c].out = session[c].out
           /\ session'[c].todo = session[c].todo /\ session'[c].sock = session[c].sock
           /\ \E m \in Msgs : /\ m.id = session[c].req.id
                              /\ ConnOK' /\ Wrote(session[c].sock, "client", WholeOf(m))
<1>1. Types /\ session[c].pc = "send" /\ <<>> \in Seq(Tokens)
  BY EmptyLines DEF Shape, send_request, SessionAt
<1>2. session[c].req \in ReqMsgs /\ session[c].sock \in Conns
  BY <1>1, WorkingRequest, SessionType
     DEF Shape, SessionOK, Linked, LinkedPcs, Working, WorkingPcs
<1> DEFINE m == Payload(session[c].req)
<1>3. m \in Msgs /\ m.id = session[c].req.id /\ WholeOf(m) \in Seq(Tokens)
  BY <1>2, PayloadIs, WholeLines DEF WholeOf
<1>4. /\ \E ok \in BOOLEAN : Write(session[c].sock, "client", WholeOf(m), ok)
      /\ session' = [session EXCEPT ![c].pc = "wait", ![c].rbuf = <<>>]
  BY DEF send_request, WholeOf
<1> HIDE DEF m
<1>5. ConnOK' /\ Wrote(session[c].sock, "client", WholeOf(m))
  BY <1>1, <1>2, <1>3, <1>4, WriteDoes DEF Types, Ends
<1>6. /\ SameRequest(c) /\ session'[c].pc = "wait"
      /\ session'[c].rbuf = <<>> /\ session'[c].out = session[c].out
      /\ session'[c].todo = session[c].todo /\ session'[c].sock = session[c].sock
  BY <1>1, <1>4 DEF Types, SessionRec, WorkingPcs, LinkedPcs, OnlySession, SameRequest
<1> QED
  BY <1>1, <1>3, <1>5, <1>6

LEMMA RecvBackendDoes ==
    ASSUME Shape, NEW c \in Slots, recv_backend(c)
    PROVE  LET b == session[c].sock IN
           /\ SameRequest(c) /\ session[c].pc = "wait" /\ session'[c].pc \in {"wait", "answered"}
           /\ session'[c].out = session[c].out
           /\ session'[c].todo = session[c].todo /\ session'[c].sock = b
           /\ session'[c].pc = "answered" =>
                 1 \in DOMAIN session'[c].rbuf /\ IsLine(session'[c].rbuf, 1)
           /\ \E n \in 1 .. Len(conn[b].to["client"]) :
                 /\ ConnOK' /\ Took(b, "client", n)
                 /\ session'[c].rbuf = session[c].rbuf \o Received(b, "client", n)
<1> DEFINE b == session[c].sock
<1>1. Types /\ session[c].pc = "wait" /\ session[c].rbuf \in Seq(Tokens)
  BY SessionType DEF Shape, recv_backend, SessionAt
<1>2. b \in Conns
  BY <1>1, SessionType DEF Shape, SessionOK, Linked, LinkedPcs
<1>3. PICK n \in Arrived(b, "client") :
        LET buf == session[c].rbuf \o Received(b, "client", n) IN
        /\ Recv(b, "client", n)
        /\ session' = [session EXCEPT ![c].rbuf = buf,
               ![c].pc = IF parseHTTPResponse(buf) = "COMPLETE" THEN "answered" ELSE "wait"]
  BY DEF recv_backend
<1>4. ConnOK' /\ Took(b, "client", n) /\ n \in 1 .. Len(conn[b].to["client"])
  BY <1>1, <1>2, <1>3, RecvDoes DEF Types, Ends, Took
<1> DEFINE buf == session[c].rbuf \o Received(b, "client", n)
           pc == IF parseHTTPResponse(buf) = "COMPLETE" THEN "answered" ELSE "wait"
<1>5. buf \in Seq(Tokens)
  <2>1. conn[b].to["client"] \in Seq(Tokens)
    BY <1>1, <1>2, ConnFields DEF Types, Ends
  <2>2. n \in 0 .. Len(conn[b].to["client"])
    BY <1>4, <2>1, TokenAt
  <2>3. Received(b, "client", n) \in Seq(Tokens)
    BY <2>1, <2>2, CutLines DEF Received
  <2> QED
    BY <1>1, <2>3, JoinedLines
<1>6. pc \in {"wait", "answered"} /\ (pc = "answered" => 1 \in DOMAIN buf /\ IsLine(buf, 1))
  BY <1>5, ProgressIs DEF parseHTTPResponse
<1>7. session' = [session EXCEPT ![c].rbuf = buf, ![c].pc = pc]
  BY <1>3
<1>8. buf = session[c].rbuf \o Received(b, "client", n)
  OBVIOUS
<1> HIDE DEF buf, pc
<1>9. /\ SameRequest(c) /\ session'[c].pc = pc /\ session'[c].out = session[c].out
      /\ session'[c].todo = session[c].todo /\ session'[c].sock = b
      /\ session'[c].rbuf = buf
  BY <1>1, <1>5, <1>6, <1>7 DEF Types, SessionRec, WorkingPcs, LinkedPcs, OnlySession, SameRequest
<1> QED
  BY <1>1, <1>4, <1>6, <1>8, <1>9

LEMMA BackendLeftDoes ==
    ASSUME Shape, NEW c \in Slots, backend_left(c)
    PROVE  LET b == session[c].sock IN
           /\ SameRequest(c) /\ session[c].pc = "wait" /\ session'[c].pc = "failed"
           /\ session'[c].out = session[c].out
           /\ session'[c].todo = session[c].todo /\ session'[c].sock = b
           /\ UNCHANGED conn /\ conn[b].at["server"] = "closed"
<1>1. Types /\ session[c].pc = "wait" /\ UNCHANGED conn /\ SessionTo(c, "failed")
  BY DEF Shape, backend_left, SessionAt
<1>2. conn[session[c].sock].at["server"] = "closed"
  BY DEF backend_left, AtEof, Gone, Other
<1> QED
  BY <1>1, <1>2, SessionToDoes DEF SessionTo, WorkingPcs, LinkedPcs

LEMMA TakeResponseDoes ==
    ASSUME Shape, NEW c \in Slots, take_response(c)
    PROVE  /\ SameRequest(c) /\ session[c].pc = "answered"
           /\ session'[c].pc \in {"connect", "reply"}
           /\ session'[c].sock = None /\ session'[c].todo = Tail(session[c].todo)
           /\ session'[c].out \in {session[c].out, session[c].rbuf[1].m}
           /\ session[c].out = None => session'[c].out = session[c].rbuf[1].m
           /\ ConnOK' /\ ClosedEnd(session[c].sock, "client")
<1> DEFINE s == session[c]
           m == s.rbuf[1].m
           out == IF s.out = None \/ m.kind \in {200, 201} THEN m ELSE s.out
           pc == IF IsWrite(s.req) THEN "connect" ELSE "reply"
<1>1. Types /\ s.pc = "answered"
  BY DEF Shape, take_response, SessionAt
<1>2. s.sock \in Conns /\ Tail(s.todo) \in Seq(Nodes) /\ s \in SessionRec
  BY <1>1, SessionType, TailOf DEF Shape, SessionOK, Linked, LinkedPcs
<1>3. m \in Msgs
  BY <1>1, SessionType, TokenAt DEF Shape, SessionOK
<1>4. /\ Close(s.sock, "client")
      /\ session' = [session EXCEPT ![c].sock = None, ![c].todo = Tail(@),
             ![c].out = out, ![c].pc = pc]
  BY DEF take_response
<1>5. ConnOK' /\ ClosedEnd(s.sock, "client")
  BY <1>1, <1>2, <1>4, CloseDoes DEF Types, Ends
<1>6. out \in {s.out, m} /\ (s.out = None => out = m) /\ pc \in {"connect", "reply"}
  OBVIOUS
<1>7. out \in Msgs \union {None}
  BY <1>2, <1>3, <1>6 DEF SessionRec
<1> HIDE DEF out, pc
<1>8. /\ SameRequest(c) /\ session'[c].pc = pc /\ session'[c].out = out
      /\ session'[c].sock = None /\ session'[c].todo = Tail(session[c].todo)
  BY <1>1, <1>2, <1>4, <1>6, <1>7 DEF Types, SessionRec, WorkingPcs, LinkedPcs, OnlySession, SameRequest
<1> QED
  BY <1>1, <1>5, <1>6, <1>8

LEMMA NextCandidateDoes ==
    ASSUME Shape, NEW c \in Slots, next_candidate(c)
    PROVE  /\ SameRequest(c) /\ session[c].pc = "failed" /\ session'[c].pc = "connect"
           /\ session'[c].sock = None /\ session'[c].todo = Tail(session[c].todo)
           /\ session'[c].out = session[c].out
           /\ ConnOK' /\ ClosedEnd(session[c].sock, "client")
<1>1. Types /\ session[c].pc = "failed"
  BY DEF Shape, next_candidate, SessionAt
<1>2. session[c].sock \in Conns /\ Tail(session[c].todo) \in Seq(Nodes)
  BY <1>1, SessionType, TailOf DEF Shape, SessionOK, Linked, LinkedPcs
<1>3. /\ Close(session[c].sock, "client")
      /\ session' = [session EXCEPT ![c].pc = "connect", ![c].sock = None,
             ![c].todo = Tail(session[c].todo)]
  BY <1>1 DEF next_candidate, Types
<1>4. ConnOK' /\ ClosedEnd(session[c].sock, "client")
  BY <1>1, <1>2, <1>3, CloseDoes DEF Types, Ends
<1>5. /\ SameRequest(c) /\ session'[c].pc = "connect" /\ session'[c].out = session[c].out
      /\ session'[c].sock = None /\ session'[c].todo = Tail(session[c].todo)
  BY <1>1, <1>2, <1>3, SessionsType, ZenonT(60) DEF SessionRec, WorkingPcs, LinkedPcs, OnlySession, SameRequest
<1> QED
  BY <1>1, <1>4, <1>5

LEMMA NoCandidateDoes ==
    ASSUME Shape, NEW c \in Slots, no_candidate_left(c)
    PROVE  /\ SameRequest(c) /\ session[c].pc = "connect" /\ session'[c].pc = "reply"
           /\ session'[c].sock = session[c].sock /\ session'[c].todo = session[c].todo
           /\ session'[c].out = session[c].out
           /\ UNCHANGED conn
BY SessionToDoes DEF Shape, no_candidate_left, SessionAt, SessionTo, WorkingPcs

(* The request that was answered leaves the buffer.                        *)
RestOf(c) ==
    SubSeq(session[c].buf, 2 + session[c].req.len + 1, Len(session[c].buf))

LEMMA RestIs ==
    ASSUME Shape, NEW c \in Slots, Working(c)
    PROVE  /\ RestOf(c) \in Seq(Tokens)
           /\ Erased(session[c]) = Inner(session[c], RestOf(c))
           /\ \E front \in Seq(Tokens) :
                 /\ session[c].buf = front \o RestOf(c)
                 /\ session[c].req.id \in IdsOf(front)
<1> DEFINE s == session[c].buf
           n == 2 + session[c].req.len
           front == SubSeq(s, 1, n)
<1>1. s \in Seq(Tokens) /\ 1 \in DOMAIN s /\ IsLine(s, 1) /\ session[c].req = s[1].m
      /\ n \in 2 .. Len(s)
  BY WorkingRequest, SessionType DEF Shape, FirstIs
<1>2. n \in 0 .. Len(s)
  BY <1>1
<1>3. front \in Seq(Tokens) /\ RestOf(c) \in Seq(Tokens) /\ s = front \o RestOf(c)
  BY <1>1, <1>2, CutLines DEF RestOf
<1>4. 1 \in DOMAIN front /\ front[1] = s[1]
  <2>1. Len(s) \in Nat
    BY <1>1, LenProperties
  <2>2. Len(front) = n /\ \A i \in 1 .. n : front[i] = s[i]
    BY <1>1, <2>1, SubSeqProperties
  <2>3. DOMAIN front = 1 .. n
    BY <1>3, <2>2, LenProperties
  <2> QED
    BY <1>1, <2>2, <2>3
<1>5. session[c].req.id \in IdsOf(front)
  BY <1>1, <1>4, LineIn DEF IsLine
<1>6. Erased(session[c]) = Inner(session[c], RestOf(c))
  BY <1>1 DEF Erased, Consumed, RestOf
<1> QED
  BY <1>3, <1>5, <1>6

LEMMA RelayDoes ==
    ASSUME Shape, NEW c \in Slots, relay(c)
    PROVE  /\ OnlySession(c) /\ session[c].pc = "reply"
           /\ session'[c] = Inner(session[c], RestOf(c))
           /\ session[c].out # None /\ session[c].out \in Msgs
           /\ ConnOK' /\ Wrote(c, "server", WholeOf(session[c].out))
<1>1. Types /\ session[c].pc = "reply" /\ session[c].out # None
  BY DEF Shape, relay, SessionAt
<1>2. session[c].out \in Msgs /\ Working(c)
  BY <1>1, SessionType DEF SessionRec, Working, WorkingPcs
<1>3. ConnOK' /\ Wrote(c, "server", WholeOf(session[c].out))
  BY <1>1, <1>2, ReplyDoes DEF relay
<1> DEFINE x == Inner(session[c], RestOf(c))
<1>4. RestOf(c) \in Seq(Tokens) /\ session' = [session EXCEPT ![c] = x]
  BY <1>2, RestIs DEF relay
<1>5. x \in SessionRec
  BY <1>4, InnerIs
<1>6. OnlySession(c) /\ session'[c] = x
  <2> HIDE DEF x
  <2> QED
    BY <1>1, <1>4, <1>5, SessionPutDoes
<1> QED
  BY <1>1, <1>2, <1>3, <1>6

EndedSession == [NoSession EXCEPT !.pc = "close"]

LEMMA NoSessionType ==
    /\ NoSession \in SessionRec /\ EndedSession \in SessionRec
    /\ NoSession.pc = "none" /\ NoSession.buf = <<>> /\ NoSession.todo = <<>>
    /\ NoSession.sock = None
    /\ EndedSession.pc = "close" /\ EndedSession.todo = <<>> /\ EndedSession.sock = None
<1>1. <<>> \in Seq(Tokens) /\ <<>> \in Seq(Nodes)
  BY EmptyLines, EmptySeq
<1>2. EndedSession = [pc |-> "close", buf |-> <<>>, req |-> None, todo |-> <<>>,
                      sock |-> None, rbuf |-> <<>>, out |-> None]
  BY DEF NoSession, EndedSession
<1> QED
  BY <1>1, <1>2 DEF NoSession, SessionRec

LEMMA Relay503Does ==
    ASSUME Shape, NEW c \in Slots, relay_503(c)
    PROVE  /\ OnlySession(c) /\ session[c].pc = "reply"
           /\ session'[c] \in {Inner(session[c], RestOf(c)), EndedSession}
           /\ \E m \in Msgs : /\ m.id = session[c].req.id /\ m.kind = 503
                              /\ ConnOK' /\ Wrote(c, "server", WholeOf(m))
<1>1. Types /\ session[c].pc = "reply"
  BY DEF Shape, relay_503, SessionAt
<1>2. Working(c) /\ session[c].req \in Msgs
  BY <1>1, WorkingRequest DEF Working, WorkingPcs
<1>3. ConnOK' /\ Wrote(c, "server", WholeOf(ServiceUnavailable(session[c].req)))
  BY <1>1, <1>2, ReplyDoes, UnavailableIs DEF relay_503
<1> DEFINE x == IF IsWrite(session[c].req) THEN Inner(session[c], RestOf(c)) ELSE EndedSession
<1>4. session' = [session EXCEPT ![c] = x]
  BY <1>2, RestIs DEF relay_503, EndedSession
<1>5. x \in {Inner(session[c], RestOf(c)), EndedSession} /\ x \in SessionRec
  BY <1>2, RestIs, InnerIs, NoSessionType
<1>6. OnlySession(c) /\ session'[c] = x
  <2> HIDE DEF x
  <2> QED
    BY <1>1, <1>4, <1>5, SessionPutDoes
<1> QED
  BY <1>1, <1>2, <1>3, <1>5, <1>6, UnavailableIs

LEMMA CloseClientDoes ==
    ASSUME Shape, NEW c \in Slots, close_client(c)
    PROVE  /\ OnlySession(c) /\ session[c].pc = "close" /\ session'[c] = NoSession
           /\ ConnOK' /\ ClosedEnd(c, "server")
<1>1. Types /\ session[c].pc = "close" /\ c \in Conns /\ Close(c, "server")
      /\ session' = [session EXCEPT ![c] = NoSession]
  BY SessionType DEF Shape, close_client, SessionAt
<1>2. ConnOK' /\ ClosedEnd(c, "server")
  BY <1>1, CloseDoes DEF Types, Ends
<1> QED
  BY <1>1, <1>2, NoSessionType, SessionPutDoes

-----------------------------------------------------------------------------
(* What each step of a backend, and of the client that does not wait, does.*)
OnlyBackend(b) ==
    /\ backend' \in [BackendSlots -> BackendRec]
    /\ \A d \in BackendSlots \ {b} : backend'[d] = backend[d]

LEMMA BackendType ==
    ASSUME Types, NEW b \in BackendSlots
    PROVE  /\ backend[b] \in BackendRec /\ b \in Conns
           /\ conn[b].to["server"] \in Seq(Tokens) /\ conn[b].to["client"] \in Seq(Tokens)
<1>1. b \in Conns
  BY WireAssumption
<1> QED
  BY <1>1, ConnFields DEF Types, Ends

LEMMA ServeReadDoes ==
    ASSUME Shape, NEW b \in BackendSlots, serve_read(b)
    PROVE  /\ OnlyBackend(b) /\ backend[b].node # None /\ backend[b].pc = "read"
           /\ backend'[b].pc = "run" /\ backend'[b].node = backend[b].node
           /\ backend'[b].req \in Lines(conn[b].to["server"]) /\ backend'[b].req \in Msgs
           /\ ConnOK' /\ OthersSame(b)
           /\ conn'[b].to["server"] = <<>> /\ conn'[b].to["client"] = conn[b].to["client"]
           /\ conn'[b].at["server"] = "open" /\ conn'[b].at["client"] = conn[b].at["client"]
<1> DEFINE m == conn[b].to["server"][1].m
<1>1. Types /\ backend[b].node # None /\ backend[b].pc = "read" /\ b \in Conns
  BY BackendType DEF Shape, serve_read, BackendAt
<1>2. m \in Lines(conn[b].to["server"]) /\ m \in Msgs
  BY <1>1, BackendType, ProgressIs DEF serve_read
<1>3. /\ backend' = [backend EXCEPT ![b].pc = "run", ![b].req = m]
      /\ conn' = [conn EXCEPT ![b].to["server"] = <<>>, ![b].at["server"] = "open"]
  BY DEF serve_read
<1> HIDE DEF m
<1>4. /\ OnlyBackend(b) /\ backend'[b].pc = "run" /\ backend'[b].node = backend[b].node
      /\ backend'[b].req = m
  BY <1>1, <1>2, <1>3 DEF Types, BackendRec, OnlyBackend
<1>5. <<>> \in Seq(Tokens) /\ "server" \in Ends /\ "client" \in Ends
  BY EmptyLines DEF Ends
<1>6. ConnTypes'
  BY <1>1, <1>3, <1>5 DEF Types, ConnOK, ConnTypes
<1>7. /\ OthersSame(b)
      /\ conn'[b].to["server"] = <<>> /\ conn'[b].to["client"] = conn[b].to["client"]
      /\ conn'[b].at["server"] = "open" /\ conn'[b].at["client"] = conn[b].at["client"]
  BY <1>1, <1>3, <1>5 DEF Types, ConnOK, ConnTypes, OthersSame
<1>8. ConnOK'
  BY <1>1, <1>6, <1>7 DEF Types, ConnOK, OthersSame, Ends
<1> QED
  BY <1>1, <1>2, <1>4, <1>7, <1>8

LEMMA ServeRunDoes ==
    ASSUME Shape, NEW b \in BackendSlots, serve_run(b)
    PROVE  LET n == backend[b].node
               m == backend[b].req IN
           /\ OnlyBackend(b) /\ n \in Nodes /\ backend[b].pc = "run" /\ m \in Msgs
           /\ backend'[b].pc = "write" /\ backend'[b].node = n
           /\ UNCHANGED conn
           /\ \E code \in Codes :
                 /\ backend'[b].res \in Msgs
                 /\ backend'[b].res.id = m.id /\ backend'[b].res.kind = code
                 /\ [id |-> m.id, kind |-> code] \in [id : Ids, kind : Codes]
                 /\ done' = [done EXCEPT ![n] = Append(@, [id |-> m.id, kind |-> code])]
<1> DEFINE n == backend[b].node
           m == backend[b].req
<1>1. Types /\ n \in Nodes /\ backend[b].pc = "run" /\ m \in Msgs /\ UNCHANGED conn
  BY BackendType DEF Shape, serve_run, BackendAt, BackendOK, BackendRec
<1>2. PICK code \in Codes :
        /\ backend' = [backend EXCEPT ![b].pc = "write", ![b].req = None, ![b].res =
               [id |-> m.id, kind |-> code, close |-> TRUE, len |-> ReplyLen, size |-> ReplyLen]]
        /\ done' = [done EXCEPT ![n] = Append(@, [id |-> m.id, kind |-> code])]
  BY DEF serve_run
<1> DEFINE x == [id |-> m.id, kind |-> code, close |-> TRUE, len |-> ReplyLen, size |-> ReplyLen]
<1>3. m.id \in Ids
  BY <1>1, MsgRec
<1>4. x \in Msgs /\ x.id = m.id /\ x.kind = code
  BY <1>3, WireAssumption DEF Msgs, AnsMsgs
<1>5. backend' = [backend EXCEPT ![b].pc = "write", ![b].req = None, ![b].res = x]
  BY <1>2
<1> HIDE DEF x
<1>6. /\ OnlyBackend(b) /\ backend'[b].pc = "write" /\ backend'[b].node = n
      /\ backend'[b].res = x
  BY <1>1, <1>4, <1>5 DEF Types, BackendRec, OnlyBackend
<1> QED
  BY <1>1, <1>2, <1>3, <1>4, <1>6

LEMMA ServeWriteDoes ==
    ASSUME Shape, NEW b \in BackendSlots, serve_write(b)
    PROVE  /\ OnlyBackend(b) /\ backend[b].pc = "write" /\ backend[b].res \in Msgs
           /\ backend[b].node # None
           /\ backend'[b].pc = "read" /\ backend'[b].node = backend[b].node
           /\ ConnOK' /\ Wrote(b, "server", WholeOf(backend[b].res))
<1>1. /\ Types /\ backend[b].pc = "write" /\ backend[b].res \in Msgs /\ b \in Conns
      /\ backend[b].node # None
  BY BackendType DEF Shape, serve_write, BackendAt, BackendOK
<1>2. /\ \E ok \in BOOLEAN : Write(b, "server", WholeOf(backend[b].res), ok)
      /\ backend' = [backend EXCEPT ![b].pc = "read", ![b].res = None]
  BY DEF serve_write, WholeOf
<1>3. WholeOf(backend[b].res) \in Seq(Tokens)
  BY <1>1, WholeLines DEF WholeOf
<1>4. ConnOK' /\ Wrote(b, "server", WholeOf(backend[b].res))
  BY <1>1, <1>2, <1>3, WriteDoes DEF Types, Ends
<1>5. OnlyBackend(b) /\ backend'[b].pc = "read" /\ backend'[b].node = backend[b].node
  BY <1>1, <1>2 DEF Types, BackendRec, OnlyBackend
<1> QED
  BY <1>1, <1>4, <1>5

LEMMA NoBackendType ==
    /\ NoBackend \in BackendRec /\ NoBackend.node = None /\ NoBackend.pc = "read"
    /\ \A n \in Nodes : /\ [NoBackend EXCEPT !.node = n] \in BackendRec
                        /\ [NoBackend EXCEPT !.node = n].node = n
                        /\ [NoBackend EXCEPT !.node = n].pc = "read"
BY DEF NoBackend, BackendRec

LEMMA BackendEndDoes ==
    ASSUME Shape, NEW b \in BackendSlots, serve_end(b) \/ backend_dies(b)
    PROVE  /\ OnlyBackend(b) /\ backend'[b] = NoBackend
           /\ ConnOK' /\ ClosedEnd(b, "server")
<1>1. Types /\ b \in Conns /\ Close(b, "server") /\ backend' = [backend EXCEPT ![b] = NoBackend]
  BY BackendType DEF Shape, serve_end, backend_dies
<1>2. ConnOK' /\ ClosedEnd(b, "server")
  BY <1>1, CloseDoes DEF Types, Ends
<1>3. OnlyBackend(b) /\ backend'[b] = NoBackend
  BY <1>1, NoBackendType DEF Types, OnlyBackend
<1> QED
  BY <1>2, <1>3

LEMMA RawConnType == RawConn \in Slots /\ RawConn \in Conns
BY WireAssumption, HttpClientAssumption DEF RawConn

LEMMA RawConnectDoes ==
    ASSUME Shape, raw_connect
    PROVE  /\ raw' \in RawRec /\ raw.pc = "new" /\ raw'.pc = "open" /\ raw'.sent = raw.sent
           /\ raw'.buf = raw.buf /\ Connect(RawConn, {RawConn})
BY DEF Shape, Types, RawRec, raw_connect

LEMMA RawSendDoes ==
    ASSUME Shape, raw_send
    PROVE  /\ raw' \in RawRec /\ raw.pc = "open" /\ raw'.pc = "open"
           /\ raw.sent \in Nat /\ raw'.sent = raw.sent + 1 /\ raw'.buf = raw.buf
           /\ \E m \in ReqMsgs :
                 /\ m.id = <<"raw", raw.sent + 1>> /\ m.len = m.size
                 /\ ConnOK' /\ Wrote(RawConn, "client", WholeOf(m))
<1> DEFINE i == raw.sent + 1
           m == RawRequest(i)
<1>1. Types /\ raw.pc = "open" /\ raw \in RawRec /\ raw.sent \in Nat
  BY DEF Shape, Types, RawRec, raw_send
<1>2. i \in DOMAIN RawAsks
  BY <1>1, WireAssumption, LenProperties DEF raw_send
<1>3. RawAsks[i] \in Asks /\ BodyLen(RawAsks[i]) \in Nat /\ <<"raw", i>> \in Ids
  <2>1. i \in Nat
    BY <1>1
  <2>2. <<"raw", i>> \in Ids
    BY <2>1 DEF Ids
  <2>3. RawAsks[i] \in Asks
    BY <1>2 DEF Asks
  <2> QED
    BY <2>2, <2>3 DEF BodyLen
<1>4. m \in ReqMsgs /\ m.id = <<"raw", i>> /\ m.len = m.size
  BY <1>3 DEF RawRequest, ReqMsgs
<1>5. /\ \E ok \in BOOLEAN : Write(RawConn, "client", WholeOf(m), ok)
      /\ raw' = [raw EXCEPT !.sent = i]
  BY DEF raw_send, WholeOf
<1>6. WholeOf(m) \in Seq(Tokens)
  BY <1>4, WholeLines DEF WholeOf, Msgs
<1> HIDE DEF m
<1>7. ConnOK' /\ Wrote(RawConn, "client", WholeOf(m))
  BY <1>1, <1>5, <1>6, RawConnType, WriteDoes DEF Types, Ends
<1>8. raw' \in RawRec /\ raw'.pc = "open" /\ raw'.sent = i /\ raw'.buf = raw.buf
  BY <1>1, <1>5 DEF RawRec
<1> QED
  BY <1>1, <1>4, <1>7, <1>8

LEMMA RawRecvDoes ==
    ASSUME Shape, raw_recv
    PROVE  /\ raw' \in RawRec /\ raw.pc = "open" /\ raw'.pc = "open" /\ raw'.sent = raw.sent
           /\ \E n \in 1 .. Len(conn[RawConn].to["client"]) :
                 /\ ConnOK' /\ Took(RawConn, "client", n)
                 /\ raw'.buf = raw.buf \o Received(RawConn, "client", n)
<1>1. Types /\ raw.pc = "open" /\ raw \in RawRec /\ raw.buf \in Seq(Tokens)
  BY DEF Shape, Types, RawRec, raw_recv
<1>2. PICK n \in Arrived(RawConn, "client") :
        /\ Recv(RawConn, "client", n)
        /\ raw' = [raw EXCEPT !.buf = @ \o Received(RawConn, "client", n)]
  BY DEF raw_recv
<1>3. ConnOK' /\ Took(RawConn, "client", n) /\ n \in 1 .. Len(conn[RawConn].to["client"])
  BY <1>1, <1>2, RawConnType, RecvDoes DEF Types, Ends, Took
<1> DEFINE buf == raw.buf \o Received(RawConn, "client", n)
<1>4. buf \in Seq(Tokens)
  <2>1. conn[RawConn].to["client"] \in Seq(Tokens)
    BY <1>1, RawConnType, ConnFields DEF Types, Ends
  <2>2. n \in 0 .. Len(conn[RawConn].to["client"])
    BY <1>3, <2>1, TokenAt
  <2>3. Received(RawConn, "client", n) \in Seq(Tokens)
    BY <2>1, <2>2, CutLines DEF Received
  <2> QED
    BY <1>1, <2>3, JoinedLines
<1>5. raw' = [raw EXCEPT !.buf = buf]
  BY <1>2
<1>6. buf = raw.buf \o Received(RawConn, "client", n)
  OBVIOUS
<1> HIDE DEF buf
<1>7. raw' \in RawRec /\ raw'.pc = "open" /\ raw'.sent = raw.sent /\ raw'.buf = buf
  BY <1>1, <1>4, <1>5 DEF RawRec
<1> QED
  BY <1>1, <1>3, <1>6, <1>7

LEMMA RawCloseDoes ==
    ASSUME Shape, raw_close
    PROVE  /\ raw' \in RawRec /\ raw.pc = "open" /\ raw'.pc = "closed"
           /\ raw'.sent = raw.sent /\ raw'.buf = raw.buf
           /\ ConnOK' /\ ClosedEnd(RawConn, "client")
<1>1. Types /\ raw.pc = "open" /\ raw \in RawRec /\ raw' = [raw EXCEPT !.pc = "closed"]
  BY DEF Shape, Types, raw_close
<1>2. ConnOK' /\ ClosedEnd(RawConn, "client")
  BY <1>1, RawConnType, CloseDoes DEF Shape, Types, raw_close, Ends
<1> QED
  BY <1>1, <1>2 DEF RawRec

-----------------------------------------------------------------------------
(* What a step does to the lines on their way to the server end.           *)
LEMMA UpType ==
    ASSUME Types, NEW c \in Slots
    PROVE  /\ session[c].buf \in Seq(Tokens) /\ conn[c].to["server"] \in Seq(Tokens)
           /\ conn[c].to["client"] \in Seq(Tokens)
           /\ IdsOf(session[c].buf \o conn[c].to["server"])
                = IdsOf(session[c].buf) \union IdsOf(conn[c].to["server"])
           /\ session[c].pc # "close" =>
                 UpIds(c) = IdsOf(session[c].buf) \union IdsOf(conn[c].to["server"])
           /\ session[c].pc = "close" => UpLines(c) = {} /\ UpIds(c) = {}
           /\ Once(session[c].buf \o conn[c].to["server"]) <=>
                 /\ Once(session[c].buf) /\ Once(conn[c].to["server"])
                 /\ IdsOf(session[c].buf) \intersect IdsOf(conn[c].to["server"]) = {}
<1>1. session[c].buf \in Seq(Tokens) /\ c \in Conns
  BY SessionType
<1>2. conn[c].to["server"] \in Seq(Tokens) /\ conn[c].to["client"] \in Seq(Tokens)
  BY <1>1, ConnFields DEF Types, Ends
<1>3. session[c].pc # "close" =>
        UpIds(c) = IdsOf(session[c].buf) \union IdsOf(conn[c].to["server"])
  BY DEF UpIds, UpLines, IdsOf
<1>4. session[c].pc = "close" => UpLines(c) = {} /\ UpIds(c) = {}
  BY DEF UpIds, UpLines
<1> QED
  BY <1>1, <1>2, <1>3, <1>4, JoinedLines

LEMMA UpStays ==
    ASSUME NEW c, session'[c].pc = session[c].pc \/ session'[c].pc = "close",
           session'[c].buf = session[c].buf, conn'[c].to["server"] = conn[c].to["server"]
    PROVE  /\ UpLines(c)' \subseteq UpLines(c) /\ UpIds(c)' \subseteq UpIds(c)
           /\ UpOnce(c) => UpOnce(c)'
BY DEF UpLines, UpIds, UpOnce

(* The pc of a session that goes on working makes no difference.           *)
LEMMA UpWorks ==
    ASSUME NEW c, session[c].pc # "close",
           session'[c].buf = session[c].buf, conn'[c].to["server"] = conn[c].to["server"]
    PROVE  /\ UpLines(c)' \subseteq UpLines(c) /\ UpIds(c)' \subseteq UpIds(c)
           /\ UpOnce(c) => UpOnce(c)'
BY DEF UpLines, UpIds, UpOnce

LEMMA UpAfterClose ==
    ASSUME Types, NEW c \in Slots, session'[c] = session[c], ClosedEnd(c, "client")
    PROVE  /\ UpLines(c)' \subseteq UpLines(c) /\ UpIds(c)' \subseteq UpIds(c)
           /\ UpOnce(c) => UpOnce(c)'
<1> DEFINE s == conn[c].to["server"]
           t == conn'[c].to["server"]
           buf == session[c].buf
<1>1. s \in Seq(Tokens) /\ buf \in Seq(Tokens)
  BY UpType
<1>2. PICK n \in 0 .. Len(s) : t = SubSeq(s, 1, n)
  BY DEF ClosedEnd, Other
<1>3. /\ t \in Seq(Tokens) /\ Lines(t) \subseteq Lines(s) /\ IdsOf(t) \subseteq IdsOf(s)
      /\ Once(s) => Once(t)
  BY <1>1, <1>2, FrontLines
<1>4. Once(buf \o s) => Once(buf \o t)
  BY <1>1, <1>3, JoinedLines
<1>5. UpLines(c)' \subseteq UpLines(c)
  BY <1>3 DEF UpLines
<1>6. UpIds(c)' \subseteq UpIds(c)
  BY <1>5 DEF UpIds
<1>7. UpOnce(c) => UpOnce(c)'
  BY <1>4 DEF UpOnce
<1> QED
  BY <1>5, <1>6, <1>7

LEMMA UpAfterWrite ==
    ASSUME Types, NEW c \in Slots, session'[c] = session[c], NEW data \in Seq(Tokens),
           Wrote(c, "client", data)
    PROVE  /\ UpLines(c)' \subseteq UpLines(c) \union Lines(data)
           /\ UpIds(c)' \subseteq UpIds(c) \union IdsOf(data)
           /\ UpOnce(c) /\ Once(data) /\ UpIds(c) \intersect IdsOf(data) = {} => UpOnce(c)'
<1> DEFINE s == conn[c].to["server"]
           t == conn'[c].to["server"]
           buf == session[c].buf
<1>1. /\ s \in Seq(Tokens) /\ buf \in Seq(Tokens)
      /\ session[c].pc # "close" => UpIds(c) = IdsOf(buf) \union IdsOf(s)
  BY UpType
<1>2. t = s \/ t = s \o data
  BY DEF Wrote, Other
<1>3. CASE t = s
  BY <1>3, UpStays
<1>4. CASE t = s \o data
  <2>1. /\ t \in Seq(Tokens) /\ Lines(t) = Lines(s) \union Lines(data)
        /\ IdsOf(t) = IdsOf(s) \union IdsOf(data)
        /\ Once(t) <=> Once(s) /\ Once(data) /\ IdsOf(s) \intersect IdsOf(data) = {}
    BY <1>1, <1>4, JoinedLines
  <2>2. UpLines(c)' \subseteq UpLines(c) \union Lines(data)
    BY <2>1 DEF UpLines
  <2>3. UpIds(c)' \subseteq UpIds(c) \union IdsOf(data)
    BY <2>2 DEF UpIds, IdsOf
  <2>4. ASSUME UpOnce(c), Once(data), UpIds(c) \intersect IdsOf(data) = {},
               session[c].pc # "close"
        PROVE  Once(buf \o t)
    <3>1. Once(buf) /\ Once(s) /\ IdsOf(buf) \intersect IdsOf(s) = {}
      BY <1>1, <2>4, JoinedLines DEF UpOnce
    <3>2. IdsOf(buf) \intersect IdsOf(data) = {} /\ IdsOf(s) \intersect IdsOf(data) = {}
      BY <1>1, <2>4
    <3>3. Once(t) /\ IdsOf(buf) \intersect IdsOf(t) = {}
      BY <2>1, <2>4, <3>1, <3>2
    <3> QED
      BY <1>1, <2>1, <3>1, <3>3, JoinedLines
  <2> QED
    BY <2>2, <2>3, <2>4 DEF UpOnce
<1> QED
  BY <1>2, <1>3, <1>4

LEMMA UpAfterRecv ==
    ASSUME Types, NEW c \in Slots, session[c].pc # "close",
           NEW n \in 1 .. Len(conn[c].to["server"]), Took(c, "server", n),
           session'[c].buf = session[c].buf \o Received(c, "server", n)
    PROVE  /\ UpLines(c)' \subseteq UpLines(c) /\ UpIds(c)' \subseteq UpIds(c)
           /\ UpOnce(c) => UpOnce(c)'
<1> DEFINE s == conn[c].to["server"]
           front == SubSeq(s, 1, n)
           back == SubSeq(s, n + 1, Len(s))
           buf == session[c].buf
<1>1. s \in Seq(Tokens) /\ buf \in Seq(Tokens)
  BY UpType
<1>2. n \in 0 .. Len(s)
  BY <1>1, TokenAt
<1>3. /\ front \in Seq(Tokens) /\ back \in Seq(Tokens) /\ s = front \o back
      /\ Lines(s) = Lines(front) \union Lines(back)
  BY <1>1, <1>2, CutIds
<1>4. session'[c].buf = buf \o front /\ conn'[c].to["server"] = back
  BY DEF Took, Received
<1> HIDE DEF front, back
<1>5. Lines(buf \o front) = Lines(buf) \union Lines(front)
  BY <1>1, <1>3, JoinedLines
<1>6. (buf \o front) \o back = buf \o s
  <2>1. (buf \o front) \o back = buf \o (front \o back)
    BY <1>1, <1>3, JoinedThree
  <2> QED
    BY <1>3, <2>1
<1>7. UpLines(c)' \subseteq UpLines(c)
  BY <1>3, <1>4, <1>5 DEF UpLines
<1>8. UpIds(c)' \subseteq UpIds(c)
  BY <1>7 DEF UpIds
<1>9. UpOnce(c) => UpOnce(c)'
  BY <1>4, <1>6 DEF UpOnce
<1> QED
  BY <1>7, <1>8, <1>9

(* An answer is the end of its request.                                    *)
LEMMA UpAfterErase ==
    ASSUME Shape, NEW c \in Slots, Working(c), UpOnce(c),
           conn'[c].to["server"] = conn[c].to["server"],
           \/ session'[c].pc = "close"
           \/ session'[c].buf = RestOf(c)
    PROVE  /\ UpLines(c)' \subseteq UpLines(c) /\ UpIds(c)' \subseteq UpIds(c)
           /\ UpOnce(c)' /\ session[c].req.id \notin UpIds(c)'
<1>1. CASE session'[c].pc = "close"
  BY <1>1 DEF UpLines, UpIds, UpOnce
<1>2. CASE session'[c].pc # "close" /\ session'[c].buf = RestOf(c)
  <2> DEFINE s == conn[c].to["server"]
             back == RestOf(c)
             id == session[c].req.id
  <2>1. s \in Seq(Tokens) /\ back \in Seq(Tokens)
    BY UpType, RestIs DEF Shape
  <2>2. PICK front \in Seq(Tokens) : session[c].buf = front \o back /\ id \in IdsOf(front)
    BY RestIs
  <2>3. Once((front \o back) \o s)
    BY <2>2 DEF UpOnce, Working, WorkingPcs, LinkedPcs
  <2> HIDE DEF back
  <2>4. (front \o back) \o s = front \o (back \o s)
    BY <2>1, <2>2, JoinedThree
  <2>5. back \o s \in Seq(Tokens) /\ IdsOf(back \o s) = IdsOf(back) \union IdsOf(s)
        /\ Lines(back \o s) = Lines(back) \union Lines(s)
        /\ Lines(front \o back) = Lines(front) \union Lines(back)
    BY <2>1, <2>2, JoinedLines
  <2>6. Once(back \o s) /\ id \notin IdsOf(back \o s)
    <3> DEFINE rest == back \o s
    <3>1. rest \in Seq(Tokens) /\ Once(front \o rest)
      BY <2>3, <2>4, <2>5
    <3> HIDE DEF rest
    <3>2. Once(rest) /\ IdsOf(front) \intersect IdsOf(rest) = {}
      BY <2>2, <3>1, JoinedLines
    <3> QED
      BY <2>2, <3>2 DEF rest
  <2>7. session'[c].buf = back
    BY <1>2 DEF back
  <2>8. UpLines(c)' = Lines(back) \union Lines(s)
    BY <1>2, <2>7 DEF UpLines
  <2>9. UpLines(c)' \subseteq UpLines(c)
    BY <2>2, <2>5, <2>8 DEF UpLines, Working, WorkingPcs, LinkedPcs
  <2>10. UpIds(c)' = IdsOf(back) \union IdsOf(s)
    BY <2>8 DEF UpIds, IdsOf
  <2>11. UpOnce(c)'
    BY <2>6, <2>7 DEF UpOnce
  <2> QED
    BY <2>5, <2>6, <2>9, <2>10, <2>11 DEF UpIds
<1> QED
  BY <1>1, <1>2

-----------------------------------------------------------------------------
(* Shape holds, initially and after the steps of each kind of process.     *)
LEMMA ClientKeeps ==
    ASSUME NEW k \in Clients, ClientOK(k), client'[k] = client[k],
           client[k].sock # None =>
               conn'[client[k].sock].at["client"] = conn[client[k].sock].at["client"]
    PROVE  ClientOK(k)'
BY DEF ClientOK

LEMMA SessionKeeps ==
    ASSUME NEW c \in Slots, SessionOK(c), session'[c] = session[c],
           conn'[c].at["server"] = "open" <=> conn[c].at["server"] = "open",
           Linked(c) =>
               /\ conn'[session[c].sock].at["client"] = conn[session[c].sock].at["client"]
               /\ backend'[session[c].sock].node \in {None, backend[session[c].sock].node}
    PROVE  SessionOK(c)'
BY DEF SessionOK, Linked, Working

LEMMA BackendKeeps ==
    ASSUME NEW b \in BackendSlots, BackendOK(b), backend'[b] = backend[b],
           conn'[b].at["server"] = "closed" <=> conn[b].at["server"] = "closed"
    PROVE  BackendOK(b)'
BY DEF BackendOK

LEMMA LinkedSock ==
    ASSUME Shape, NEW c \in Slots, Linked(c)
    PROVE  /\ session[c].sock # None /\ session[c].sock \in BackendSlots
           /\ session[c].sock \in Conns /\ session[c].sock \notin Slots
           /\ conn[session[c].sock].at["client"] = "open"
           /\ \A d \in Slots : session[d].sock = session[c].sock => d = c
<1>1. session[c].sock # None /\ conn[session[c].sock].at["client"] = "open"
  BY DEF Shape, SessionOK
<1> QED
  BY <1>1, SessionType, WireAssumption DEF Shape, OneOwner

(* Of a connection of its own, a client changes no end but its own.        *)
ClientEnd(s) ==
    /\ OthersSame(s)
    /\ conn'[s].at["server"] = "open" <=> conn[s].at["server"] = "open"

LEMMA ClientFrame ==
    ASSUME Shape, ConnOK', NEW k \in Clients, OnlyClient(k),
           UNCHANGED <<session, backend, done, raw>>, raw.pc = "absent",
           ClientOK(k)',
           \A l \in Clients \ {k} : client'[k].sock # None => client[l].sock # client'[k].sock,
           \/ UNCHANGED conn
           \/ \E s \in Slots : /\ ClientEnd(s) /\ UpLines(s)' \subseteq ReqMsgs
                               /\ \A l \in Clients \ {k} : client[l].sock # s
    PROVE  Shape'
<1> DEFINE Moved(s) == conn'[s] # conn[s]
<1>1. \A b \in BackendSlots : conn'[b] = conn[b]
  <2>1. \A b \in BackendSlots : b \in Conns /\ b \notin Slots
    BY WireAssumption
  <2> QED
    BY <2>1 DEF ClientEnd, OthersSame
<1>2. \A c \in Slots : conn'[c].at["server"] = "open" <=> conn[c].at["server"] = "open"
  BY HttpClientAssumption DEF ClientEnd, OthersSame
<1>3. \A c \in Slots : SessionOK(c)'
  BY <1>1, <1>2, SessionKeeps, LinkedSock DEF Shape
<1>4. \A b \in BackendSlots : BackendOK(b)'
  BY <1>1, BackendKeeps DEF Shape
<1>5. \A c \in Slots : UpLines(c)' \subseteq ReqMsgs
  <2>1. ASSUME NEW c \in Slots, conn'[c] = conn[c] PROVE UpLines(c)' \subseteq ReqMsgs
    BY <2>1 DEF Shape, UpLines
  <2> QED
    BY <2>1, HttpClientAssumption DEF ClientEnd, OthersSame
<1>6. \A l \in Clients : ClientOK(l)'
  <2>1. ASSUME NEW l \in Clients \ {k} PROVE ClientOK(l)'
    <3>1. client'[l] = client[l] /\ ClientOK(l)
      BY DEF OnlyClient, Shape
    <3>2. client[l].sock # None => conn'[client[l].sock] = conn[client[l].sock]
      BY ClientType DEF Shape, ClientEnd, OthersSame
    <3> QED
      BY <3>1, <3>2, ClientKeeps
  <2> QED
    BY <2>1
<1>7. OneOwner'
  BY DEF Shape, OneOwner, OnlyClient
<1>8. OneRegime'
  BY DEF Shape, OneRegime
<1>9. Types'
  BY DEF Shape, Types, OnlyClient
<1> QED
  BY <1>3, <1>4, <1>5, <1>6, <1>7, <1>8, <1>9 DEF Shape

(* A client steps only where the one that does not wait is absent.         *)
LEMMA ClientsAlone ==
    ASSUME Shape, NEW k \in Clients, client[k].pc # "idle"
    PROVE  raw.pc = "absent"
BY DEF Shape, OneRegime

LEMMA CallShape ==
    ASSUME Shape, NEW k \in Clients, NEW r \in Requests[k], Call(k, r), raw.pc = "absent",
           UNCHANGED <<session, backend, done, raw>>
    PROVE  Shape'
<1>1. /\ Types /\ ClientOK(k) /\ client[k].n \in Nat
      /\ OnlyClient(k) /\ UNCHANGED conn /\ client[k].pc = "idle"
      /\ client'[k].n = client[k].n + 1 /\ client'[k].sock = client[k].sock
      /\ client'[k].req \in ReqMsgs /\ client'[k].req.id = <<k, client[k].n + 1>>
      /\ client'[k].buf = <<>>
      /\ client'[k].pc = IF client[k].sock = None THEN "connect" ELSE "send"
  BY CallDoes, ClientType DEF Shape, ClientRec
<1>2. ConnOK'
  BY <1>1, ConnStays DEF Types
<1>3. ClientOK(k)'
  BY <1>1 DEF ClientOK
<1>4. \A l \in Clients \ {k} : client'[k].sock # None => client[l].sock # client'[k].sock
  BY <1>1 DEF Shape, OneOwner
<1> QED
  BY <1>1, <1>2, <1>3, <1>4, ClientFrame

(* The socket of a client is nobody else's.                                *)
LEMMA OwnSocket ==
    ASSUME Shape, NEW k \in Clients, client[k].sock # None
    PROVE  /\ client[k].sock \in Slots /\ client[k].sock \in Conns
           /\ \A l \in Clients \ {k} : client[l].sock # client[k].sock
           /\ conn[client[k].sock].at["client"] = "open"
BY ClientType DEF Shape, OneOwner, ClientOK

LEMMA ReadFailsShape ==
    ASSUME Shape, NEW k \in Clients, read_timeout(k) \/ read_end(k),
           UNCHANGED <<session, backend, done, raw>>
    PROVE  Shape'
<1>1. /\ Types /\ ClientOK(k) /\ client[k].pc = "read" /\ UNCHANGED conn /\ Fail(k, "Read")
  BY DEF Shape, read_timeout, read_end, At
<1>2. /\ SameCall(k) /\ client'[k].pc = "return" /\ client'[k].err # "Success"
      /\ client'[k].sock = client[k].sock /\ client'[k].buf = client[k].buf
  BY <1>1, FailDoes
<1>3. ConnOK' /\ raw.pc = "absent"
  BY <1>1, ConnStays, ClientsAlone DEF Types
<1>4. ClientOK(k)'
  BY <1>1, <1>2 DEF ClientOK, SameCall
<1>5. \A l \in Clients \ {k} : client'[k].sock # None => client[l].sock # client'[k].sock
  BY <1>2, OwnSocket
<1> QED
  BY <1>1, <1>2, <1>3, <1>4, <1>5, ClientFrame DEF SameCall

LEMMA ClosedClientEnd ==
    ASSUME Shape, NEW s \in Slots, ClosedEnd(s, "client"), session'[s] = session[s]
    PROVE  ClientEnd(s) /\ UpLines(s)' \subseteq ReqMsgs
<1>1. ClientEnd(s)
  BY DEF ClosedEnd, ClientEnd, Other
<1>2. UpLines(s)' \subseteq UpLines(s) /\ UpLines(s) \subseteq ReqMsgs
  BY UpAfterClose DEF Shape
<1> QED
  BY <1>1, <1>2

LEMMA OwnClosed ==
    ASSUME Shape, NEW k \in Clients, client[k].sock # None, UNCHANGED session,
           ClosedEnd(client[k].sock, "client")
    PROVE  \E s \in Slots : /\ ClientEnd(s) /\ UpLines(s)' \subseteq ReqMsgs
                            /\ \A l \in Clients \ {k} : client[l].sock # s
<1> DEFINE s == client[k].sock
<1>1. s \in Slots /\ \A l \in Clients \ {k} : client[l].sock # s
  BY OwnSocket
<1>2. session'[s] = session[s]
  OBVIOUS
<1> HIDE DEF s
<1>3. ClosedEnd(s, "client")
  BY DEF s
<1> QED
  BY <1>1, <1>2, <1>3, ClosedClientEnd

LEMMA WroteClientEnd ==
    ASSUME Shape, NEW s \in Slots, NEW data \in Seq(Tokens), Lines(data) \subseteq ReqMsgs,
           Wrote(s, "client", data), session'[s] = session[s]
    PROVE  ClientEnd(s) /\ UpLines(s)' \subseteq ReqMsgs /\ SameAt(s)
<1>1. ClientEnd(s) /\ SameAt(s)
  BY DEF Wrote, ClientEnd, SameAt
<1>2. UpLines(s)' \subseteq UpLines(s) \union Lines(data) /\ UpLines(s) \subseteq ReqMsgs
  BY UpAfterWrite DEF Shape
<1> QED
  BY <1>1, <1>2

LEMMA TookClientEnd ==
    ASSUME Shape, NEW s \in Slots, NEW n, Took(s, "client", n), session'[s] = session[s]
    PROVE  ClientEnd(s) /\ UpLines(s)' \subseteq ReqMsgs /\ SameAt(s)
<1>1. ClientEnd(s) /\ SameAt(s) /\ conn'[s].to["server"] = conn[s].to["server"]
  BY DEF Took, ClientEnd, SameAt, Other
<1> QED
  BY <1>1 DEF Shape, UpLines

LEMMA ConnectClientEnd ==
    ASSUME Shape, NEW s \in Slots, NEW slots \in SUBSET Conns, Connect(s, slots),
           session'[s] = session[s]
    PROVE  /\ ConnOK' /\ ClientEnd(s) /\ UpLines(s)' = {} /\ UpIds(s)' = {}
           /\ conn'[s].at["client"] = "open" /\ conn[s].at["client"] = "closed"
           /\ conn'[s].to["client"] = <<>> /\ conn'[s].to["server"] = <<>>
           /\ session[s].pc = "none" /\ session[s].buf = <<>>
<1>1. /\ ConnOK' /\ OthersSame(s)
      /\ conn[s].at["client"] = "closed" /\ conn[s].at["server"] = "closed"
      /\ conn'[s].at["client"] = "open" /\ conn'[s].at["server"] = "backlog"
      /\ conn'[s].to["client"] = <<>> /\ conn'[s].to["server"] = <<>>
  BY ConnectDoes DEF Shape, Types
<1>2. session[s].pc = "none" /\ session[s].buf = <<>>
  BY <1>1 DEF Shape, SessionOK
<1>3. UpLines(s)' = {}
  BY <1>1, <1>2, EmptyLines DEF UpLines
<1> QED
  BY <1>1, <1>2, <1>3 DEF ClientEnd, UpIds

LEMMA ClientStepShape ==
    ASSUME Shape, NEW k \in Clients, ClientStep(k, TRUE),
           UNCHANGED <<session, backend, done, raw>>
    PROVE  Shape'
<1> USE DEF SameCall
<1>1. Types /\ ClientOK(k) /\ Slots \in SUBSET Conns
  BY HttpClientAssumption DEF Shape
<1>2. UNCHANGED conn => ConnOK'
  BY <1>1, ConnStays DEF Types
<1>3. CASE send_(k)
  <2>1. /\ SameCall(k) /\ client[k].pc = "send" /\ client'[k].buf = client[k].buf
        /\ \/ client'[k].pc = "head" /\ client'[k].sock = client[k].sock /\ UNCHANGED conn
           \/ /\ client'[k].pc = "connect" /\ client'[k].sock = None
              /\ ConnOK' /\ ClosedEnd(client[k].sock, "client")
    BY <1>3, SendDoes
  <2>2. client[k].sock # None /\ raw.pc = "absent"
    BY <1>1, <2>1, ClientsAlone DEF ClientOK
  <2>3. ClientOK(k)'
    BY <1>1, <2>1, <2>2 DEF ClientOK
  <2>4. \A l \in Clients \ {k} : client'[k].sock # None => client[l].sock # client'[k].sock
    BY <2>1, <2>2, OwnSocket
  <2>5. \/ UNCHANGED conn
        \/ \E s \in Slots : /\ ClientEnd(s) /\ UpLines(s)' \subseteq ReqMsgs
                            /\ \A l \in Clients \ {k} : client[l].sock # s
    BY <2>1, <2>2, OwnClosed
  <2> QED
    BY <1>2, <2>1, <2>2, <2>3, <2>4, <2>5, ClientFrame
<1>4. CASE create_and_connect_socket(k, TRUE)
  <2>1. /\ SameCall(k) /\ client[k].pc = "connect" /\ client'[k].buf = client[k].buf
        /\ \/ \E c \in Slots :
                 /\ client'[k].pc = "head" /\ client'[k].sock = c
                 /\ Connect(c, Slots)
           \/ /\ client'[k].pc = "return" /\ client'[k].err # "Success"
              /\ client'[k].sock = client[k].sock /\ UNCHANGED conn
    BY <1>4, ConnectSocketDoes
  <2>2. client[k].sock = None /\ client[k].buf = <<>> /\ raw.pc = "absent"
    BY <1>1, <2>1, ClientsAlone DEF ClientOK
  <2>3. ASSUME NEW c \in Slots, client'[k].pc = "head", client'[k].sock = c, Connect(c, Slots)
        PROVE  Shape'
    <3>1. /\ ConnOK' /\ ClientEnd(c) /\ UpLines(c)' = {}
          /\ conn'[c].at["client"] = "open" /\ conn[c].at["client"] = "closed"
      BY <1>1, <2>3, ConnectClientEnd
    <3>2. \A l \in Clients \ {k} : client[l].sock # c
      <4>1. ASSUME NEW l \in Clients, client[l].sock = c PROVE FALSE
        <5>1. c # None
          BY <1>1, WireAssumption
        <5> QED
          BY <3>1, <4>1, <5>1, OwnSocket
      <4> QED
        BY <4>1
    <3>3. ClientOK(k)'
      <4>1. c # None
        BY <1>1, WireAssumption
      <4> QED
        BY <1>1, <2>1, <2>2, <2>3, <3>1, <4>1 DEF ClientOK
    <3> QED
      BY <2>1, <2>2, <2>3, <3>1, <3>2, <3>3, ClientFrame
  <2>4. CASE /\ client'[k].pc = "return" /\ client'[k].err # "Success"
             /\ client'[k].sock = client[k].sock /\ UNCHANGED conn
    <3>1. ClientOK(k)'
      BY <1>1, <2>1, <2>2, <2>4 DEF ClientOK
    <3> QED
      BY <1>2, <2>1, <2>2, <2>4, <3>1, ClientFrame
  <2> QED
    BY <2>1, <2>3, <2>4
<1>5. CASE write_head(k)
  <2>1. /\ SameCall(k) /\ client[k].pc = "head" /\ client'[k].buf = client[k].buf
        /\ client'[k].sock = client[k].sock
        /\ \/ client'[k].pc \in {"body", "read"}
           \/ client'[k].pc = "return" /\ client'[k].err # "Success"
        /\ ConnOK' /\ Wrote(client[k].sock, "client", HeadOf(client[k].req))
    BY <1>5, WriteHeadDoes
  <2>2. client[k].sock # None /\ raw.pc = "absent" /\ client[k].req \in ReqMsgs
    BY <1>1, <2>1, ClientsAlone DEF ClientOK
  <2>3. HeadOf(client[k].req) \in Seq(Tokens) /\ Lines(HeadOf(client[k].req)) \subseteq ReqMsgs
    BY <2>2, HeadLines DEF Msgs
  <2>4. /\ ClientEnd(client[k].sock) /\ UpLines(client[k].sock)' \subseteq ReqMsgs
        /\ SameAt(client[k].sock)
    BY <2>1, <2>2, <2>3, OwnSocket, WroteClientEnd
  <2>5. ClientOK(k)'
    BY <1>1, <2>1, <2>2, <2>4 DEF ClientOK, SameAt
  <2> QED
    BY <2>1, <2>2, <2>4, <2>5, OwnSocket, ClientFrame
<1>6. CASE write_body(k)
  <2>1. /\ SameCall(k) /\ client[k].pc = "body" /\ client'[k].buf = client[k].buf
        /\ client'[k].sock = client[k].sock
        /\ \/ client'[k].pc = "read"
           \/ client'[k].pc = "return" /\ client'[k].err # "Success"
        /\ ConnOK' /\ Wrote(client[k].sock, "client", BodyOf(client[k].req))
    BY <1>6, WriteBodyDoes
  <2>2. client[k].sock # None /\ raw.pc = "absent" /\ client[k].req \in ReqMsgs
    BY <1>1, <2>1, ClientsAlone DEF ClientOK
  <2>3. BodyOf(client[k].req) \in Seq(Tokens) /\ Lines(BodyOf(client[k].req)) \subseteq ReqMsgs
    BY <2>2, BodyLines DEF Msgs
  <2>4. /\ ClientEnd(client[k].sock) /\ UpLines(client[k].sock)' \subseteq ReqMsgs
        /\ SameAt(client[k].sock)
    BY <2>1, <2>2, <2>3, OwnSocket, WroteClientEnd
  <2>5. ClientOK(k)'
    BY <1>1, <2>1, <2>2, <2>4 DEF ClientOK, SameAt
  <2> QED
    BY <2>1, <2>2, <2>4, <2>5, OwnSocket, ClientFrame
<1>7. CASE read_response(k)
  <2>1. PICK n \in 1 .. Len(conn[client[k].sock].to["client"]) :
            ConnOK' /\ Took(client[k].sock, "client", n)
    BY <1>7, ReadResponseDoes
  <2>2. /\ SameCall(k) /\ client[k].pc = "read" /\ client'[k].sock = client[k].sock
        /\ client'[k].pc \in {"read", "return"}
        /\ client'[k].pc = "return" /\ client'[k].err = "Success" =>
              /\ 1 \in DOMAIN client'[k].buf /\ IsLine(client'[k].buf, 1)
              /\ client'[k].res = client'[k].buf[1].m
    BY <1>7, ReadResponseDoes
  <2>3. client[k].sock # None /\ raw.pc = "absent"
    BY <1>1, <2>2, ClientsAlone DEF ClientOK
  <2>4. /\ ClientEnd(client[k].sock) /\ UpLines(client[k].sock)' \subseteq ReqMsgs
        /\ SameAt(client[k].sock)
    <3>1. client[k].sock \in Slots /\ session'[client[k].sock] = session[client[k].sock]
      BY <2>3, OwnSocket
    <3> QED
      BY <2>1, <2>2, <3>1, TookClientEnd
  <2>5. ClientOK(k)'
    BY <1>1, <2>2, <2>3, <2>4 DEF ClientOK, SameAt
  <2> QED
    BY <2>1, <2>2, <2>3, <2>4, <2>5, OwnSocket, ClientFrame
<1>8. CASE read_end(k)
  BY <1>8, ReadFailsShape
<1>9. CASE return(k)
  <2>1. /\ SameCall(k) /\ client[k].pc = "return" /\ client'[k].pc = "idle"
        /\ client'[k].buf = <<>>
        /\ \/ /\ client[k].sock # None /\ client'[k].sock = None
              /\ ConnOK' /\ ClosedEnd(client[k].sock, "client")
           \/ client'[k].sock = client[k].sock /\ UNCHANGED conn
    BY <1>9, ReturnDoes
  <2>2. raw.pc = "absent"
    BY <2>1, ClientsAlone
  <2>3. ClientOK(k)'
    BY <1>1, <2>1 DEF ClientOK
  <2>4. \A l \in Clients \ {k} : client'[k].sock # None => client[l].sock # client'[k].sock
    BY <2>1, OwnSocket
  <2>5. \/ UNCHANGED conn
        \/ \E s \in Slots : /\ ClientEnd(s) /\ UpLines(s)' \subseteq ReqMsgs
                            /\ \A l \in Clients \ {k} : client[l].sock # s
    BY <2>1, OwnClosed
  <2> QED
    BY <1>2, <2>1, <2>2, <2>3, <2>4, <2>5, ClientFrame
<1> QED
  BY <1>3, <1>4, <1>5, <1>6, <1>7, <1>8, <1>9 DEF ClientStep

LEMMA SessionFrame ==
    ASSUME Shape, NEW c \in Slots, OnlySession(c), UNCHANGED <<client, done, raw>>,
           ConnOK', backend' \in [BackendSlots -> BackendRec],
           \A d \in Slots \ {c} :
               /\ conn'[d] = conn[d]
               /\ Linked(d) =>
                    /\ conn'[session[d].sock].at["client"] = conn[session[d].sock].at["client"]
                    /\ backend'[session[d].sock].node = backend[session[d].sock].node,
           conn'[c].at["client"] = conn[c].at["client"],
           \A b \in BackendSlots : BackendOK(b)',
           SessionOK(c)', UpLines(c)' \subseteq ReqMsgs,
           session'[c].sock # None => \A d \in Slots \ {c} : session[d].sock # session'[c].sock
    PROVE  Shape'
<1>1. Types'
  BY DEF Shape, Types, OnlySession
<1>2. \A k \in Clients : ClientOK(k)'
  <2>1. ASSUME NEW k \in Clients, client[k].sock # None
        PROVE  conn'[client[k].sock].at["client"] = conn[client[k].sock].at["client"]
    BY <2>1, OwnSocket
  <2> QED
    BY <2>1, ClientKeeps DEF Shape
<1>3. ASSUME NEW d \in Slots \ {c} PROVE SessionOK(d)' /\ UpLines(d)' \subseteq ReqMsgs
  <2>1. session'[d] = session[d] /\ conn'[d] = conn[d]
    BY DEF OnlySession
  <2>2. SessionOK(d)'
    BY <2>1, SessionKeeps DEF Shape
  <2> QED
    BY <2>1, <2>2 DEF Shape, UpLines
<1>4. OneOwner'
  <2>1. ASSUME NEW d \in Slots, NEW e \in Slots,
               session'[d].sock # None, session'[d].sock = session'[e].sock
        PROVE  d = e
    <3>1. CASE d = c
      BY <2>1, <3>1 DEF OnlySession
    <3>2. CASE e = c
      BY <2>1, <3>2 DEF OnlySession
    <3>3. CASE d # c /\ e # c
      BY <2>1, <3>3 DEF OnlySession, Shape, OneOwner
    <3> QED
      BY <3>1, <3>2, <3>3
  <2>2. \A k, l \in Clients : client'[k].sock # None /\ client'[k].sock = client'[l].sock => k = l
    BY DEF Shape, OneOwner
  <2> QED
    BY <2>1, <2>2 DEF OneOwner
<1>5. OneRegime'
  BY DEF Shape, OneRegime
<1> QED
  BY <1>1, <1>2, <1>3, <1>4, <1>5 DEF Shape

(* On the connection of its client, a session changes no end but its own.  *)
ServerEnd(c) == OthersSame(c) /\ conn'[c].at["client"] = conn[c].at["client"]

LEMMA FrontFrame ==
    ASSUME Shape, NEW c \in Slots, OnlySession(c), UNCHANGED <<client, backend, done, raw>>,
           ConnOK', UNCHANGED conn \/ ServerEnd(c),
           SessionOK(c)', UpLines(c)' \subseteq ReqMsgs,
           session'[c].sock # None => session'[c].sock = session[c].sock
    PROVE  Shape'
<1>1. \A d \in Conns \ {c} : conn'[d] = conn[d]
  BY DEF ServerEnd, OthersSame
<1>2. \A d \in Slots \ {c} :
        /\ conn'[d] = conn[d]
        /\ Linked(d) => conn'[session[d].sock].at["client"] = conn[session[d].sock].at["client"]
  BY <1>1, HttpClientAssumption, LinkedSock
<1>3. \A b \in BackendSlots : BackendOK(b)'
  <2>1. ASSUME NEW b \in BackendSlots PROVE conn'[b] = conn[b]
    BY <1>1, WireAssumption
  <2> QED
    BY <2>1, BackendKeeps DEF Shape
<1>4. conn'[c].at["client"] = conn[c].at["client"] /\ backend' \in [BackendSlots -> BackendRec]
  BY DEF ServerEnd, Shape, Types
<1>5. session'[c].sock # None => \A d \in Slots \ {c} : session[d].sock # session'[c].sock
  BY DEF Shape, OneOwner
<1> QED
  BY <1>2, <1>3, <1>4, <1>5, SessionFrame

(* The same on the connection to its backend.                              *)
LinkEnd(b) ==
    OthersSame(b) /\ conn'[b].at["server"] = conn[b].at["server"]

LEMMA BackFrame ==
    ASSUME Shape, NEW c \in Slots, Linked(c), OnlySession(c),
           UNCHANGED <<client, backend, done, raw>>,
           ConnOK', LinkEnd(session[c].sock),
           SessionOK(c)', UpLines(c)' \subseteq ReqMsgs,
           session'[c].sock # None => session'[c].sock = session[c].sock
    PROVE  Shape'
<1>1. /\ session[c].sock \in Conns /\ session[c].sock \notin Slots /\ session[c].sock # None
      /\ \A d \in Slots : session[d].sock = session[c].sock => d = c
  BY LinkedSock
<1>2. \A d \in Conns \ {session[c].sock} : conn'[d] = conn[d]
  BY DEF LinkEnd, OthersSame
<1>3. \A d \in Slots \ {c} :
        /\ conn'[d] = conn[d]
        /\ Linked(d) => conn'[session[d].sock].at["client"] = conn[session[d].sock].at["client"]
  BY <1>1, <1>2, HttpClientAssumption, LinkedSock
<1>4. \A b \in BackendSlots : BackendOK(b)'
  <2>1. ASSUME NEW b \in BackendSlots PROVE conn'[b].at["server"] = conn[b].at["server"]
    BY <1>2, WireAssumption DEF LinkEnd
  <2> QED
    BY <2>1, BackendKeeps DEF Shape
<1>5. conn'[c].at["client"] = conn[c].at["client"] /\ backend' \in [BackendSlots -> BackendRec]
  BY <1>1, <1>2, HttpClientAssumption DEF Shape, Types
<1> QED
  BY <1>1, <1>3, <1>4, <1>5, SessionFrame

LEMMA SessionIs ==
    ASSUME Shape, NEW c \in Slots
    PROVE  /\ Types /\ SessionOK(c) /\ UpLines(c) \subseteq ReqMsgs /\ c \in Conns
           /\ UNCHANGED conn => ConnOK'
BY SessionType, ConnStays DEF Shape, Types

(* A session whose buffer starts anew.                                     *)
LEMMA InnerOK ==
    ASSUME NEW c \in Slots, NEW s, NEW buf \in Seq(Tokens), session'[c] = Inner(s, buf),
           conn'[c].at["server"] = "open"
    PROVE  SessionOK(c)'
<1> DEFINE x == Inner(s, buf)
<1>1. /\ x.buf = buf /\ x.todo = <<>> /\ x.sock = None /\ x.rbuf = <<>> /\ x.out = None
      /\ x.pc \in {"route", "close", "recv"}
      /\ x.pc = "route" => FirstIs(buf, x.req)
  BY InnerIs
<1>2. session'[c] = x
  OBVIOUS
<1> HIDE DEF x
<1>3. NoRepeat(<<>>)
  BY EmptySeq, LenProperties DEF NoRepeat
<1> QED
  BY <1>1, <1>2, <1>3 DEF SessionOK, Linked, Working, LinkedPcs, WorkingPcs

LEMMA EndedOK ==
    ASSUME NEW c \in Slots, session'[c] = EndedSession, conn'[c].at["server"] = "open"
    PROVE  SessionOK(c)'
<1>1. NoRepeat(<<>>)
  BY EmptySeq, LenProperties DEF NoRepeat
<1> QED
  BY <1>1, NoSessionType DEF SessionOK, Linked, Working, LinkedPcs, WorkingPcs

LEMMA SessionStepShape ==
    ASSUME Shape, NEW c \in Slots, UNCHANGED <<client, backend, done, raw>>, UpOnce(c),
           \/ acceptClients(c) \/ recv_client(c) \/ client_left(c) \/ get_candidates(c)
           \/ no_candidate_left(c) \/ relay(c) \/ relay_503(c) \/ close_client(c)
    PROVE  Shape'
<1> USE DEF SameRequest, LinkedPcs, WorkingPcs, Linked, Working
<1>1. /\ Types /\ SessionOK(c) /\ UpLines(c) \subseteq ReqMsgs /\ c \in Conns
      /\ UNCHANGED conn => ConnOK'
  BY SessionIs
<1>2. CASE acceptClients(c)
  <2>1. /\ SameRequest(c) /\ session[c].pc = "none" /\ session'[c].pc = "recv"
        /\ session'[c].todo = session[c].todo /\ session'[c].sock = session[c].sock
        /\ Accept(c)
    BY <1>2, AcceptClientsDoes
  <2>2. /\ ConnOK' /\ OthersSame(c) /\ conn'[c].to["server"] = conn[c].to["server"]
        /\ conn'[c].at["server"] = "open" /\ conn'[c].at["client"] = conn[c].at["client"]
    BY <1>1, <2>1, AcceptDoes DEF Types, SameTo
  <2>3. UpLines(c)' \subseteq UpLines(c)
    BY <2>1, <2>2, UpWorks
  <2>4. SessionOK(c)'
    BY <1>1, <2>1, <2>2 DEF SessionOK
  <2> QED
    BY <1>1, <2>1, <2>2, <2>3, <2>4, FrontFrame DEF ServerEnd
<1>3. CASE recv_client(c)
  <2>1. session[c].pc = "recv" /\ OnlySession(c)
    BY <1>3, RecvClientDoes
  <2>2. PICK n \in 1 .. Len(conn[c].to["server"]) :
            /\ ConnOK' /\ Took(c, "server", n)
            /\ session[c].buf \o Received(c, "server", n) \in Seq(Tokens)
            /\ session'[c] = Inner(session[c], session[c].buf \o Received(c, "server", n))
    BY <1>3, RecvClientDoes
  <2>3. session'[c].buf = session[c].buf \o Received(c, "server", n) /\ session'[c].sock = None
    <3> DEFINE buf == session[c].buf \o Received(c, "server", n)
    <3>1. buf \in Seq(Tokens) /\ session'[c] = Inner(session[c], buf)
      BY <2>2
    <3> HIDE DEF buf
    <3>2. session'[c].buf = buf /\ session'[c].sock = None
      BY <3>1, InnerIs
    <3> QED
      BY <3>2 DEF buf
  <2>4. UpLines(c)' \subseteq UpLines(c)
    BY <1>1, <2>1, <2>2, <2>3, UpAfterRecv
  <2>5. ServerEnd(c) /\ conn'[c].at["server"] = "open"
    BY <1>1, <2>1, <2>2 DEF Took, SameAt, ServerEnd, SessionOK
  <2>6. SessionOK(c)'
    BY <2>2, <2>5, InnerOK
  <2> QED
    BY <1>1, <2>1, <2>2, <2>3, <2>4, <2>5, <2>6, FrontFrame
<1>4. CASE client_left(c)
  <2>1. /\ SameRequest(c) /\ session[c].pc = "recv" /\ session'[c].pc = "close"
        /\ session'[c].todo = session[c].todo /\ session'[c].sock = session[c].sock
        /\ UNCHANGED conn
    BY <1>4, ClientLeftDoes
  <2>2. UpLines(c)' \subseteq UpLines(c)
    BY <2>1, UpStays
  <2>3. SessionOK(c)'
    BY <1>1, <2>1 DEF SessionOK
  <2> QED
    BY <1>1, <2>1, <2>2, <2>3, FrontFrame
<1>5. CASE get_candidates(c)
  <2>1. /\ SameRequest(c) /\ session[c].pc = "route"
        /\ session'[c].sock = session[c].sock
        /\ \/ /\ session'[c].pc = "close" /\ session'[c].todo = session[c].todo
              /\ \E m \in Msgs : ConnOK' /\ Wrote(c, "server", WholeOf(m))
           \/ /\ session'[c].pc = "connect" /\ UNCHANGED conn
              /\ NoRepeat(session'[c].todo)
    BY <1>5, GetCandidatesDoes
  <2>2. CASE /\ session'[c].pc = "close" /\ session'[c].todo = session[c].todo
             /\ \E m \in Msgs : ConnOK' /\ Wrote(c, "server", WholeOf(m))
    <3>1. ServerEnd(c) /\ conn'[c].at["server"] = conn[c].at["server"] /\ ConnOK'
          /\ conn'[c].to["server"] = conn[c].to["server"]
      BY <2>2 DEF Wrote, SameAt, ServerEnd
    <3>2. UpLines(c)' \subseteq UpLines(c)
      BY <2>1, <2>2, <3>1, UpStays
    <3>3. SessionOK(c)'
      BY <1>1, <2>1, <2>2, <3>1 DEF SessionOK
    <3> QED
      BY <1>1, <2>1, <3>1, <3>2, <3>3, FrontFrame
  <2>3. CASE /\ session'[c].pc = "connect" /\ UNCHANGED conn
             /\ NoRepeat(session'[c].todo)
    <3>1. UpLines(c)' \subseteq UpLines(c)
      BY <2>1, <2>3, UpWorks
    <3>2. SessionOK(c)'
      BY <1>1, <2>1, <2>3 DEF SessionOK
    <3> QED
      BY <1>1, <2>1, <2>3, <3>1, <3>2, FrontFrame
  <2> QED
    BY <2>1, <2>2, <2>3
<1>6. CASE no_candidate_left(c)
  <2>1. /\ SameRequest(c) /\ session[c].pc = "connect" /\ session'[c].pc = "reply"
        /\ session'[c].sock = session[c].sock /\ session'[c].todo = session[c].todo
        /\ UNCHANGED conn
    BY <1>6, NoCandidateDoes
  <2>2. UpLines(c)' \subseteq UpLines(c)
    BY <2>1, UpWorks
  <2>3. SessionOK(c)'
    BY <1>1, <2>1 DEF SessionOK
  <2> QED
    BY <1>1, <2>1, <2>2, <2>3, FrontFrame
<1>7. CASE relay(c) \/ relay_503(c)
  <2>1. /\ OnlySession(c) /\ session[c].pc = "reply"
        /\ session'[c] \in {Inner(session[c], RestOf(c)), EndedSession}
        /\ \E m \in Msgs : ConnOK' /\ Wrote(c, "server", WholeOf(m))
    BY <1>7, RelayDoes, Relay503Does
  <2>2. ServerEnd(c) /\ conn'[c].at["server"] = "open" /\ ConnOK'
        /\ conn'[c].to["server"] = conn[c].to["server"]
    BY <1>1, <2>1 DEF Wrote, SameAt, ServerEnd, SessionOK
  <2>3. RestOf(c) \in Seq(Tokens) /\ Working(c)
    BY <2>1, RestIs
  <2>4. SessionOK(c)'
    BY <2>1, <2>2, <2>3, InnerOK, EndedOK
  <2>5. session'[c].sock = None /\ (session'[c].pc = "close" \/ session'[c].buf = RestOf(c))
    BY <2>1, <2>3, InnerIs, NoSessionType
  <2>6. UpLines(c)' \subseteq UpLines(c)
    BY <2>2, <2>3, <2>5, UpAfterErase
  <2> QED
    BY <1>1, <2>1, <2>2, <2>4, <2>5, <2>6, FrontFrame
<1>8. CASE close_client(c)
  <2>1. /\ OnlySession(c) /\ session'[c] = NoSession
        /\ ConnOK' /\ ClosedEnd(c, "server")
    BY <1>8, CloseClientDoes
  <2>2. ServerEnd(c) /\ conn'[c].at["server"] = "closed" /\ conn'[c].to["server"] = <<>>
    BY <2>1 DEF ClosedEnd, ServerEnd, Other
  <2>3. UpLines(c)' = {}
    BY <2>1, <2>2, NoSessionType, EmptyLines DEF UpLines
  <2>4. NoRepeat(<<>>)
    BY EmptySeq, LenProperties DEF NoRepeat
  <2>5. SessionOK(c)'
    BY <2>1, <2>2, <2>4, NoSessionType DEF SessionOK
  <2> QED
    BY <2>1, <2>2, <2>3, <2>5, NoSessionType, FrontFrame
<1> QED
  BY <1>2, <1>3, <1>4, <1>5, <1>6, <1>7, <1>8

LEMMA LinkStepShape ==
    ASSUME Shape, NEW c \in Slots, UNCHANGED <<client, backend, done, raw>>,
           \/ send_request(c) \/ recv_backend(c) \/ backend_left(c)
           \/ take_response(c) \/ next_candidate(c)
    PROVE  Shape'
<1> USE DEF SameRequest, LinkedPcs, WorkingPcs, Linked, Working
<1> DEFINE b == session[c].sock
<1>1. /\ Types /\ SessionOK(c) /\ UpLines(c) \subseteq ReqMsgs /\ c \in Conns
      /\ UNCHANGED conn => ConnOK'
  BY SessionIs
<1>2. Linked(c) => b \in Conns /\ b \notin Slots /\ b # None /\ c # b
  BY LinkedSock
<1>3. ASSUME LinkEnd(b), SameRequest(c), Linked(c)
      PROVE  /\ UpLines(c)' \subseteq ReqMsgs
             /\ conn'[c] = conn[c]
  <2>1. conn'[c] = conn[c]
    BY <1>1, <1>2, <1>3 DEF LinkEnd, OthersSame
  <2>2. session[c].pc # "close"
    BY <1>3
  <2>3. UpLines(c)' \subseteq UpLines(c)
    BY <1>3, <2>1, <2>2, UpWorks
  <2> QED
    BY <1>1, <2>1, <2>3
<1>4. CASE send_request(c)
  <2>1. /\ SameRequest(c) /\ session[c].pc = "send" /\ session'[c].pc = "wait"
        /\ session'[c].todo = session[c].todo /\ session'[c].sock = b
        /\ \E m \in Msgs : ConnOK' /\ Wrote(b, "client", WholeOf(m))
    BY <1>4, SendRequestDoes
  <2>2. LinkEnd(b) /\ ConnOK' /\ SameAt(b)
    BY <2>1 DEF Wrote, SameAt, LinkEnd
  <2>3. SessionOK(c)'
    BY <1>1, <1>3, <2>1, <2>2 DEF SessionOK, SameAt
  <2> QED
    BY <1>3, <2>1, <2>2, <2>3, BackFrame
<1>5. CASE recv_backend(c)
  <2>1. /\ SameRequest(c) /\ session[c].pc = "wait" /\ session'[c].pc \in {"wait", "answered"}
        /\ session'[c].todo = session[c].todo /\ session'[c].sock = b
        /\ session'[c].pc = "answered" =>
              1 \in DOMAIN session'[c].rbuf /\ IsLine(session'[c].rbuf, 1)
        /\ \E n \in 1 .. Len(conn[b].to["client"]) : ConnOK' /\ Took(b, "client", n)
    BY <1>5, RecvBackendDoes
  <2>2. LinkEnd(b) /\ ConnOK' /\ SameAt(b)
    BY <2>1 DEF Took, SameAt, LinkEnd
  <2>3. SessionOK(c)'
    BY <1>1, <1>3, <2>1, <2>2 DEF SessionOK, SameAt
  <2> QED
    BY <1>3, <2>1, <2>2, <2>3, BackFrame
<1>6. CASE backend_left(c)
  <2>1. /\ SameRequest(c) /\ session[c].pc = "wait" /\ session'[c].pc = "failed"
        /\ session'[c].todo = session[c].todo /\ session'[c].sock = b
        /\ UNCHANGED conn
    BY <1>6, BackendLeftDoes
  <2>2. LinkEnd(b) /\ ConnOK' /\ SameAt(b)
    BY <1>1, <2>1 DEF OthersSame, SameAt, LinkEnd
  <2>3. SessionOK(c)'
    BY <1>1, <1>3, <2>1, <2>2 DEF SessionOK, SameAt
  <2> QED
    BY <1>3, <2>1, <2>2, <2>3, BackFrame
<1>7. CASE take_response(c) \/ next_candidate(c)
  <2>1. /\ SameRequest(c) /\ session[c].pc \in {"answered", "failed"}
        /\ session'[c].pc \in {"connect", "reply"}
        /\ session'[c].sock = None /\ session'[c].todo = Tail(session[c].todo)
        /\ ConnOK' /\ ClosedEnd(b, "client")
    BY <1>7, TakeResponseDoes, NextCandidateDoes
  <2>2. LinkEnd(b)
    BY <2>1 DEF ClosedEnd, LinkEnd, Other
  <2>3. NoRepeat(Tail(session[c].todo))
    BY <1>1, <2>1, SessionType, TailOf DEF SessionOK
  <2>4. SessionOK(c)'
    BY <1>1, <1>3, <2>1, <2>2, <2>3 DEF SessionOK
  <2> QED
    BY <1>3, <2>1, <2>2, <2>4, BackFrame
<1> QED
  BY <1>4, <1>5, <1>6, <1>7

LEMMA ConnectBackendShape ==
    ASSUME Shape, NEW c \in Slots, UNCHANGED <<client, done, raw>>, connectToBackend(c)
    PROVE  Shape'
<1> USE DEF SameRequest, LinkedPcs, WorkingPcs, Linked, Working
<1>1. /\ Types /\ SessionOK(c) /\ UpLines(c) \subseteq ReqMsgs /\ c \in Conns
      /\ UNCHANGED conn => ConnOK'
  BY SessionIs
<1>2. /\ SameRequest(c) /\ session[c].pc = "connect" /\ session'[c].out = session[c].out
      /\ session[c].todo # <<>> /\ session[c].sock = None
      /\ \/ \E b \in BackendSlots :
               /\ Connect(b, BackendSlots)
               /\ backend' = [backend EXCEPT ![b] =
                      [NoBackend EXCEPT !.node = Head(session[c].todo)]]
               /\ session'[c].pc = "send" /\ session'[c].sock = b
               /\ session'[c].todo = session[c].todo
         \/ /\ session'[c].pc = "connect" /\ session'[c].todo = Tail(session[c].todo)
            /\ session'[c].sock = session[c].sock
            /\ UNCHANGED <<conn, backend>>
  BY ConnectBackendDoes
<1>3. /\ Head(session[c].todo) \in Nodes /\ NoRepeat(Tail(session[c].todo))
  BY <1>1, <1>2, SessionType, TailOf DEF SessionOK
<1>4. ASSUME NEW b \in BackendSlots, Connect(b, BackendSlots),
             backend' = [backend EXCEPT ![b] = [NoBackend EXCEPT !.node = Head(session[c].todo)]],
             session'[c].pc = "send", session'[c].sock = b, session'[c].todo = session[c].todo
      PROVE  Shape'
  <2>1. b \in Conns /\ b \notin Slots /\ b # None /\ BackendSlots \in SUBSET Conns
    BY WireAssumption
  <2>2. /\ ConnOK' /\ OthersSame(b)
        /\ conn[b].at["client"] = "closed" /\ conn[b].at["server"] = "closed"
        /\ conn'[b].at["client"] = "open" /\ conn'[b].at["server"] = "backlog"
    BY <1>1, <1>4, <2>1, ConnectDoes DEF Types
  <2>3. \A d \in Conns \ {b} : conn'[d] = conn[d]
    BY <2>2 DEF OthersSame
  <2>4. conn'[c] = conn[c]
    BY <1>1, <2>1, <2>3
  <2> DEFINE x == [NoBackend EXCEPT !.node = Head(session[c].todo)]
  <2>5. x \in BackendRec /\ x.node = Head(session[c].todo) /\ x.pc = "read" /\ x.node # None
    BY <1>3, NoBackendType, WireAssumption
  <2> HIDE DEF x
  <2>6. /\ backend' \in [BackendSlots -> BackendRec] /\ backend'[b] = x
        /\ \A d \in BackendSlots \ {b} : backend'[d] = backend[d]
    BY <1>1, <1>4, <2>5 DEF Types, x
  <2>7. \A d \in BackendSlots : BackendOK(d)'
    <3>1. BackendOK(b)'
      BY <2>2, <2>5, <2>6 DEF BackendOK
    <3>2. ASSUME NEW d \in BackendSlots \ {b} PROVE BackendOK(d)'
      <4>1. conn'[d] = conn[d]
        BY <2>3, WireAssumption
      <4> QED
        BY <2>6, <4>1, BackendKeeps DEF Shape
    <3> QED
      BY <3>1, <3>2
  <2>8. \A d \in Slots : session[d].sock # b
    <3>1. ASSUME NEW d \in Slots, session[d].sock = b PROVE FALSE
      <4>1. Linked(d)
        BY <2>1, <3>1 DEF Shape, SessionOK
      <4> QED
        BY <2>2, <3>1, <4>1, LinkedSock
    <3> QED
      BY <3>1
  <2>9. \A d \in Slots \ {c} :
          /\ conn'[d] = conn[d]
          /\ Linked(d) =>
               /\ conn'[session[d].sock].at["client"] = conn[session[d].sock].at["client"]
               /\ backend'[session[d].sock].node = backend[session[d].sock].node
    BY <2>1, <2>3, <2>6, <2>8, HttpClientAssumption, LinkedSock
  <2>10. UpLines(c)' \subseteq ReqMsgs
    BY <1>1, <1>2, <2>4, UpWorks
  <2>11. SessionOK(c)'
    BY <1>1, <1>2, <1>4, <2>1, <2>2, <2>4, <2>5, <2>6 DEF SessionOK
  <2> QED
    BY <1>2, <1>4, <2>2, <2>4, <2>6, <2>7, <2>8, <2>9, <2>10, <2>11, SessionFrame
<1>5. CASE /\ session'[c].pc = "connect" /\ session'[c].todo = Tail(session[c].todo)
           /\ session'[c].sock = session[c].sock
           /\ UNCHANGED <<conn, backend>>
  <2>1. UpLines(c)' \subseteq UpLines(c)
    BY <1>2, <1>5, UpWorks
  <2>2. SessionOK(c)'
    BY <1>1, <1>2, <1>3, <1>5 DEF SessionOK
  <2> QED
    BY <1>1, <1>2, <1>5, <2>1, <2>2, FrontFrame
<1> QED
  BY <1>2, <1>4, <1>5

(* What a backend does shows at its own end of its connection only.        *)
LEMMA BackendFrame ==
    ASSUME Shape, NEW b \in BackendSlots, OnlyBackend(b), UNCHANGED <<client, session, raw>>,
           ConnOK', UNCHANGED conn \/ ServerEnd(b),
           backend'[b].node \in {None, backend[b].node}, BackendOK(b)',
           done' \in [Nodes -> Seq([id : Ids, kind : Codes])]
    PROVE  Shape'
<1>1. \A d \in Conns \ {b} : conn'[d] = conn[d]
  BY DEF ServerEnd, OthersSame
<1>2. \A d \in Conns : conn'[d].at["client"] = conn[d].at["client"]
  BY <1>1 DEF ServerEnd
<1>3. \A c \in Slots : conn'[c] = conn[c] /\ c \in Conns
  BY <1>1, WireAssumption, HttpClientAssumption
<1>4. \A d \in BackendSlots : backend'[d].node \in {None, backend[d].node}
  BY DEF OnlyBackend
<1>5. Types'
  BY DEF Shape, Types, OnlyBackend
<1>6. \A k \in Clients : ClientOK(k)'
  <2>1. ASSUME NEW k \in Clients PROVE ClientOK(k)'
    <3>1. client[k].sock # None => client[k].sock \in Slots
      BY ClientType DEF Shape
    <3>2. client[k].sock # None =>
              conn'[client[k].sock].at["client"] = conn[client[k].sock].at["client"]
      BY <1>3, <3>1
    <3> QED
      BY <3>2, ClientKeeps DEF Shape
  <2> QED
    BY <2>1
<1>7. \A c \in Slots : SessionOK(c)' /\ UpLines(c)' \subseteq ReqMsgs
  <2>1. ASSUME NEW c \in Slots PROVE SessionOK(c)' /\ UpLines(c)' \subseteq ReqMsgs
    <3>1. SessionOK(c) /\ UpLines(c) \subseteq ReqMsgs /\ conn'[c] = conn[c]
      BY <1>3 DEF Shape
    <3>2. Linked(c) => session[c].sock \in BackendSlots /\ session[c].sock \in Conns
      BY LinkedSock
    <3>3. Linked(c) =>
            /\ conn'[session[c].sock].at["client"] = conn[session[c].sock].at["client"]
            /\ backend'[session[c].sock].node \in {None, backend[session[c].sock].node}
      BY <1>2, <1>4, <3>2
    <3>4. SessionOK(c)'
      BY <3>1, <3>3, SessionKeeps
    <3>5. UpLines(c)' \subseteq UpLines(c)
      BY <3>1, UpStays
    <3> QED
      BY <3>1, <3>4, <3>5
  <2> QED
    BY <2>1
<1>8. \A d \in BackendSlots : BackendOK(d)'
  <2>1. ASSUME NEW d \in BackendSlots \ {b} PROVE BackendOK(d)'
    <3>1. conn'[d] = conn[d] /\ backend'[d] = backend[d]
      BY <1>1, WireAssumption DEF OnlyBackend
    <3> QED
      BY <3>1, BackendKeeps DEF Shape
  <2> QED
    BY <2>1
<1>9. OneOwner' /\ OneRegime'
  BY DEF Shape, OneOwner, OneRegime
<1> QED
  BY <1>5, <1>6, <1>7, <1>8, <1>9 DEF Shape

LEMMA DoneType ==
    ASSUME Types, NEW n \in Nodes, NEW x \in [id : Ids, kind : Codes],
           done' = [done EXCEPT ![n] = Append(@, x)]
    PROVE  /\ done' \in [Nodes -> Seq([id : Ids, kind : Codes])]
           /\ \A m \in Nodes \ {n} : done'[m] = done[m]
           /\ done[n] \in Seq([id : Ids, kind : Codes]) /\ done'[n] = Append(done[n], x)
<1>1. done \in [Nodes -> Seq([id : Ids, kind : Codes])]
  BY DEF Types
<1>2. Append(done[n], x) \in Seq([id : Ids, kind : Codes])
  BY <1>1, AppendProperties
<1> QED
  BY <1>1, <1>2

LEMMA BackendStepShape ==
    ASSUME Shape, NEW b \in BackendSlots, UNCHANGED <<client, session, raw>>,
           BackendStep(b) \/ backend_dies(b)
    PROVE  Shape'
<1>1. /\ Types /\ BackendOK(b) /\ b \in Conns
      /\ UNCHANGED conn => ConnOK'
  BY BackendType, ConnStays DEF Shape, Types
<1>2. UNCHANGED done => done' \in [Nodes -> Seq([id : Ids, kind : Codes])]
  BY <1>1 DEF Types
<1>3. CASE serve_read(b)
  <2>1. /\ OnlyBackend(b) /\ backend[b].node # None
        /\ backend'[b].pc = "run" /\ backend'[b].node = backend[b].node
        /\ backend'[b].req \in Msgs
        /\ ConnOK' /\ OthersSame(b)
        /\ conn'[b].at["server"] = "open" /\ conn'[b].at["client"] = conn[b].at["client"]
    BY <1>3, ServeReadDoes
  <2>2. BackendOK(b)'
    BY <2>1 DEF BackendOK
  <2>3. UNCHANGED done
    BY <1>3 DEF serve_read
  <2> QED
    BY <1>2, <2>1, <2>2, <2>3, BackendFrame DEF ServerEnd
<1>4. CASE serve_run(b)
  <2> DEFINE n == backend[b].node
  <2>1. /\ OnlyBackend(b) /\ n \in Nodes
        /\ backend'[b].pc = "write" /\ backend'[b].node = n
        /\ UNCHANGED conn
        /\ \E code \in Codes :
              /\ backend'[b].res \in Msgs
              /\ [id |-> backend[b].req.id, kind |-> code] \in [id : Ids, kind : Codes]
              /\ done' = [done EXCEPT ![n] =
                     Append(@, [id |-> backend[b].req.id, kind |-> code])]
    BY <1>4, ServeRunDoes
  <2>2. done' \in [Nodes -> Seq([id : Ids, kind : Codes])]
    BY <1>1, <2>1, DoneType
  <2>3. BackendOK(b)'
    BY <1>1, <2>1, WireAssumption DEF BackendOK
  <2> QED
    BY <1>1, <2>1, <2>2, <2>3, BackendFrame
<1>5. CASE serve_write(b)
  <2>1. /\ OnlyBackend(b) /\ backend[b].node # None
        /\ backend'[b].pc = "read" /\ backend'[b].node = backend[b].node
        /\ ConnOK' /\ Wrote(b, "server", WholeOf(backend[b].res))
    BY <1>5, ServeWriteDoes
  <2>2. ServerEnd(b) /\ conn'[b].at["server"] = conn[b].at["server"]
    BY <2>1 DEF Wrote, SameAt, ServerEnd
  <2>3. BackendOK(b)'
    BY <1>1, <2>1, <2>2 DEF BackendOK
  <2>4. UNCHANGED done
    BY <1>5 DEF serve_write
  <2> QED
    BY <1>2, <2>1, <2>2, <2>3, <2>4, BackendFrame
<1>6. CASE serve_end(b) \/ backend_dies(b)
  <2>1. /\ OnlyBackend(b) /\ backend'[b] = NoBackend
        /\ ConnOK' /\ ClosedEnd(b, "server")
    BY <1>6, BackendEndDoes
  <2>2. ServerEnd(b) /\ conn'[b].at["server"] = "closed"
    BY <2>1 DEF ClosedEnd, ServerEnd, Other
  <2>3. BackendOK(b)'
    BY <2>1, <2>2, NoBackendType DEF BackendOK
  <2>4. UNCHANGED done
    BY <1>6 DEF serve_end, backend_dies
  <2> QED
    BY <1>2, <2>1, <2>2, <2>3, <2>4, NoBackendType, BackendFrame
<1> QED
  BY <1>3, <1>4, <1>5, <1>6 DEF BackendStep

(* The client that does not wait has its connection to itself.             *)
LEMMA RawFrame ==
    ASSUME Shape, ConnOK', UNCHANGED <<client, session, backend, done>>, raw' \in RawRec,
           raw.pc # "absent", raw'.pc # "absent",
           ClientEnd(RawConn), UpLines(RawConn)' \subseteq ReqMsgs
    PROVE  Shape'
<1>1. \A d \in Conns \ {RawConn} : conn'[d] = conn[d]
  BY DEF ClientEnd, OthersSame
<1>2. RawConn \in Slots /\ RawConn \in Conns
  BY RawConnType
<1>3. Types'
  BY DEF Shape, Types
<1>4. \A k \in Clients : client[k].sock = None /\ ClientOK(k)'
  <2>1. ASSUME NEW k \in Clients PROVE client[k].sock = None /\ ClientOK(k)'
    <3>1. client[k].sock = None
      BY DEF Shape, OneRegime
    <3> QED
      BY <3>1, ClientKeeps DEF Shape
  <2> QED
    BY <2>1
<1>5. \A c \in Slots : SessionOK(c)' /\ UpLines(c)' \subseteq ReqMsgs
  <2>1. ASSUME NEW c \in Slots PROVE SessionOK(c)' /\ UpLines(c)' \subseteq ReqMsgs
    <3>1. SessionOK(c) /\ UpLines(c) \subseteq ReqMsgs /\ c \in Conns
      BY HttpClientAssumption DEF Shape
    <3>2. conn'[c].at["server"] = "open" <=> conn[c].at["server"] = "open"
      BY <1>1, <3>1 DEF ClientEnd
    <3>3. Linked(c) =>
            /\ session[c].sock \in Conns /\ session[c].sock \notin Slots
            /\ session[c].sock \in BackendSlots
      BY LinkedSock
    <3>4. Linked(c) =>
            /\ conn'[session[c].sock].at["client"] = conn[session[c].sock].at["client"]
            /\ backend'[session[c].sock].node \in {None, backend[session[c].sock].node}
      BY <1>1, <1>2, <3>3
    <3>5. SessionOK(c)'
      BY <3>1, <3>2, <3>4, SessionKeeps
    <3>6. c # RawConn => UpLines(c)' \subseteq UpLines(c)
      BY <1>1, <3>1, UpStays
    <3> QED
      BY <3>1, <3>5, <3>6
  <2> QED
    BY <2>1
<1>6. \A b \in BackendSlots : BackendOK(b)'
  <2>1. ASSUME NEW b \in BackendSlots PROVE BackendOK(b)'
    <3>1. conn'[b] = conn[b]
      BY <1>1, <1>2, WireAssumption
    <3> QED
      BY <3>1, BackendKeeps DEF Shape
  <2> QED
    BY <2>1
<1>7. OneOwner' /\ OneRegime'
  BY DEF Shape, OneOwner, OneRegime
<1> QED
  BY <1>3, <1>4, <1>5, <1>6, <1>7 DEF Shape

LEMMA RawStepShape ==
    ASSUME Shape, RawStep, UNCHANGED <<client, session, backend, done>>
    PROVE  Shape'
<1>1. /\ RawConn \in Slots /\ RawConn \in Conns /\ {RawConn} \in SUBSET Conns
      /\ Types /\ UpLines(RawConn) \subseteq ReqMsgs
  BY RawConnType DEF Shape
<1>2. CASE raw_connect
  <2>1. /\ raw' \in RawRec /\ raw.pc = "new" /\ raw'.pc = "open"
        /\ Connect(RawConn, {RawConn})
    BY <1>2, RawConnectDoes
  <2>2. ConnOK' /\ ClientEnd(RawConn) /\ UpLines(RawConn)' = {}
    BY <1>1, <2>1, ConnectClientEnd
  <2> QED
    BY <2>1, <2>2, RawFrame
<1>3. CASE raw_send
  <2>1. raw' \in RawRec /\ raw.pc = "open" /\ raw'.pc = "open"
    BY <1>3, RawSendDoes
  <2>2. PICK m \in ReqMsgs : ConnOK' /\ Wrote(RawConn, "client", WholeOf(m))
    BY <1>3, RawSendDoes
  <2>3. WholeOf(m) \in Seq(Tokens) /\ Lines(WholeOf(m)) \subseteq ReqMsgs
    BY WholeLines DEF WholeOf, Msgs
  <2>4. ClientEnd(RawConn) /\ UpLines(RawConn)' \subseteq ReqMsgs
    BY <1>1, <2>2, <2>3, WroteClientEnd
  <2> QED
    BY <2>1, <2>2, <2>4, RawFrame
<1>4. CASE raw_recv
  <2>1. raw' \in RawRec /\ raw.pc = "open" /\ raw'.pc = "open"
    BY <1>4, RawRecvDoes
  <2>2. PICK n \in 1 .. Len(conn[RawConn].to["client"]) : ConnOK' /\ Took(RawConn, "client", n)
    BY <1>4, RawRecvDoes
  <2>3. ClientEnd(RawConn) /\ UpLines(RawConn)' \subseteq ReqMsgs
    BY <1>1, <2>2, TookClientEnd
  <2> QED
    BY <2>1, <2>2, <2>3, RawFrame
<1>5. CASE raw_close
  <2>1. /\ raw' \in RawRec /\ raw.pc = "open" /\ raw'.pc = "closed"
        /\ ConnOK' /\ ClosedEnd(RawConn, "client")
    BY <1>5, RawCloseDoes
  <2>2. ClientEnd(RawConn) /\ UpLines(RawConn)' \subseteq ReqMsgs
    BY <1>1, <2>1, ClosedClientEnd
  <2> QED
    BY <2>1, <2>2, RawFrame
<1> QED
  BY <1>2, <1>3, <1>4, <1>5 DEF RawStep

(* What is on its way to the load balancer has been sent.                  *)
Launched == {"body", "read", "return", "idle"}

HasSent(k, j) ==
    j \in 1 .. client[k].n /\ (j < client[k].n \/ client[k].pc \in Launched)

IsIssued(id) ==
    \/ \E k \in Clients : \E j \in Nat : id = <<k, j>> /\ HasSent(k, j)
    \/ \E j \in 1 .. raw.sent : id = <<"raw", j>>

Asking(k) == client[k].pc \in {"body", "read", "return"}

Down(k) == client[k].buf \o conn[client[k].sock].to["client"]

(* A client has at most one request on its connection or the answer to it. *)
Exchange(k) ==
    client[k].sock # None =>
        /\ UpIds(client[k].sock) \union IdsOf(Down(k))
               \subseteq IF Asking(k) THEN {client[k].req.id} ELSE {}
        /\ UpIds(client[k].sock) = {} \/ IdsOf(Down(k)) = {}
        /\ Once(Down(k))

OwnSession(k) ==
    \A c \in Slots :
        client[k].pc \in {"body", "read"} /\ client[k].req.id \in UpIds(c) => c = client[k].sock

AnsweredIsGone(k) ==
    client[k].n > 0 /\ client[k].pc \in {"return", "idle"} /\ client[k].err = "Success" =>
        /\ client[k].res.id = client[k].req.id
        /\ \A c \in Slots : client[k].req.id \notin UpIds(c)

OneSession == \A c, d \in Slots : UpIds(c) \intersect UpIds(d) # {} => c = d

UpInv ==
    /\ \A c \in Slots : UpOnce(c) /\ \A id \in UpIds(c) : IsIssued(id)
    /\ OneSession
    /\ \A k \in Clients : Exchange(k) /\ OwnSession(k) /\ AnsweredIsGone(k)

(* Steps that send no request, and those that send one.                    *)
Older(c) == UpIds(c)' \subseteq UpIds(c) /\ (UpOnce(c) => UpOnce(c)')

NoFresh == \A c \in Slots : Older(c)

FreshAt(s, id) ==
    /\ \A c \in Slots \ {s} : Older(c)
    /\ UpIds(s)' \subseteq UpIds(s) \union {id}
    /\ UpOnce(s) /\ id \notin UpIds(s) => UpOnce(s)'

Onwards ==
    /\ \A k \in Clients :
          /\ client'[k].n \in {client[k].n, client[k].n + 1}
          /\ client'[k].n = client[k].n /\ client[k].pc \in Launched => client'[k].pc \in Launched
    /\ raw'.sent \in {raw.sent, raw.sent + 1}

LEMMA IssuedStays ==
    ASSUME Types, Onwards, NEW id, IsIssued(id)
    PROVE  IsIssued(id)'
<1>1. raw.sent \in Nat /\ \A k \in Clients : client[k].n \in Nat
  BY DEF Types, ClientRec, RawRec
<1>2. CASE \E k \in Clients : \E j \in Nat : id = <<k, j>> /\ HasSent(k, j)
  <2>1. PICK k \in Clients, j \in Nat : id = <<k, j>> /\ HasSent(k, j)
    BY <1>2
  <2>2. HasSent(k, j)'
    <3>1. j \in 1 .. client[k].n /\ (j < client[k].n \/ client[k].pc \in Launched)
      BY <2>1 DEF HasSent
    <3>2. /\ client'[k].n \in {client[k].n, client[k].n + 1}
          /\ client'[k].n = client[k].n /\ client[k].pc \in Launched => client'[k].pc \in Launched
      BY DEF Onwards
    <3> DEFINE n == client[k].n
               m == client'[k].n
    <3>3. n \in Nat /\ m \in {n, n + 1} /\ j \in 1 .. n /\ j \in Nat
      BY <1>1, <3>1, <3>2
    <3>4. j \in 1 .. m /\ (m # n => j < m)
      <4> HIDE DEF n, m
      <4> QED
        BY <3>3
    <3> QED
      BY <3>1, <3>2, <3>4 DEF HasSent
  <2> QED
    BY <2>1, <2>2 DEF IsIssued
<1>3. CASE \E j \in 1 .. raw.sent : id = <<"raw", j>>
  BY <1>1, <1>3 DEF IsIssued, Onwards
<1> QED
  BY <1>2, <1>3 DEF IsIssued

LEMMA AsBefore ==
    ASSUME Types, UpInv, NoFresh, Onwards
    PROVE  /\ \A c \in Slots : UpOnce(c)' /\ \A id \in UpIds(c)' : IsIssued(id)'
           /\ OneSession'
<1>1. \A c \in Slots : UpOnce(c)' /\ \A id \in UpIds(c)' : IsIssued(id)'
  BY IssuedStays DEF UpInv, NoFresh, Older
<1> QED
  BY <1>1 DEF UpInv, NoFresh, Older, OneSession

LEMMA AfterFresh ==
    ASSUME Types, UpInv, Onwards, NEW s \in Slots, NEW id, FreshAt(s, id),
           ~IsIssued(id), IsIssued(id)'
    PROVE  /\ \A c \in Slots : id \notin UpIds(c)
           /\ \A c \in Slots : UpOnce(c)' /\ \A x \in UpIds(c)' : IsIssued(x)'
           /\ OneSession'
<1>1. \A c \in Slots : id \notin UpIds(c)
  BY DEF UpInv
<1>2. \A c \in Slots : UpOnce(c)' /\ \A x \in UpIds(c)' : IsIssued(x)'
  BY <1>1, IssuedStays DEF UpInv, FreshAt, Older
<1>3. \A c \in Slots : UpIds(c)' \subseteq UpIds(c) \union (IF c = s THEN {id} ELSE {})
  BY DEF FreshAt, Older
<1>4. OneSession'
  BY <1>1, <1>3 DEF UpInv, OneSession
<1> QED
  BY <1>1, <1>2, <1>4

LEMMA ExchangeKeeps ==
    ASSUME NEW k \in Clients, Exchange(k), client'[k].sock = client[k].sock,
           Down(k)' = Down(k), UpIds(client[k].sock)' \subseteq UpIds(client[k].sock),
           Asking(k) => Asking(k)' /\ client'[k].req = client[k].req
    PROVE  Exchange(k)'
BY DEF Exchange

(* The clients that a step is not of.                                      *)
LEMMA OthersKeep ==
    ASSUME Shape, UpInv, NEW l \in Clients, client'[l] = client[l],
           client[l].sock # None =>
               /\ conn'[client[l].sock].to["client"] = conn[client[l].sock].to["client"]
               /\ UpIds(client[l].sock)' \subseteq UpIds(client[l].sock),
           \A c \in Slots : \A id \in UpIds(c)' :
               id \in UpIds(c) \/ (client[l].n > 0 => id # client[l].req.id)
    PROVE  Exchange(l)' /\ OwnSession(l)' /\ AnsweredIsGone(l)'
<1>1. Exchange(l) /\ OwnSession(l) /\ AnsweredIsGone(l)
  BY DEF UpInv
<1>2. Exchange(l)'
  <2>1. CASE client[l].sock = None
    BY <2>1 DEF Exchange
  <2>2. CASE client[l].sock # None
    <3>1. Down(l)' = Down(l)
      BY <2>2 DEF Down
    <3>2. UpIds(client[l].sock)' \subseteq UpIds(client[l].sock)
      BY <2>2
    <3>3. Asking(l) => Asking(l)'
      BY DEF Asking
    <3> QED
      BY <1>1, <3>1, <3>2, <3>3, ExchangeKeeps
  <2> QED
    BY <2>1, <2>2
<1>3. client[l].pc \in {"body", "read"} => client[l].n > 0
  BY DEF Shape, ClientOK
<1>4. OwnSession(l)'
  BY <1>1, <1>3 DEF OwnSession
<1>5. AnsweredIsGone(l)'
  BY <1>1 DEF AnsweredIsGone
<1> QED
  BY <1>2, <1>4, <1>5

LEMMA UpOthers ==
    ASSUME NEW s, OthersSame(s), NEW c \in Slots \ {s}, session'[c] = session[c]
    PROVE  Older(c)
BY UpStays, HttpClientAssumption DEF OthersSame, Older

LEMMA UpQuiet ==
    ASSUME UNCHANGED <<conn, session>>
    PROVE  NoFresh
<1>1. \A c \in Slots : Older(c)
  BY UpStays DEF Older
<1> QED
  BY <1>1 DEF NoFresh

LEMMA ClientOnwards ==
    ASSUME Shape, NEW k \in Clients, OnlyClient(k), raw'.sent = raw.sent,
           client'[k].n \in {client[k].n, client[k].n + 1},
           client'[k].n = client[k].n /\ client[k].pc \in Launched => client'[k].pc \in Launched
    PROVE  Onwards
BY DEF Onwards, OnlyClient

(* A step that sends no request.                                           *)
UpKept == UpInv' /\ Onwards /\ NoFresh

(* What a client gets by a step other than write_head.                     *)
LEMMA ClientUpFrame ==
    ASSUME Shape, UpInv, NEW k \in Clients, OnlyClient(k), UNCHANGED <<session, raw>>,
           Onwards, NoFresh,
           \A l \in Clients \ {k} : client[l].sock # None =>
               conn'[client[l].sock].to["client"] = conn[client[l].sock].to["client"],
           Exchange(k)', OwnSession(k)', AnsweredIsGone(k)'
    PROVE  UpKept
<1>1. /\ \A c \in Slots : UpOnce(c)' /\ \A id \in UpIds(c)' : IsIssued(id)'
      /\ OneSession'
  BY AsBefore DEF Shape
<1>2. ASSUME NEW l \in Clients \ {k}
      PROVE  Exchange(l)' /\ OwnSession(l)' /\ AnsweredIsGone(l)'
  <2>1. client'[l] = client[l]
    BY DEF OnlyClient
  <2>2. client[l].sock # None =>
            /\ conn'[client[l].sock].to["client"] = conn[client[l].sock].to["client"]
            /\ UpIds(client[l].sock)' \subseteq UpIds(client[l].sock)
    BY <2>1, OwnSocket DEF NoFresh, Older
  <2>3. \A c \in Slots : \A id \in UpIds(c)' : id \in UpIds(c)
    BY DEF NoFresh, Older
  <2> QED
    BY <2>1, <2>2, <2>3, OthersKeep
<1> QED
  BY <1>1, <1>2 DEF UpInv, UpKept

LEMMA OthersHear ==
    ASSUME Shape, NEW k \in Clients, NEW s \in Conns, OthersSame(s),
           \A l \in Clients \ {k} : client[l].sock # s
    PROVE  \A l \in Clients \ {k} : client[l].sock # None =>
               conn'[client[l].sock].to["client"] = conn[client[l].sock].to["client"]
<1>1. ASSUME NEW l \in Clients \ {k}, client[l].sock # None
      PROVE  client[l].sock \in Conns
  BY <1>1, OwnSocket
<1> QED
  BY <1>1 DEF OthersSame

LEMMA NoFreshAt ==
    ASSUME NEW s, OthersSame(s), UNCHANGED session, Older(s)
    PROVE  NoFresh
BY UpOthers DEF NoFresh

(* The connection is not touched, or closed.                               *)
LEMMA CallUp ==
    ASSUME Shape, UpInv, NEW k \in Clients, NEW r \in Requests[k], Call(k, r),
           UNCHANGED <<session, raw>>
    PROVE  UpKept
<1>1. /\ OnlyClient(k) /\ UNCHANGED conn /\ client[k].pc = "idle"
      /\ client'[k].n = client[k].n + 1 /\ client'[k].sock = client[k].sock
      /\ client'[k].buf = <<>>
      /\ client'[k].pc \in {"connect", "send"}
  BY CallDoes DEF Shape
<1>2. NoFresh
  BY <1>1, UpQuiet
<1>3. client[k].n \in Nat /\ client[k].n + 1 # client[k].n
  BY ClientType DEF Shape, ClientRec
<1>4. Onwards
  BY <1>1, <1>3, ClientOnwards
<1>5. Exchange(k)'
  <2>1. client[k].buf = <<>> /\ Exchange(k)
    BY <1>1 DEF Shape, ClientOK, UpInv
  <2>2. Down(k)' = Down(k)
    BY <1>1, <2>1 DEF Down
  <2>3. UpIds(client[k].sock)' \subseteq UpIds(client[k].sock)
    <3>1. client[k].sock # None => client[k].sock \in Slots
      BY OwnSocket
    <3> QED
      BY <1>1, <1>2, <3>1, UpStays DEF NoFresh, Older
  <2> QED
    BY <1>1, <2>1, <2>2, <2>3, ExchangeKeeps DEF Asking
<1>6. OwnSession(k)' /\ AnsweredIsGone(k)'
  BY <1>1 DEF OwnSession, AnsweredIsGone
<1> QED
  BY <1>1, <1>2, <1>4, <1>5, <1>6, ClientUpFrame

LEMMA FailUp ==
    ASSUME Shape, UpInv, NEW k \in Clients, OnlyClient(k), UNCHANGED <<conn, session, raw>>,
           client[k].pc \in {"connect", "read"}, client'[k].pc = "return",
           client'[k].err # "Success", client'[k].n = client[k].n,
           client'[k].req = client[k].req,
           client'[k].sock = client[k].sock, client'[k].buf = client[k].buf
    PROVE  UpKept
<1>1. NoFresh
  BY UpQuiet
<1>2. Onwards
  BY ClientOnwards DEF Launched
<1>3. Exchange(k)'
  <2>1. Down(k)' = Down(k) /\ Exchange(k)
    BY DEF Down, UpInv
  <2>2. UpIds(client[k].sock)' \subseteq UpIds(client[k].sock)
    BY UpStays
  <2> QED
    BY <2>1, <2>2, ExchangeKeeps DEF Asking
<1>4. OwnSession(k)' /\ AnsweredIsGone(k)'
  BY DEF OwnSession, AnsweredIsGone
<1> QED
  BY <1>1, <1>2, <1>3, <1>4, ClientUpFrame

LEMMA SendUp ==
    ASSUME Shape, UpInv, NEW k \in Clients, send_(k), UNCHANGED <<session, raw>>
    PROVE  UpKept
<1>1. /\ SameCall(k) /\ client[k].pc = "send" /\ client'[k].buf = client[k].buf
      /\ \/ client'[k].pc = "head" /\ client'[k].sock = client[k].sock /\ UNCHANGED conn
         \/ /\ client'[k].pc = "connect" /\ client'[k].sock = None
            /\ ConnOK' /\ ClosedEnd(client[k].sock, "client")
  BY SendDoes
<1>2. OnlyClient(k) /\ Types /\ Exchange(k)
  BY <1>1 DEF SameCall, Shape, UpInv
<1>3. Onwards
  BY <1>1, <1>2, ClientOnwards DEF SameCall, Launched
<1>4. OwnSession(k)' /\ AnsweredIsGone(k)'
  BY <1>1 DEF OwnSession, AnsweredIsGone
<1>5. CASE client'[k].pc = "head" /\ client'[k].sock = client[k].sock /\ UNCHANGED conn
  <2>1. Down(k)' = Down(k)
    BY <1>1, <1>5 DEF Down
  <2>2. UpIds(client[k].sock)' \subseteq UpIds(client[k].sock)
    BY <1>5, UpStays
  <2>3. Exchange(k)'
    BY <1>1, <1>2, <1>5, <2>1, <2>2, ExchangeKeeps DEF Asking
  <2> QED
    BY <1>2, <1>3, <1>4, <1>5, <2>3, UpQuiet, ClientUpFrame
<1>6. CASE client'[k].sock = None /\ ClosedEnd(client[k].sock, "client")
  <2>0. PICK s : s = client[k].sock
    OBVIOUS
  <2> USE <2>0
  <2>1. s # None
    BY <1>1 DEF Shape, ClientOK
  <2>2. s \in Slots /\ s \in Conns /\ \A l \in Clients \ {k} : client[l].sock # s
    BY <2>1, OwnSocket
  <2>3. OthersSame(s)
    BY <1>6 DEF ClosedEnd
  <2>4. Older(s)
    <3>1. session'[s] = session[s] /\ ClosedEnd(s, "client")
      BY <1>6
    <3> QED
      BY <1>2, <2>2, <3>1, UpAfterClose DEF Older
  <2>5. NoFresh
    BY <2>3, <2>4, NoFreshAt
  <2>6. Exchange(k)'
    BY <1>6 DEF Exchange
  <2> QED
    BY <1>2, <1>3, <1>4, <2>2, <2>3, <2>5, <2>6, OthersHear, ClientUpFrame
<1> QED
  BY <1>1, <1>5, <1>6

LEMMA ConnectUp ==
    ASSUME Shape, UpInv, NEW k \in Clients, create_and_connect_socket(k, TRUE),
           UNCHANGED <<session, raw>>
    PROVE  UpKept
<1>1. /\ SameCall(k) /\ client[k].pc = "connect" /\ client'[k].buf = client[k].buf
      /\ \/ \E c \in Slots :
               /\ client'[k].pc = "head" /\ client'[k].sock = c
               /\ Connect(c, Slots)
         \/ /\ client'[k].pc = "return" /\ client'[k].err # "Success"
            /\ client'[k].sock = client[k].sock /\ UNCHANGED conn
  BY ConnectSocketDoes
<1>2. OnlyClient(k) /\ client[k].buf = <<>>
  BY <1>1 DEF SameCall, Shape, ClientOK
<1>3. ASSUME NEW c \in Slots, client'[k].pc = "head", client'[k].sock = c, Connect(c, Slots)
      PROVE  UpKept
  <2>1. Slots \in SUBSET Conns /\ c \in Conns /\ session'[c] = session[c]
    BY HttpClientAssumption
  <2>2. /\ UpIds(c)' = {} /\ conn[c].at["client"] = "closed" /\ conn'[c].to["client"] = <<>>
        /\ UpLines(c)' = {} /\ OthersSame(c) /\ conn'[c].to["server"] = <<>>
        /\ session[c].buf = <<>>
    BY <1>3, <2>1, ConnectClientEnd DEF ClientEnd
  <2>3. UpOnce(c)'
    <3>1. <<>> \o <<>> = <<>>
      BY ConcatEmptySeq, EmptySeq
    <3> QED
      BY <2>1, <2>2, <3>1, EmptyLines DEF UpOnce
  <2>4. NoFresh
    BY <2>2, <2>3, NoFreshAt DEF Older
  <2>5. \A l \in Clients \ {k} : client[l].sock # c
    <3>1. None # c /\ "closed" # "open"
      BY <2>1, WireAssumption
    <3> QED
      BY <2>2, <3>1, OwnSocket
  <2>6. Exchange(k)'
    <3>1. Down(k)' = <<>>
      <4>1. <<>> \o <<>> = <<>>
        BY ConcatEmptySeq, EmptySeq
      <4> QED
        BY <1>1, <1>2, <1>3, <2>2, <4>1 DEF Down
    <3>2. UpIds(client[k].sock)' = {}
      BY <1>3, <2>2
    <3> QED
      BY <3>1, <3>2, EmptyLines DEF Exchange
  <2>7. OwnSession(k)' /\ AnsweredIsGone(k)'
    BY <1>3 DEF OwnSession, AnsweredIsGone
  <2>8. Onwards
    BY <1>1, <1>2, ClientOnwards DEF SameCall, Launched
  <2> QED
    BY <1>2, <2>1, <2>2, <2>4, <2>5, <2>6, <2>7, <2>8, OthersHear, ClientUpFrame
<1> QED
  BY <1>1, <1>2, <1>3, FailUp DEF SameCall

LEMMA WriteBodyUp ==
    ASSUME Shape, UpInv, NEW k \in Clients, write_body(k), UNCHANGED <<session, raw>>
    PROVE  UpKept
<1>0. PICK s : s = client[k].sock
  OBVIOUS
<1> USE <1>0
<1> DEFINE data == BodyOf(client[k].req)
<1>1. /\ SameCall(k) /\ client[k].pc = "body" /\ client'[k].buf = client[k].buf
      /\ client'[k].sock = s
      /\ \/ client'[k].pc = "read"
         \/ client'[k].pc = "return" /\ client'[k].err # "Success"
      /\ Wrote(s, "client", data)
  BY WriteBodyDoes
<1>2. /\ OnlyClient(k) /\ Types /\ Exchange(k) /\ OwnSession(k)
      /\ s # None /\ client[k].req \in ReqMsgs
  BY <1>1 DEF SameCall, Shape, UpInv, ClientOK
<1>3. s \in Slots /\ s \in Conns /\ \A l \in Clients \ {k} : client[l].sock # s
  BY <1>2, OwnSocket
<1>4. data \in Seq(Tokens) /\ IdsOf(data) = {} /\ Once(data)
  BY <1>2, BodyLines DEF Msgs
<1>5. session'[s] = session[s] /\ OthersSame(s) /\ conn'[s].to["client"] = conn[s].to["client"]
  BY <1>1 DEF Wrote
<1> HIDE DEF data
<1>6. Older(s)
  <2>1. UpIds(s)' \subseteq UpIds(s) \union IdsOf(data)
    BY <1>1, <1>2, <1>3, <1>4, <1>5, UpAfterWrite
  <2>2. UpOnce(s) => UpOnce(s)'
    BY <1>1, <1>2, <1>3, <1>4, <1>5, UpAfterWrite
  <2> QED
    BY <1>4, <2>1, <2>2 DEF Older
<1>7. NoFresh
  BY <1>5, <1>6, NoFreshAt
<1>8. Exchange(k)'
  <2>1. Down(k)' = Down(k)
    BY <1>1, <1>5 DEF Down
  <2>2. UpIds(client[k].sock)' \subseteq UpIds(client[k].sock)
    BY <1>1, <1>6 DEF Older
  <2> QED
    BY <1>1, <1>2, <2>1, <2>2, ExchangeKeeps DEF Asking, SameCall
<1>9. OwnSession(k)' /\ AnsweredIsGone(k)'
  <2>1. client'[k].req = client[k].req
    BY <1>1 DEF SameCall
  <2> QED
    BY <1>1, <1>2, <1>7, <2>1 DEF OwnSession, AnsweredIsGone, NoFresh, Older
<1>10. Onwards
  BY <1>1, <1>2, ClientOnwards DEF SameCall, Launched
<1> QED
  BY <1>2, <1>3, <1>5, <1>7, <1>8, <1>9, <1>10, OthersHear, ClientUpFrame

LEMMA ReadFailsUp ==
    ASSUME Shape, UpInv, NEW k \in Clients, read_timeout(k) \/ read_end(k),
           UNCHANGED <<session, raw>>
    PROVE  UpKept
<1>1. client[k].pc = "read" /\ Fail(k, "Read") /\ UNCHANGED conn
  BY DEF read_timeout, read_end, At
<1>2. /\ SameCall(k) /\ client'[k].pc = "return" /\ client'[k].err # "Success"
      /\ client'[k].sock = client[k].sock /\ client'[k].buf = client[k].buf
  BY <1>1, FailDoes DEF Shape
<1> QED
  BY <1>1, <1>2, FailUp DEF SameCall

LEMMA ReadResponseUp ==
    ASSUME Shape, UpInv, NEW k \in Clients, read_response(k), UNCHANGED <<session, raw>>
    PROVE  UpKept
<1>0. PICK s : s = client[k].sock
  OBVIOUS
<1> USE <1>0
<1>1. /\ SameCall(k) /\ client[k].pc = "read" /\ client'[k].sock = s /\ s \in Slots
      /\ client'[k].pc \in {"read", "return"}
      /\ client'[k].pc = "return" /\ client'[k].err = "Success" =>
            /\ 1 \in DOMAIN client'[k].buf /\ IsLine(client'[k].buf, 1)
            /\ client'[k].res = client'[k].buf[1].m
  BY ReadResponseDoes
<1>2. PICK n \in 1 .. Len(conn[s].to["client"]) :
          /\ ConnOK' /\ Took(s, "client", n)
          /\ client'[k].buf = client[k].buf \o Received(s, "client", n)
  BY ReadResponseDoes
<1>3. /\ OnlyClient(k) /\ Types /\ Exchange(k) /\ OwnSession(k)
      /\ client'[k].req = client[k].req /\ client'[k].n = client[k].n
      /\ s # None /\ session'[s] = session[s]
      /\ client[k].buf \in Seq(Tokens) /\ conn[s].to["client"] \in Seq(Tokens)
  BY <1>1, ClientType, UpType DEF SameCall, Shape, UpInv, ClientOK
<1>4. s \in Conns /\ \A l \in Clients \ {k} : client[l].sock # s
  BY <1>3, OwnSocket
<1>5. /\ OthersSame(s) /\ conn'[s].to["server"] = conn[s].to["server"]
      /\ conn'[s].to["client"] = SubSeq(conn[s].to["client"], n + 1, Len(conn[s].to["client"]))
  BY <1>2 DEF Took, Other
<1>6. Older(s)
  BY <1>3, <1>5, UpStays DEF Older
<1>7. NoFresh
  BY <1>5, <1>6, NoFreshAt
<1>8. /\ Down(k)' = Down(k)
      /\ Down(k) \in Seq(Tokens)
      /\ Down(k) = client'[k].buf \o conn'[s].to["client"]
      /\ client'[k].buf \in Seq(Tokens) /\ conn'[s].to["client"] \in Seq(Tokens)
  <2> DEFINE to == conn[s].to["client"]
             front == SubSeq(to, 1, n)
             back == SubSeq(to, n + 1, Len(to))
  <2>1. to \in Seq(Tokens) /\ n \in 0 .. Len(to)
    BY <1>3
  <2> HIDE DEF to
  <2>2. front \in Seq(Tokens) /\ back \in Seq(Tokens) /\ to = front \o back
    BY <2>1, CutLines
  <2>3. client'[k].buf = client[k].buf \o front /\ conn'[s].to["client"] = back
    BY <1>2, <1>5 DEF Received, to
  <2> HIDE DEF front, back
  <2>4. (client[k].buf \o front) \o back = client[k].buf \o (front \o back)
    BY <1>3, <2>2, JoinedThree
  <2>5. Down(k)' = client'[k].buf \o conn'[s].to["client"] /\ Down(k) = client[k].buf \o to
    BY <1>1 DEF Down, to
  <2>6. client[k].buf \o front \in Seq(Tokens) /\ client[k].buf \o to \in Seq(Tokens)
    BY <1>3, <2>1, <2>2, JoinedLines
  <2> QED
    BY <2>2, <2>3, <2>4, <2>5, <2>6
<1>9. Exchange(k)'
  <2>1. UpIds(client[k].sock)' \subseteq UpIds(client[k].sock)
    BY <1>1, <1>6 DEF Older
  <2> QED
    BY <1>1, <1>3, <1>8, <2>1, ExchangeKeeps DEF Asking
<1>10. OwnSession(k)'
  BY <1>1, <1>3, <1>7 DEF OwnSession, NoFresh, Older
<1>11. AnsweredIsGone(k)'
  <2>1. SUFFICES ASSUME client'[k].pc = "return", client'[k].err = "Success"
                 PROVE  /\ client'[k].res.id = client'[k].req.id
                        /\ \A c \in Slots : client'[k].req.id \notin UpIds(c)'
    BY <1>1 DEF AnsweredIsGone
  <2>2. client'[k].res.id \in IdsOf(client'[k].buf)
    BY <1>1, <2>1, LineIn
  <2>3. client'[k].res.id \in IdsOf(Down(k))
    <3>1. IdsOf(client'[k].buf) \subseteq IdsOf(client'[k].buf \o conn'[s].to["client"])
      BY <1>8, JoinedIds
    <3> QED
      BY <1>8, <2>2, <3>1
  <2>4. IdsOf(Down(k)) \subseteq {client[k].req.id} /\ UpIds(s) = {}
    BY <1>1, <1>3, <2>3 DEF Exchange, Asking
  <2>5. \A c \in Slots : client[k].req.id \notin UpIds(c)
    BY <1>1, <1>3, <2>4 DEF OwnSession
  <2> QED
    BY <1>3, <1>7, <2>3, <2>4, <2>5 DEF NoFresh, Older
<1>12. Onwards
  BY <1>1, <1>3, ClientOnwards DEF Launched
<1> QED
  BY <1>3, <1>4, <1>5, <1>7, <1>9, <1>10, <1>11, <1>12, OthersHear, ClientUpFrame

LEMMA ReturnUp ==
    ASSUME Shape, UpInv, NEW k \in Clients, return(k), UNCHANGED <<session, raw>>
    PROVE  UpKept
<1>0. PICK s : s = client[k].sock
  OBVIOUS
<1> USE <1>0
<1>1. /\ SameCall(k) /\ client[k].pc = "return" /\ client'[k].pc = "idle"
      /\ client'[k].buf = <<>>
      /\ client'[k].res = client[k].res /\ client'[k].err = client[k].err
      /\ \/ /\ s # None /\ client'[k].sock = None
            /\ ConnOK' /\ ClosedEnd(s, "client")
         \/ /\ client'[k].sock = s /\ UNCHANGED conn
            /\ s # None => client[k].err = "Success"
  BY ReturnDoes
<1>2. /\ OnlyClient(k) /\ Types /\ Exchange(k) /\ AnsweredIsGone(k)
      /\ client'[k].req = client[k].req /\ client'[k].n = client[k].n
  BY <1>1 DEF SameCall, Shape, UpInv
<1>3. Onwards
  BY <1>1, <1>2, ClientOnwards DEF Launched
<1>4. OwnSession(k)'
  BY <1>1 DEF OwnSession
<1>5. NoFresh => AnsweredIsGone(k)'
  BY <1>1, <1>2 DEF AnsweredIsGone, NoFresh, Older
<1>6. CASE s # None /\ client'[k].sock = None /\ ClosedEnd(s, "client")
  <2>1. s \in Slots /\ s \in Conns /\ \A l \in Clients \ {k} : client[l].sock # s
    BY <1>6, OwnSocket
  <2>2. OthersSame(s)
    BY <1>6 DEF ClosedEnd
  <2>3. Older(s)
    <3>1. session'[s] = session[s] /\ ClosedEnd(s, "client")
      BY <1>6
    <3> QED
      BY <1>2, <2>1, <3>1, UpAfterClose DEF Older
  <2>4. NoFresh
    BY <2>2, <2>3, NoFreshAt
  <2>5. Exchange(k)'
    BY <1>6 DEF Exchange
  <2> QED
    BY <1>2, <1>3, <1>4, <1>5, <2>1, <2>2, <2>4, <2>5, OthersHear, ClientUpFrame
<1>7. CASE client'[k].sock = s /\ UNCHANGED conn /\ (s # None => client[k].err = "Success")
  <2>1. NoFresh
    BY <1>7, UpQuiet
  <2>2. Exchange(k)'
    <3>1. SUFFICES ASSUME s # None PROVE Exchange(k)'
      BY <1>7 DEF Exchange
    <3>2. /\ s \in Slots /\ client[k].buf \in Seq(Tokens)
          /\ conn[s].to["client"] \in Seq(Tokens)
      BY <1>2, <3>1, ClientType, UpType
    <3>3. /\ 1 \in DOMAIN client[k].buf /\ IsLine(client[k].buf, 1)
      BY <1>1, <1>7, <3>1 DEF Shape, ClientOK
    <3>4. client[k].buf[1].m.id \in IdsOf(client[k].buf)
      BY <3>3, LineIn
    <3>5. /\ IdsOf(Down(k)) = IdsOf(client[k].buf) \union IdsOf(conn[s].to["client"])
          /\ Once(Down(k)) => /\ Once(conn[s].to["client"])
                              /\ IdsOf(client[k].buf) \intersect IdsOf(conn[s].to["client"]) = {}
      BY <3>2, JoinedLines DEF Down
    <3>6. UpIds(s) = {} /\ IdsOf(conn[s].to["client"]) = {} /\ Once(conn[s].to["client"])
      BY <1>1, <1>2, <3>1, <3>4, <3>5 DEF Exchange, Asking
    <3>7. Down(k)' = conn[s].to["client"]
      <4>1. Down(k)' = <<>> \o conn[s].to["client"]
        BY <1>1, <1>7 DEF Down
      <4> QED
        BY <3>2, <4>1, ConcatEmptySeq
    <3>8. UpIds(client[k].sock)' = {}
      BY <1>7, <2>1, <3>2, <3>6 DEF NoFresh, Older
    <3> QED
      BY <3>6, <3>7, <3>8 DEF Exchange
  <2> QED
    BY <1>2, <1>3, <1>4, <1>5, <1>7, <2>1, <2>2, ClientUpFrame
<1> QED
  BY <1>1, <1>6, <1>7

(* The one step by which a request gets on its way.                        *)
LEMMA WriteHeadUp ==
    ASSUME Shape, UpInv, NEW k \in Clients, write_head(k), UNCHANGED <<session, raw>>
    PROVE  /\ UpInv'
           /\ Onwards
           /\ \E s \in Slots : \E id \in Ids : FreshAt(s, id) /\ ~IsIssued(id)
<1>0. PICK s, id : s = client[k].sock /\ id = client[k].req.id
  OBVIOUS
<1> DEFINE data == HeadOf(client[k].req)
<1>1. /\ SameCall(k) /\ client[k].pc = "head" /\ client'[k].buf = client[k].buf
      /\ client'[k].sock = s
      /\ \/ client'[k].pc \in {"body", "read"}
         \/ client'[k].pc = "return" /\ client'[k].err # "Success"
      /\ Wrote(s, "client", data)
  BY <1>0, WriteHeadDoes
<1>2. /\ OnlyClient(k) /\ Types /\ Exchange(k)
      /\ client'[k].req = client[k].req /\ client'[k].n = client[k].n
      /\ s # None /\ client[k].req \in ReqMsgs /\ client[k].n > 0 /\ id = <<k, client[k].n>>
  BY <1>0, <1>1 DEF SameCall, Shape, UpInv, ClientOK
<1>3. /\ s \in Slots /\ s \in Conns /\ \A l \in Clients \ {k} : client[l].sock # s
      /\ client[k].n \in Nat
  BY <1>0, <1>2, OwnSocket, ClientType DEF ClientRec
<1>4. data \in Seq(Tokens) /\ IdsOf(data) = {id} /\ Once(data) /\ id \in Ids
  BY <1>0, <1>2, HeadLines, MsgTokens DEF Msgs
<1>5. session'[s] = session[s] /\ OthersSame(s) /\ conn'[s].to["client"] = conn[s].to["client"]
  BY <1>1 DEF Wrote
<1> HIDE DEF data
<1>6. Onwards
  BY <1>1, <1>2, ClientOnwards DEF Launched
<1>7. ~IsIssued(id)
  <2>1. raw.sent = 0
    BY <1>1, ClientsAlone DEF Shape, OneRegime
  <2>2. ~HasSent(k, client[k].n)
    BY <1>1, <1>3 DEF HasSent, Launched
  <2> QED
    BY <1>2, <2>1, <2>2 DEF IsIssued
<1>8. IsIssued(id)'
  <2>1. HasSent(k, client[k].n)'
    BY <1>1, <1>2, <1>3 DEF HasSent, Launched
  <2> QED
    BY <1>2, <1>3, <2>1 DEF IsIssued
<1>9. FreshAt(s, id)
  <2>1. UpIds(s)' \subseteq UpIds(s) \union IdsOf(data)
    BY <1>1, <1>2, <1>3, <1>4, <1>5, UpAfterWrite
  <2>2. UpOnce(s) /\ UpIds(s) \intersect {id} = {} => UpOnce(s)'
    BY <1>1, <1>2, <1>3, <1>4, <1>5, UpAfterWrite
  <2>3. \A c \in Slots \ {s} : Older(c)
    BY <1>5, UpOthers
  <2> QED
    BY <1>4, <2>1, <2>2, <2>3 DEF FreshAt
<1>10. /\ \A c \in Slots : id \notin UpIds(c)
       /\ \A c \in Slots : UpOnce(c)' /\ \A x \in UpIds(c)' : IsIssued(x)'
       /\ OneSession'
  BY <1>2, <1>3, <1>6, <1>7, <1>8, <1>9, AfterFresh
<1>11. \A c \in Slots : UpIds(c)' \subseteq UpIds(c) \union (IF c = s THEN {id} ELSE {})
  BY <1>9 DEF FreshAt, Older
<1>12. Exchange(k)'
  <2>1. Down(k)' = Down(k)
    BY <1>0, <1>1, <1>5 DEF Down
  <2>2. UpIds(s) = {} /\ IdsOf(Down(k)) = {} /\ Once(Down(k))
    BY <1>0, <1>1, <1>2 DEF Exchange, Asking
  <2>3. UpIds(client[k].sock)' \subseteq {id}
    BY <1>0, <1>1, <1>3, <1>11, <2>2
  <2> QED
    BY <1>0, <1>1, <1>2, <2>1, <2>2, <2>3 DEF Exchange, Asking
<1>13. OwnSession(k)' /\ AnsweredIsGone(k)'
  BY <1>0, <1>1, <1>2, <1>10, <1>11 DEF OwnSession, AnsweredIsGone
<1>14. ASSUME NEW l \in Clients \ {k}
       PROVE  Exchange(l)' /\ OwnSession(l)' /\ AnsweredIsGone(l)'
  <2>1. client'[l] = client[l]
    BY <1>2 DEF OnlyClient
  <2>2. client[l].sock # None => client[l].sock \in Slots /\ client[l].sock # s
    BY <1>3, OwnSocket
  <2>3. client[l].sock # None =>
            /\ conn'[client[l].sock].to["client"] = conn[client[l].sock].to["client"]
            /\ UpIds(client[l].sock)' \subseteq UpIds(client[l].sock)
    <3>1. client[l].sock # None =>
              conn'[client[l].sock].to["client"] = conn[client[l].sock].to["client"]
      BY <1>3, <1>5, OthersHear
    <3> QED
      BY <1>11, <2>1, <2>2, <3>1
  <2>4. client[l].n > 0 => id # client[l].req.id
    BY <1>2 DEF Shape, ClientOK
  <2> QED
    BY <1>11, <2>1, <2>3, <2>4, OthersKeep
<1>15. UpInv'
  BY <1>10, <1>12, <1>13, <1>14 DEF UpInv
<1> QED
  BY <1>3, <1>4, <1>6, <1>7, <1>9, <1>15

LEMMA ClientStepUp ==
    ASSUME Shape, UpInv, NEW k \in Clients, ClientStep(k, TRUE), UNCHANGED <<session, raw>>
    PROVE  \/ UpKept
           \/ /\ UpInv' /\ Onwards
              /\ \E s \in Slots : \E id \in Ids : FreshAt(s, id) /\ ~IsIssued(id)
BY SendUp, ConnectUp, WriteHeadUp, WriteBodyUp, ReadResponseUp, ReadFailsUp, ReturnUp
DEF ClientStep

(* An answer is the 503 or that of a backend.                              *)
Relayable(m) == m.kind = 503 \/ Served(m)

OutOK(c) ==
    Working(c) /\ session[c].out # None =>
        session[c].out.id = session[c].req.id /\ Served(session[c].out)

(* What a step of a session shows its client.                              *)
Silent(c) ==
    \/ conn'[c].to["client"] = conn[c].to["client"]
    \/ \E n \in 0 .. Len(conn[c].to["client"]) :
          conn'[c].to["client"] = SubSeq(conn[c].to["client"], 1, n)

Answers(c) ==
    /\ Working(c) /\ session[c].req.id \notin UpIds(c)'
    /\ \E m \in Msgs :
          /\ m.id = session[c].req.id /\ Relayable(m)
          /\ conn'[c].to["client"] = conn[c].to["client"] \o WholeOf(m)

Shows(c) ==
    /\ \A d \in Slots \ {c} : Older(d) /\ conn'[d] = conn[d]
    /\ Older(c)
    /\ Silent(c) \/ Answers(c)

LEMMA FrontShows ==
    ASSUME Shape, NEW c \in Slots, OthersSame(c) \/ UNCHANGED conn, OnlySession(c),
           Older(c), Silent(c) \/ Answers(c)
    PROVE  Shows(c)
<1>1. ASSUME NEW d \in Slots \ {c} PROVE conn'[d] = conn[d] /\ session'[d] = session[d]
  BY HttpClientAssumption DEF OthersSame, OnlySession
<1>2. \A d \in Slots \ {c} : Older(d)
  BY <1>1, UpStays DEF Older
<1> QED
  BY <1>1, <1>2 DEF Shows

LEMMA LinkShows ==
    ASSUME Shape, NEW c \in Slots, SameRequest(c), session[c].pc # "close",
           \A d \in Slots : conn'[d] = conn[d]
    PROVE  Shows(c)
<1>1. ASSUME NEW d \in Slots \ {c} PROVE conn'[d] = conn[d] /\ session'[d] = session[d]
  BY DEF SameRequest, OnlySession
<1>2. \A d \in Slots \ {c} : Older(d)
  BY <1>1, UpStays DEF Older
<1>3. Older(c)
  BY UpWorks DEF SameRequest, Older
<1> QED
  BY <1>1, <1>2, <1>3 DEF Shows, Silent

LEMMA ReplyShows ==
    ASSUME Shape, NEW c \in Slots, NEW m \in Msgs, Wrote(c, "server", WholeOf(m)),
           Working(c), session[c].req.id \notin UpIds(c)', m.id = session[c].req.id,
           Relayable(m)
    PROVE  Silent(c) \/ Answers(c)
BY DEF Wrote, Other, Silent, Answers

LEMMA SessionShows ==
    ASSUME Shape, NEW c \in Slots, UpOnce(c), OutOK(c),
           \/ acceptClients(c) \/ recv_client(c) \/ client_left(c) \/ get_candidates(c)
           \/ no_candidate_left(c) \/ relay(c) \/ relay_503(c) \/ close_client(c)
    PROVE  Shows(c)
<1> USE DEF SameRequest, LinkedPcs, WorkingPcs, Linked, Working
<1>1. Types /\ SessionOK(c) /\ c \in Conns
  BY SessionIs
<1>2. CASE acceptClients(c)
  <2>1. /\ SameRequest(c) /\ session[c].pc = "none" /\ session'[c].pc = "recv"
        /\ Accept(c)
    BY <1>2, AcceptClientsDoes
  <2>2. OthersSame(c) /\ SameTo(c)
    BY <1>1, <2>1, AcceptDoes DEF Types
  <2>3. Older(c)
    BY <2>1, <2>2, UpWorks DEF SameTo, Older
  <2> QED
    BY <2>1, <2>2, <2>3, FrontShows DEF Silent, SameTo
<1>3. CASE recv_client(c)
  <2>1. session[c].pc = "recv" /\ OnlySession(c)
    BY <1>3, RecvClientDoes
  <2>2. PICK n \in 1 .. Len(conn[c].to["server"]) :
            /\ ConnOK' /\ Took(c, "server", n)
            /\ session[c].buf \o Received(c, "server", n) \in Seq(Tokens)
            /\ session'[c] = Inner(session[c], session[c].buf \o Received(c, "server", n))
    BY <1>3, RecvClientDoes
  <2>3. session'[c].buf = session[c].buf \o Received(c, "server", n)
    <3> DEFINE buf == session[c].buf \o Received(c, "server", n)
    <3>1. buf \in Seq(Tokens) /\ session'[c] = Inner(session[c], buf)
      BY <2>2
    <3> HIDE DEF buf
    <3>2. session'[c].buf = buf
      BY <3>1, InnerIs
    <3> QED
      BY <3>2 DEF buf
  <2>4. Older(c)
    BY <1>1, <2>1, <2>2, <2>3, UpAfterRecv DEF Older
  <2>5. OthersSame(c) /\ Silent(c)
    BY <2>2 DEF Took, Silent, Other
  <2> QED
    BY <2>1, <2>4, <2>5, FrontShows
<1>4. CASE client_left(c)
  <2>1. SameRequest(c) /\ session'[c].pc = "close" /\ UNCHANGED conn
    BY <1>4, ClientLeftDoes
  <2>2. Older(c)
    BY <2>1, UpStays DEF Older
  <2> QED
    BY <2>1, <2>2, FrontShows DEF Silent
<1>5. CASE get_candidates(c)
  <2>1. /\ SameRequest(c) /\ session[c].pc = "route"
        /\ \/ /\ session'[c].pc = "close"
              /\ \E m \in Msgs : /\ m.id = session[c].req.id /\ m.kind = 503
                                 /\ Wrote(c, "server", WholeOf(m))
           \/ /\ session'[c].pc = "connect" /\ UNCHANGED conn
    BY <1>5, GetCandidatesDoes
  <2>2. CASE /\ session'[c].pc = "close"
             /\ \E m \in Msgs : /\ m.id = session[c].req.id /\ m.kind = 503
                                /\ Wrote(c, "server", WholeOf(m))
    <3>1. OthersSame(c) /\ conn'[c].to["server"] = conn[c].to["server"]
      BY <2>2 DEF Wrote
    <3>2. UpIds(c)' = {} /\ Older(c)
      BY <2>1, <2>2, <3>1, UpStays DEF UpIds, UpLines, Older
    <3>3. Silent(c) \/ Answers(c)
      BY <2>1, <2>2, <3>2, ReplyShows DEF Relayable
    <3> QED
      BY <2>1, <3>1, <3>2, <3>3, FrontShows
  <2>3. CASE session'[c].pc = "connect" /\ UNCHANGED conn
    BY <2>1, <2>3, LinkShows
  <2> QED
    BY <2>1, <2>2, <2>3
<1>6. CASE no_candidate_left(c)
  BY <1>6, NoCandidateDoes, LinkShows
<1>7. CASE relay(c) \/ relay_503(c)
  <2>1. /\ OnlySession(c) /\ session[c].pc = "reply"
        /\ session'[c] \in {Inner(session[c], RestOf(c)), EndedSession}
        /\ \E m \in Msgs : /\ m.id = session[c].req.id /\ Relayable(m)
                           /\ Wrote(c, "server", WholeOf(m))
    <3>1. CASE relay(c)
      <4>1. /\ OnlySession(c) /\ session[c].pc = "reply"
            /\ session'[c] = Inner(session[c], RestOf(c))
            /\ session[c].out # None /\ session[c].out \in Msgs
            /\ Wrote(c, "server", WholeOf(session[c].out))
        BY <3>1, RelayDoes
      <4>2. session[c].out.id = session[c].req.id /\ Relayable(session[c].out)
        BY <4>1 DEF OutOK, Relayable
      <4> QED
        BY <4>1, <4>2
    <3>2. CASE relay_503(c)
      BY <3>2, Relay503Does DEF Relayable
    <3> QED
      BY <1>7, <3>1, <3>2
  <2>2. OthersSame(c) /\ conn'[c].to["server"] = conn[c].to["server"]
    BY <2>1 DEF Wrote
  <2>3. RestOf(c) \in Seq(Tokens) /\ Working(c)
    BY <2>1, RestIs
  <2>4. session'[c].pc = "close" \/ session'[c].buf = RestOf(c)
    BY <2>1, <2>3, InnerIs, NoSessionType
  <2>5. Older(c) /\ session[c].req.id \notin UpIds(c)'
    BY <2>2, <2>3, <2>4, UpAfterErase DEF Older
  <2>6. Silent(c) \/ Answers(c)
    BY <2>1, <2>3, <2>5, ReplyShows
  <2> QED
    BY <2>1, <2>2, <2>5, <2>6, FrontShows
<1>8. CASE close_client(c)
  <2>1. /\ OnlySession(c) /\ session'[c] = NoSession /\ ClosedEnd(c, "server")
    BY <1>8, CloseClientDoes
  <2>2. OthersSame(c) /\ conn'[c].to["server"] = <<>> /\ Silent(c)
    BY <2>1 DEF ClosedEnd, Silent, Other
  <2>3. Older(c)
    <3>1. <<>> \o <<>> = <<>>
      BY ConcatEmptySeq, EmptySeq
    <3>2. UpLines(c)' = {}
      BY <2>1, <2>2, NoSessionType, EmptyLines DEF UpLines
    <3>3. UpOnce(c)'
      BY <2>1, <2>2, <3>1, NoSessionType, EmptyLines DEF UpOnce
    <3> QED
      BY <3>2, <3>3 DEF Older, UpIds
  <2> QED
    BY <2>1, <2>2, <2>3, FrontShows
<1> QED
  BY <1>2, <1>3, <1>4, <1>5, <1>6, <1>7, <1>8

LEMMA LinkStepShows ==
    ASSUME Shape, NEW c \in Slots,
           \/ send_request(c) \/ recv_backend(c) \/ backend_left(c)
           \/ take_response(c) \/ next_candidate(c) \/ connectToBackend(c)
    PROVE  Shows(c)
<1> USE DEF LinkedPcs, WorkingPcs, Linked, Working
<1>0. PICK b : b = session[c].sock
  OBVIOUS
<1>1. SameRequest(c) /\ session[c].pc # "close"
  BY SendRequestDoes, RecvBackendDoes, BackendLeftDoes, TakeResponseDoes, NextCandidateDoes,
     ConnectBackendDoes
<1>2. \A d \in Slots : conn'[d] = conn[d]
  <2>1. CASE send_request(c) \/ recv_backend(c) \/ take_response(c) \/ next_candidate(c)
    <3>1. Linked(c) /\ OthersSame(b)
      BY <1>0, <2>1, SendRequestDoes, RecvBackendDoes, TakeResponseDoes, NextCandidateDoes
      DEF Wrote, Took, ClosedEnd
    <3> QED
      BY <1>0, <3>1, LinkedSock, HttpClientAssumption DEF OthersSame
  <2>2. CASE backend_left(c)
    BY <2>2, BackendLeftDoes
  <2>3. CASE connectToBackend(c)
    <3>1. \/ UNCHANGED conn
          \/ \E x \in BackendSlots : Connect(x, BackendSlots)
      BY <2>3, ConnectBackendDoes
    <3>2. ASSUME NEW x \in BackendSlots, Connect(x, BackendSlots)
          PROVE  \A d \in Slots : conn'[d] = conn[d]
      <4>1. OthersSame(x)
        BY <3>2, ConnectDoes, WireAssumption DEF Shape, Types
      <4> QED
        BY <4>1, WireAssumption, HttpClientAssumption DEF OthersSame
    <3> QED
      BY <3>1, <3>2
  <2> QED
    BY <2>1, <2>2, <2>3
<1> QED
  BY <1>1, <1>2, LinkShows

LEMMA SameClientsOnwards ==
    ASSUME UNCHANGED <<client, raw>>
    PROVE  Onwards
BY DEF Onwards

(* A session gives a client the answer to what it has asked.               *)
LEMMA ShowsUp ==
    ASSUME Shape, UpInv, NEW c \in Slots, Shows(c), UNCHANGED <<client, raw>>
    PROVE  UpKept
<1>1. NoFresh /\ Onwards
  BY SameClientsOnwards DEF Shows, NoFresh
<1>2. /\ \A d \in Slots : UpOnce(d)' /\ \A id \in UpIds(d)' : IsIssued(id)'
      /\ OneSession'
  BY <1>1, AsBefore DEF Shape
<1>3. ASSUME NEW k \in Clients
      PROVE  Exchange(k)' /\ OwnSession(k)' /\ AnsweredIsGone(k)'
  <2>1. client'[k] = client[k] /\ Exchange(k) /\ OwnSession(k) /\ AnsweredIsGone(k)
    BY DEF UpInv
  <2>2. CASE client[k].sock # c
    <3>1. client[k].sock # None =>
            /\ conn'[client[k].sock].to["client"] = conn[client[k].sock].to["client"]
            /\ UpIds(client[k].sock)' \subseteq UpIds(client[k].sock)
      BY <1>1, <2>1, <2>2, OwnSocket DEF Shows, NoFresh, Older
    <3>2. \A d \in Slots : \A id \in UpIds(d)' : id \in UpIds(d)
      BY <1>1 DEF NoFresh, Older
    <3> QED
      BY <2>1, <3>1, <3>2, OthersKeep
  <2>3. CASE client[k].sock = c
    <3>1. OwnSession(k)' /\ AnsweredIsGone(k)'
      BY <1>1, <2>1 DEF OwnSession, AnsweredIsGone, NoFresh, Older
    <3> DEFINE buf == client[k].buf
               t == conn[c].to["client"]
    <3>2. c # None /\ buf \in Seq(Tokens) /\ t \in Seq(Tokens)
      BY <2>3, ClientType, UpType, WireAssumption, HttpClientAssumption DEF Shape
    <3>3. /\ Down(k) = buf \o t /\ Down(k)' = buf \o conn'[c].to["client"]
          /\ UpIds(client[k].sock) = UpIds(c) /\ UpIds(client[k].sock)' = UpIds(c)'
      BY <2>1, <2>3 DEF Down
    <3>4. UpIds(c)' \subseteq UpIds(c)
      BY DEF Shows, Older
    <3> DEFINE mine == IF Asking(k) THEN {client[k].req.id} ELSE {}
    <3>5. /\ UpIds(c) \union IdsOf(Down(k)) \subseteq mine
          /\ UpIds(c) = {} \/ IdsOf(Down(k)) = {}
          /\ Once(Down(k))
      BY <2>1, <2>3, <3>2, <3>3 DEF Exchange
    <3>6. /\ IdsOf(buf \o t) = IdsOf(buf) \union IdsOf(t)
          /\ Once(buf \o t) <=> Once(buf) /\ Once(t) /\ IdsOf(buf) \intersect IdsOf(t) = {}
      BY <3>2, JoinedLines
    <3>7. mine' = mine
      BY <2>1 DEF Asking
    <3>8. SUFFICES /\ UpIds(c)' \union IdsOf(Down(k)') \subseteq mine
                   /\ UpIds(c)' = {} \/ IdsOf(Down(k)') = {}
                   /\ Once(Down(k)')
      BY <2>1, <2>3, <3>1, <3>3, <3>7 DEF Exchange, IdsOf, Lines, Once, IsLine
    <3> HIDE DEF buf, t, mine
    <3>9. ASSUME NEW u \in Seq(Tokens), u = conn'[c].to["client"], IdsOf(u) \subseteq IdsOf(t),
                 Once(t) => Once(u)
          PROVE  /\ UpIds(c)' \union IdsOf(Down(k)') \subseteq mine
                 /\ UpIds(c)' = {} \/ IdsOf(Down(k)') = {}
                 /\ Once(Down(k)')
      <4>1. /\ IdsOf(buf \o u) = IdsOf(buf) \union IdsOf(u)
            /\ Once(buf \o u) <=> Once(buf) /\ Once(u) /\ IdsOf(buf) \intersect IdsOf(u) = {}
        BY <3>2, <3>9, JoinedLines
      <4>2. Down(k)' = buf \o u
        BY <3>3, <3>9
      <4> QED
        BY <3>3, <3>4, <3>5, <3>6, <3>9, <4>1, <4>2
    <3>10. CASE conn'[c].to["client"] = t
      BY <3>2, <3>9, <3>10
    <3>11. ASSUME NEW n \in 0 .. Len(t), conn'[c].to["client"] = SubSeq(t, 1, n)
           PROVE  /\ UpIds(c)' \union IdsOf(Down(k)') \subseteq mine
                  /\ UpIds(c)' = {} \/ IdsOf(Down(k)') = {}
                  /\ Once(Down(k)')
      <4>1. PICK u : u = SubSeq(t, 1, n)
        OBVIOUS
      <4>2. u \in Seq(Tokens) /\ IdsOf(u) \subseteq IdsOf(t) /\ (Once(t) => Once(u))
        BY <3>2, <4>1, FrontLines
      <4> QED
        BY <3>9, <3>11, <4>1, <4>2
    <3>12. CASE Answers(c)
      <4>1. PICK m \in Msgs : /\ m.id = session[c].req.id
                              /\ conn'[c].to["client"] = t \o WholeOf(m)
        BY <3>12 DEF Answers, t
      <4>2. Working(c) /\ session[c].req.id \notin UpIds(c)'
        BY <3>12 DEF Answers
      <4>3. session[c].req.id \in UpIds(c)
        BY <4>2, WorkingRequest
      <4>4. UpIds(c)' = {} /\ mine = {m.id} /\ IdsOf(Down(k)) = {}
        BY <3>4, <3>5, <4>1, <4>2, <4>3 DEF mine
      <4>5. WholeOf(m) \in Seq(Tokens) /\ IdsOf(WholeOf(m)) = {m.id} /\ Once(WholeOf(m))
        BY WholeLines DEF WholeOf
      <4> DEFINE w == WholeOf(m)
      <4>6. Down(k)' = (buf \o t) \o w /\ buf \o t \in Seq(Tokens) /\ w \in Seq(Tokens)
        BY <3>2, <3>3, <4>1, <4>5, JoinedThree, JoinedLines
      <4>7. /\ IdsOf((buf \o t) \o w) = IdsOf(buf \o t) \union IdsOf(w)
            /\ Once((buf \o t) \o w) <=>
                  Once(buf \o t) /\ Once(w) /\ IdsOf(buf \o t) \intersect IdsOf(w) = {}
        BY <4>6, JoinedLines
      <4>8. IdsOf(buf \o t) = {} /\ Once(buf \o t) /\ IdsOf(w) = {m.id} /\ Once(w)
        BY <3>3, <3>5, <4>4, <4>5
      <4> HIDE DEF w
      <4>9. IdsOf(Down(k)') = {m.id} /\ Once(Down(k)')
        BY <4>6, <4>7, <4>8
      <4> QED
        BY <4>4, <4>9
    <3> QED
      BY <3>10, <3>11, <3>12 DEF Shows, Silent, t
  <2> QED
    BY <2>2, <2>3
<1> QED
  BY <1>1, <1>2, <1>3 DEF UpInv, UpKept

(* Clients do not see what happens between the sessions and the backends.  *)
LEMMA UnseenUp ==
    ASSUME Shape, UpInv, UNCHANGED <<client, session, raw>>,
           \A c \in Slots : conn'[c] = conn[c]
    PROVE  UpKept
<1>1. \A c \in Slots : Older(c)
  BY UpStays DEF Older
<1>2. NoFresh /\ Onwards
  BY <1>1, SameClientsOnwards DEF NoFresh
<1>3. /\ \A d \in Slots : UpOnce(d)' /\ \A id \in UpIds(d)' : IsIssued(id)'
      /\ OneSession'
  BY <1>2, AsBefore DEF Shape
<1>4. ASSUME NEW k \in Clients
      PROVE  Exchange(k)' /\ OwnSession(k)' /\ AnsweredIsGone(k)'
  <2>1. client[k].sock # None =>
          /\ conn'[client[k].sock].to["client"] = conn[client[k].sock].to["client"]
          /\ UpIds(client[k].sock)' \subseteq UpIds(client[k].sock)
    BY <1>1, OwnSocket DEF Older
  <2>2. \A d \in Slots : \A id \in UpIds(d)' : id \in UpIds(d)
    BY <1>1 DEF Older
  <2> QED
    BY <2>1, <2>2, OthersKeep
<1> QED
  BY <1>2, <1>3, <1>4 DEF UpInv, UpKept

LEMMA BackendStepUp ==
    ASSUME Shape, UpInv, NEW b \in BackendSlots, UNCHANGED <<client, session, raw>>,
           BackendStep(b) \/ backend_dies(b)
    PROVE  UpKept
<1>1. OthersSame(b) \/ UNCHANGED conn
  BY ServeReadDoes, ServeRunDoes, ServeWriteDoes, BackendEndDoes
  DEF BackendStep, Wrote, ClosedEnd
<1>2. \A c \in Slots : conn'[c] = conn[c]
  BY <1>1, WireAssumption, HttpClientAssumption DEF OthersSame
<1> QED
  BY <1>2, UnseenUp

(* While there is a client that does not wait there is no other.           *)
LEMMA NoCalls ==
    ASSUME Shape, raw.pc # "absent", UNCHANGED client
    PROVE  \A k \in Clients : Exchange(k)' /\ OwnSession(k)' /\ AnsweredIsGone(k)'
<1>1. \A k \in Clients : client'[k].n = 0 /\ client'[k].pc = "idle" /\ client'[k].sock = None
  BY DEF Shape, OneRegime
<1> QED
  BY <1>1 DEF Exchange, OwnSession, AnsweredIsGone

LEMMA RawStepUp ==
    ASSUME Shape, UpInv, RawStep, UNCHANGED <<client, session>>
    PROVE  \/ UpKept
           \/ /\ UpInv' /\ Onwards
              /\ \E s \in Slots : \E id \in Ids : FreshAt(s, id) /\ ~IsIssued(id)
<1>0. PICK s : s = RawConn
  OBVIOUS
<1>1. s \in Slots /\ s \in Conns /\ session'[s] = session[s] /\ Types
  BY <1>0, RawConnType DEF Shape
<1>2. raw.pc # "absent"
  BY RawConnectDoes, RawSendDoes, RawRecvDoes, RawCloseDoes DEF RawStep
<1>3. \A k \in Clients : Exchange(k)' /\ OwnSession(k)' /\ AnsweredIsGone(k)'
  BY <1>2, NoCalls
<1>4. raw.sent \in Nat /\ (raw'.sent \in {raw.sent, raw.sent + 1} => Onwards)
  BY <1>1 DEF Types, RawRec, Onwards
<1>5. ASSUME raw'.sent = raw.sent, OthersSame(s), Older(s)
      PROVE  UpKept
  <2>1. NoFresh
    BY <1>5, NoFreshAt
  <2>2. Onwards
    BY <1>4, <1>5
  <2> QED
    BY <1>1, <1>3, <2>1, <2>2, AsBefore DEF UpInv, UpKept
<1>6. CASE raw_connect
  <2>1. raw'.sent = raw.sent /\ Connect(s, {s}) /\ {s} \in SUBSET Conns
    BY <1>0, <1>1, <1>6, RawConnectDoes
  <2>2. /\ UpIds(s)' = {} /\ OthersSame(s) /\ conn'[s].to["server"] = <<>>
        /\ session[s].buf = <<>>
    BY <1>1, <2>1, ConnectClientEnd DEF ClientEnd
  <2>3. UpOnce(s)'
    <3>1. <<>> \o <<>> = <<>>
      BY ConcatEmptySeq, EmptySeq
    <3> QED
      BY <1>1, <2>2, <3>1, EmptyLines DEF UpOnce
  <2> QED
    BY <1>5, <2>1, <2>2, <2>3 DEF Older
<1>7. CASE raw_recv
  <2>1. raw'.sent = raw.sent /\ \E n : Took(s, "client", n)
    BY <1>0, <1>7, RawRecvDoes
  <2>2. OthersSame(s) /\ conn'[s].to["server"] = conn[s].to["server"]
    BY <2>1 DEF Took, Other
  <2> QED
    BY <1>1, <1>5, <2>1, <2>2, UpStays DEF Older
<1>8. CASE raw_close
  <2>1. raw'.sent = raw.sent /\ ClosedEnd(s, "client")
    BY <1>0, <1>8, RawCloseDoes
  <2>2. OthersSame(s) /\ Older(s)
    BY <1>1, <2>1, UpAfterClose DEF ClosedEnd, Older
  <2> QED
    BY <1>5, <2>1, <2>2
<1>9. CASE raw_send
  <2>1. raw.pc = "open" /\ raw'.sent = raw.sent + 1
    BY <1>9, RawSendDoes
  <2>2. PICK m \in ReqMsgs : m.id = <<"raw", raw.sent + 1>> /\ Wrote(s, "client", WholeOf(m))
    BY <1>0, <1>9, RawSendDoes
  <2>3. PICK id, data : id = m.id /\ data = WholeOf(m)
    OBVIOUS
  <2>4. data \in Seq(Tokens) /\ IdsOf(data) = {id} /\ Once(data) /\ id \in Ids
    BY <2>3, WholeLines, MsgTokens DEF WholeOf, Msgs
  <2>5. OthersSame(s)
    BY <2>2 DEF Wrote
  <2>6. FreshAt(s, id)
    <3>1. UpIds(s)' \subseteq UpIds(s) \union IdsOf(data)
      BY <1>1, <2>2, <2>3, <2>4, UpAfterWrite
    <3>2. UpOnce(s) /\ UpIds(s) \intersect {id} = {} => UpOnce(s)'
      BY <1>1, <2>2, <2>3, <2>4, UpAfterWrite
    <3>3. \A c \in Slots \ {s} : Older(c)
      BY <2>5, UpOthers
    <3> QED
      BY <2>4, <3>1, <3>2, <3>3 DEF FreshAt
  <2>7. ~IsIssued(id)
    <3>1. \A k \in Clients : client[k].n = 0
      BY <1>2 DEF Shape, OneRegime
    <3>2. \A k \in Clients : \A j \in Nat : ~HasSent(k, j)
      BY <3>1 DEF HasSent
    <3>3. \A j \in 1 .. raw.sent : j # raw.sent + 1
      BY <1>4
    <3> QED
      BY <2>2, <2>3, <3>2, <3>3 DEF IsIssued
  <2>8. IsIssued(id)'
    <3>1. raw.sent + 1 \in 1 .. raw'.sent
      BY <1>4, <2>1
    <3> QED
      BY <2>2, <2>3, <3>1 DEF IsIssued
  <2>9. Onwards
    BY <1>4, <2>1
  <2>10. UpInv'
    BY <1>1, <1>3, <2>6, <2>7, <2>8, <2>9, AfterFresh DEF UpInv
  <2> QED
    BY <1>1, <2>4, <2>6, <2>7, <2>9, <2>10
<1> QED
  BY <1>6, <1>7, <1>8, <1>9 DEF RawStep

-----------------------------------------------------------------------------
(* Between the sessions and the backends.                                  *)

(* The requests that have been sent on b and are not done.                 *)
Doing(b) ==
    IdsOf(conn[b].to["server"])
        \union (IF backend[b].pc = "run" THEN {backend[b].req.id} ELSE {})

DoneIds(n) == {done[n][i].id : i \in DOMAIN done[n]}

(* What the node n has begun.                                              *)
Touched(n) ==
    DoneIds(n) \union UNION {Doing(b) : b \in {d \in BackendSlots : backend[d].node = n}}

Awaits(c, b) == session[c].pc = "wait" /\ session[c].sock = b

(* A session waits until the backend is done with its request.             *)
NotAbandoned(b) ==
    Doing(b) # {} => \E c \in Slots : Awaits(c, b) /\ Doing(b) \subseteq {session[c].req.id}

RunAlone(b) == backend[b].pc = "run" => IdsOf(conn[b].to["server"]) = {}

(* The answer that a session is to get, in whatever parts.                 *)
Heard(c) ==
    LET b == session[c].sock IN
    Lines(session[c].rbuf) \union Lines(conn[b].to["client"])
        \union (IF backend[b].pc = "write" THEN {backend[b].res} ELSE {})

AnswerOK(c) ==
    /\ session[c].pc = "send" =>
          Lines(conn[session[c].sock].to["client"]) = {} /\ backend[session[c].sock].pc = "read"
    /\ session[c].pc \in {"wait", "answered"} =>
          /\ \A m \in Heard(c) : m.id = session[c].req.id /\ Served(m)
          /\ Heard(c) # {} => Doing(session[c].sock) = {}
    /\ OutOK(c)

(* The nodes that may still get the request a session works on.            *)
Elements(s) == {s[i] : i \in DOMAIN s}

Remaining(c) ==
    CASE session[c].pc = "route" -> Nodes
      [] session[c].pc \in {"connect", "send"} -> Elements(session[c].todo)
      [] session[c].pc \in {"wait", "answered", "failed"} -> Elements(Tail(session[c].todo))
      [] OTHER -> {}

TouchedInTurn(c) ==
    \A id \in UpIds(c) : \A n \in Nodes :
        id \in Touched(n) => Working(c) /\ id = session[c].req.id /\ n \notin Remaining(c)

DoneOnce(n) ==
    /\ \A i, j \in DOMAIN done[n] : done[n][i].id = done[n][j].id => i = j
    /\ \A b \in BackendSlots : backend[b].node = n => Doing(b) \intersect DoneIds(n) = {}

BackInv ==
    /\ \A b \in BackendSlots : NotAbandoned(b) /\ RunAlone(b)
    /\ \A c \in Slots : AnswerOK(c) /\ TouchedInTurn(c)
    /\ \A n \in Nodes : DoneOnce(n) /\ \A id \in Touched(n) : IsIssued(id)

(* A step by which no backend gets more to do.                             *)
LessDoing(b) ==
    \/ Doing(b)' = {}
    \/ Doing(b)' \subseteq Doing(b) /\ backend'[b].node = backend[b].node

StillAwaited(b) ==
    \/ Doing(b)' = {}
    \/ \A c \in Slots : Awaits(c, b) => Awaits(c, b)' /\ session'[c].req = session[c].req

LEMMA LessTouched ==
    ASSUME UNCHANGED done, \A b \in BackendSlots : LessDoing(b), NEW n
    PROVE  Touched(n)' \subseteq Touched(n)
BY DEF Touched, DoneIds, LessDoing

LEMMA BackKept ==
    ASSUME Shape, BackInv, Onwards, UNCHANGED done,
           \A b \in BackendSlots : LessDoing(b) /\ StillAwaited(b) /\ RunAlone(b)',
           \A c \in Slots : AnswerOK(c)' /\ TouchedInTurn(c)'
    PROVE  BackInv'
<1>1. \A n \in Nodes : \A id \in Touched(n)' : IsIssued(id)'
  BY LessTouched, IssuedStays DEF BackInv, Shape
<1>2. \A n \in Nodes : DoneOnce(n)'
  <2>1. ASSUME NEW n \in Nodes PROVE DoneOnce(n)'
    <3>1. DoneOnce(n) /\ DoneIds(n)' = DoneIds(n)
      BY DEF BackInv, DoneIds
    <3>2. \A b \in BackendSlots : backend'[b].node = n => Doing(b)' \intersect DoneIds(n)' = {}
      BY <3>1 DEF DoneOnce, LessDoing
    <3> QED
      BY <3>1, <3>2 DEF DoneOnce
  <2> QED
    BY <2>1
<1>3. \A b \in BackendSlots : NotAbandoned(b)'
  <2>1. ASSUME NEW b \in BackendSlots, Doing(b)' # {}
        PROVE  \E c \in Slots : Awaits(c, b)' /\ Doing(b)' \subseteq {session'[c].req.id}
    <3>1. Doing(b)' \subseteq Doing(b)
      BY <2>1 DEF LessDoing
    <3>2. PICK c \in Slots : Awaits(c, b) /\ Doing(b) \subseteq {session[c].req.id}
      BY <2>1, <3>1 DEF BackInv, NotAbandoned
    <3>3. Awaits(c, b)' /\ session'[c].req = session[c].req
      BY <2>1, <3>2 DEF StillAwaited
    <3> QED
      BY <3>1, <3>2, <3>3
  <2> QED
    BY <2>1 DEF NotAbandoned
<1> QED
  BY <1>1, <1>2, <1>3 DEF BackInv

DoneKept ==
    \A n \in Nodes : \A i \in DOMAIN done[n] :
        i \in DOMAIN done'[n] /\ done'[n][i] = done[n][i]

LEMMA ServedStays ==
    ASSUME DoneKept
    PROVE  \A m : Served(m) => Served(m)'
BY DEF DoneKept, Served

LEMMA DoneSame ==
    ASSUME UNCHANGED done
    PROVE  DoneKept
BY DEF DoneKept

LEMMA OutKeeps ==
    ASSUME NEW c \in Slots, OutOK(c), DoneKept, session'[c].out = session[c].out,
           session'[c].req = session[c].req, Working(c)
    PROVE  OutOK(c)'
BY ServedStays DEF OutOK

LEMMA AnswerKeeps ==
    ASSUME NEW c \in Slots, AnswerOK(c), session'[c] = session[c], DoneKept,
           Linked(c) => /\ conn'[session[c].sock] = conn[session[c].sock]
                        /\ backend'[session[c].sock] = backend[session[c].sock]
    PROVE  AnswerOK(c)'
<1>1. OutOK(c)'
  BY ServedStays DEF AnswerOK, OutOK, Working
<1>2. Linked(c) => Heard(c)' = Heard(c) /\ Doing(session[c].sock)' = Doing(session[c].sock)
  BY DEF Heard, Doing
<1> QED
  BY <1>1, <1>2, ServedStays DEF AnswerOK, Linked, LinkedPcs

LEMMA TurnKeeps ==
    ASSUME NEW c \in Slots, TouchedInTurn(c), UpIds(c)' \subseteq UpIds(c),
           \A n \in Nodes : Touched(n)' \subseteq Touched(n),
           \/ ~Working(c)
           \/ session[c].req.id \notin UpIds(c)'
           \/ /\ Working(c)' /\ session'[c].req = session[c].req
              /\ Remaining(c)' \subseteq Remaining(c)
    PROVE  TouchedInTurn(c)'
BY DEF TouchedInTurn

LEMMA TurnSame ==
    ASSUME NEW c \in Slots, TouchedInTurn(c), UpIds(c)' \subseteq UpIds(c),
           \A n \in Nodes : Touched(n)' \subseteq Touched(n),
           session'[c] = session[c]
    PROVE  TouchedInTurn(c)'
BY DEF TouchedInTurn, Working, Remaining

LEMMA SameDoing ==
    ASSUME NEW b \in BackendSlots, conn'[b] = conn[b], backend'[b] = backend[b]
    PROVE  Doing(b)' = Doing(b) /\ LessDoing(b) /\ (RunAlone(b) => RunAlone(b)')
<1>1. Doing(b)' = Doing(b)
  BY DEF Doing
<1> QED
  BY <1>1 DEF LessDoing, RunAlone

(* The clients' steps.                                                     *)
LEMMA ClientsBack ==
    ASSUME Shape, BackInv, UNCHANGED <<session, backend, done>>,
           \A b \in BackendSlots : conn'[b] = conn[b], Onwards,
           \/ NoFresh
           \/ \E s \in Slots : \E id \in Ids : FreshAt(s, id) /\ ~IsIssued(id)
    PROVE  BackInv'
<1>1. \A b \in BackendSlots : LessDoing(b) /\ StillAwaited(b) /\ RunAlone(b)'
  <2>1. ASSUME NEW b \in BackendSlots PROVE LessDoing(b) /\ StillAwaited(b) /\ RunAlone(b)'
    <3>1. LessDoing(b) /\ RunAlone(b)'
      BY SameDoing DEF BackInv
    <3>2. StillAwaited(b)
      BY DEF StillAwaited, Awaits
    <3> QED
      BY <3>1, <3>2
  <2> QED
    BY <2>1
<1>2. \A n \in Nodes : Touched(n)' \subseteq Touched(n)
  BY <1>1, LessTouched
<1>3. \A c \in Slots : AnswerOK(c)'
  <2>1. ASSUME NEW c \in Slots PROVE AnswerOK(c)'
    <3>1. Linked(c) => /\ conn'[session[c].sock] = conn[session[c].sock]
                       /\ backend'[session[c].sock] = backend[session[c].sock]
      BY LinkedSock
    <3>2. AnswerOK(c) /\ DoneKept /\ session'[c] = session[c]
      BY DoneSame DEF BackInv
    <3> QED
      BY <3>1, <3>2, AnswerKeeps
  <2> QED
    BY <2>1
<1>4. \A c \in Slots : TouchedInTurn(c)'
  <2>1. CASE NoFresh
    BY <1>2, <2>1, TurnSame DEF NoFresh, Older, BackInv
  <2>2. ASSUME NEW s \in Slots, NEW id \in Ids, FreshAt(s, id), ~IsIssued(id)
        PROVE  \A c \in Slots : TouchedInTurn(c)'
    <3>1. ASSUME NEW c \in Slots, NEW x \in UpIds(c)', NEW n \in Nodes, x \in Touched(n)'
          PROVE  Working(c)' /\ x = session'[c].req.id /\ n \notin Remaining(c)'
      <4>1. x \in Touched(n) /\ IsIssued(x)
        BY <1>2, <3>1 DEF BackInv
      <4>2. x \in UpIds(c)
        BY <2>2, <3>1, <4>1 DEF FreshAt, Older
      <4>3. Working(c) /\ x = session[c].req.id /\ n \notin Remaining(c)
        BY <4>1, <4>2 DEF BackInv, TouchedInTurn
      <4> QED
        BY <4>3 DEF Working, Remaining
    <3> QED
      BY <3>1 DEF TouchedInTurn
  <2> QED
    BY <2>1, <2>2
<1> QED
  BY <1>1, <1>3, <1>4, BackKept

(* A session that has no connection to a backend, before and after.        *)
LEMMA FrontBack ==
    ASSUME Shape, BackInv, NEW c \in Slots, OnlySession(c), UNCHANGED <<backend, done>>,
           \A b \in BackendSlots : conn'[b] = conn[b], Onwards, NoFresh,
           ~Linked(c), ~Linked(c)', OutOK(c)', TouchedInTurn(c)'
    PROVE  BackInv'
<1>1. \A b \in BackendSlots : LessDoing(b) /\ StillAwaited(b) /\ RunAlone(b)'
  <2>1. ASSUME NEW b \in BackendSlots PROVE LessDoing(b) /\ StillAwaited(b) /\ RunAlone(b)'
    <3>1. LessDoing(b) /\ RunAlone(b)'
      BY SameDoing DEF BackInv
    <3>2. StillAwaited(b)
      BY DEF StillAwaited, Awaits, OnlySession, Linked, LinkedPcs
    <3> QED
      BY <3>1, <3>2
  <2> QED
    BY <2>1
<1>2. \A n \in Nodes : Touched(n)' \subseteq Touched(n)
  BY <1>1, LessTouched
<1>3. AnswerOK(c)'
  BY DEF AnswerOK, Linked, LinkedPcs
<1>4. ASSUME NEW d \in Slots \ {c}
      PROVE  AnswerOK(d)' /\ TouchedInTurn(d)'
  <2>1. session'[d] = session[d]
    BY DEF OnlySession
  <2>2. Linked(d) => /\ conn'[session[d].sock] = conn[session[d].sock]
                     /\ backend'[session[d].sock] = backend[session[d].sock]
    BY LinkedSock
  <2>3. AnswerOK(d) /\ TouchedInTurn(d) /\ DoneKept /\ UpIds(d)' \subseteq UpIds(d)
    BY DoneSame DEF BackInv, NoFresh, Older
  <2>4. AnswerOK(d)'
    BY <2>1, <2>2, <2>3, AnswerKeeps
  <2>5. TouchedInTurn(d)'
    BY <1>2, <2>1, <2>3, TurnSame
  <2> QED
    BY <2>4, <2>5
<1> QED
  BY <1>1, <1>3, <1>4, BackKept

LEMMA SessionStepBack ==
    ASSUME Shape, UpInv, BackInv, NEW c \in Slots, UNCHANGED <<client, backend, done, raw>>,
           \/ acceptClients(c) \/ recv_client(c) \/ client_left(c) \/ get_candidates(c)
           \/ no_candidate_left(c) \/ relay(c) \/ relay_503(c) \/ close_client(c)
    PROVE  BackInv'
<1> USE DEF SameRequest, LinkedPcs, WorkingPcs, Linked, Working
<1>1. /\ Types /\ SessionOK(c) /\ c \in Conns /\ c \notin BackendSlots
      /\ OutOK(c) /\ TouchedInTurn(c) /\ UpOnce(c)
  BY SessionIs, WireAssumption DEF UpInv, BackInv, AnswerOK
<1>2. NoFresh /\ Onwards
  BY <1>1, SessionShows, SameClientsOnwards DEF Shows, NoFresh
<1>3. UpIds(c)' \subseteq UpIds(c)
  BY <1>2 DEF NoFresh, Older
<1>4. DoneKept
  BY DoneSame
<1>5. \A b \in BackendSlots : conn'[b] = conn[b]
  <2>1. OthersSame(c) \/ UNCHANGED conn
    BY <1>1, AcceptClientsDoes, AcceptDoes, RecvClientDoes, ClientLeftDoes, GetCandidatesDoes,
       NoCandidateDoes, RelayDoes, Relay503Does, CloseClientDoes
    DEF Types, Took, Wrote, ClosedEnd
  <2> QED
    BY <1>1, <2>1, WireAssumption DEF OthersSame
<1>6. \A n \in Nodes : Touched(n)' \subseteq Touched(n)
  BY <1>5, SameDoing, LessTouched
<1>7. ASSUME OnlySession(c), ~Linked(c), ~Linked(c)', OutOK(c)',
             \/ ~Working(c)
             \/ session[c].req.id \notin UpIds(c)'
             \/ /\ Working(c)' /\ session'[c].req = session[c].req
                /\ Remaining(c)' \subseteq Remaining(c)
      PROVE  BackInv'
  <2>1. TouchedInTurn(c)'
    BY <1>1, <1>3, <1>6, <1>7, TurnKeeps
  <2> QED
    BY <1>2, <1>5, <1>7, <2>1, FrontBack
<1>8. CASE acceptClients(c) \/ client_left(c)
  <2>1. /\ SameRequest(c) /\ session[c].pc \in {"none", "recv"}
        /\ session'[c].pc \in {"recv", "close"}
    BY <1>8, AcceptClientsDoes, ClientLeftDoes
  <2> QED
    BY <1>7, <2>1 DEF OutOK
<1>9. CASE recv_client(c)
  <2>1. session[c].pc = "recv" /\ OnlySession(c)
    BY <1>9, RecvClientDoes
  <2>2. PICK buf \in Seq(Tokens) : session'[c] = Inner(session[c], buf)
    BY <1>9, RecvClientDoes
  <2>3. session'[c].out = None /\ session'[c].pc \in {"route", "close", "recv"}
    BY <2>2, InnerIs
  <2> QED
    BY <1>7, <2>1, <2>3 DEF OutOK
<1>10. CASE get_candidates(c)
  <2>1. /\ SameRequest(c) /\ session[c].pc = "route" /\ session'[c].out = session[c].out
        /\ session'[c].pc \in {"close", "connect"}
    BY <1>10, GetCandidatesDoes
  <2>2. session'[c].out = None
    BY <1>1, <2>1 DEF SessionOK
  <2>3. CASE session'[c].pc = "close"
    BY <1>7, <2>1, <2>2, <2>3 DEF OutOK, UpIds, UpLines
  <2>4. CASE session'[c].pc = "connect"
    <3>1. session'[c].todo \in Seq(Nodes)
      BY <2>1 DEF OnlySession, SessionRec
    <3>2. \A i \in DOMAIN session'[c].todo : session'[c].todo[i] \in Nodes
      BY <3>1, ElementOfSeq, LenProperties
    <3>3. Remaining(c)' \subseteq Nodes /\ Remaining(c) = Nodes
      BY <2>1, <2>4, <3>2 DEF Remaining, Elements
    <3> QED
      BY <1>7, <2>1, <2>2, <2>4, <3>3 DEF OutOK
  <2> QED
    BY <2>1, <2>3, <2>4
<1>11. CASE no_candidate_left(c)
  <2>1. /\ SameRequest(c) /\ session[c].pc = "connect" /\ session'[c].pc = "reply"
        /\ session'[c].out = session[c].out
    BY <1>11, NoCandidateDoes
  <2>2. OutOK(c)'
    BY <1>1, <1>4, <2>1, OutKeeps
  <2>3. Remaining(c)' = {}
    BY <2>1 DEF Remaining
  <2> QED
    BY <1>7, <2>1, <2>2, <2>3
<1>12. CASE relay(c) \/ relay_503(c)
  <2>1. /\ OnlySession(c) /\ session[c].pc = "reply"
        /\ session'[c] \in {Inner(session[c], RestOf(c)), EndedSession}
        /\ OthersSame(c) /\ conn'[c].to["server"] = conn[c].to["server"]
    BY <1>12, RelayDoes, Relay503Does DEF Wrote
  <2>2. RestOf(c) \in Seq(Tokens)
    BY <2>1, RestIs
  <2>3. /\ session'[c].pc \in {"route", "close", "recv"}
        /\ session'[c].out = None \/ session'[c].pc = "close"
        /\ session'[c].pc = "close" \/ session'[c].buf = RestOf(c)
    BY <2>1, <2>2, InnerIs, NoSessionType
  <2>4. session[c].req.id \notin UpIds(c)'
    BY <1>1, <2>1, <2>3, UpAfterErase
  <2> QED
    BY <1>7, <2>1, <2>3, <2>4 DEF OutOK
<1>13. CASE close_client(c)
  <2>1. OnlySession(c) /\ session[c].pc = "close" /\ session'[c].pc = "none"
    BY <1>13, CloseClientDoes, NoSessionType
  <2> QED
    BY <1>7, <2>1 DEF OutOK
<1> QED
  BY <1>8, <1>9, <1>10, <1>11, <1>12, <1>13

(* A session that works with its backend.                                  *)
LEMMA LinkBack ==
    ASSUME Shape, BackInv, NEW c \in Slots, NEW b \in BackendSlots, OnlySession(c),
           UNCHANGED done, Onwards, NoFresh,
           \A d \in BackendSlots \ {b} : conn'[d] = conn[d] /\ backend'[d] = backend[d],
           \A d \in Slots \ {c} : session[d].sock # b,
           session[c].sock \in {None, b},
           LessDoing(b), RunAlone(b)', StillAwaited(b), AnswerOK(c)',
           Working(c)', session'[c].req = session[c].req, Remaining(c)' \subseteq Remaining(c)
    PROVE  BackInv'
<1>1. \A d \in BackendSlots : LessDoing(d) /\ StillAwaited(d) /\ RunAlone(d)'
  <2>1. ASSUME NEW d \in BackendSlots \ {b}
        PROVE  LessDoing(d) /\ StillAwaited(d) /\ RunAlone(d)'
    <3>1. LessDoing(d) /\ RunAlone(d)'
      BY SameDoing DEF BackInv
    <3>2. d # None /\ session[c].sock # d
      BY WireAssumption
    <3>3. StillAwaited(d)
      BY <3>2 DEF StillAwaited, Awaits, OnlySession
    <3> QED
      BY <3>1, <3>3
  <2> QED
    BY <2>1
<1>2. \A n \in Nodes : Touched(n)' \subseteq Touched(n)
  BY <1>1, LessTouched
<1>3. TouchedInTurn(c)'
  BY <1>2, TurnKeeps DEF NoFresh, Older, BackInv
<1>4. ASSUME NEW d \in Slots \ {c}
      PROVE  AnswerOK(d)' /\ TouchedInTurn(d)'
  <2>1. session'[d] = session[d]
    BY DEF OnlySession
  <2>2. Linked(d) => /\ conn'[session[d].sock] = conn[session[d].sock]
                     /\ backend'[session[d].sock] = backend[session[d].sock]
    BY LinkedSock
  <2>3. AnswerOK(d) /\ TouchedInTurn(d) /\ DoneKept /\ UpIds(d)' \subseteq UpIds(d)
    BY DoneSame DEF BackInv, NoFresh, Older
  <2>4. AnswerOK(d)'
    BY <2>1, <2>2, <2>3, AnswerKeeps
  <2>5. TouchedInTurn(d)'
    BY <1>2, <2>1, <2>3, TurnSame
  <2> QED
    BY <2>4, <2>5
<1> QED
  BY <1>1, <1>3, <1>4, BackKept

LEMMA NothingToDo ==
    ASSUME Shape, BackInv, NEW c \in Slots, Linked(c),
           \/ session[c].pc # "wait"
           \/ conn[session[c].sock].at["server"] = "closed"
    PROVE  Doing(session[c].sock) = {}
<1>0. PICK b : b = session[c].sock
  OBVIOUS
<1>1. /\ b \in BackendSlots /\ b \in Conns
      /\ \A d \in Slots : session[d].sock = b => d = c
  BY <1>0, LinkedSock
<1>2. CASE session[c].pc # "wait"
  BY <1>0, <1>1, <1>2 DEF BackInv, NotAbandoned, Awaits
<1>3. CASE conn[b].at["server"] = "closed"
  <2>1. backend[b].node = None /\ conn[b].to["server"] = <<>>
    BY <1>1, <1>3, ConnFields DEF Shape, Types, BackendOK, Ends
  <2>2. backend[b].pc = "read"
    BY <1>1, <2>1, NoBackendType DEF Shape, BackendOK
  <2> QED
    BY <1>0, <2>1, <2>2, EmptyLines DEF Doing
<1> QED
  BY <1>0, <1>2, <1>3

LEMMA ConnectBack ==
    ASSUME Shape, UpInv, BackInv, NEW c \in Slots, UNCHANGED <<client, done, raw>>,
           connectToBackend(c)
    PROVE  BackInv'
<1> USE DEF SameRequest, LinkedPcs, WorkingPcs, Linked, Working
<1>1. /\ Types /\ SessionOK(c) /\ OutOK(c) /\ DoneKept /\ TouchedInTurn(c)
  BY SessionIs, DoneSame DEF BackInv, AnswerOK
<1>2. NoFresh /\ Onwards
  BY LinkStepShows, SameClientsOnwards DEF Shows, NoFresh
<1>3. /\ SameRequest(c) /\ session[c].pc = "connect" /\ session'[c].out = session[c].out
      /\ session[c].todo # <<>> /\ session[c].sock = None
      /\ \/ \E b \in BackendSlots :
               /\ Connect(b, BackendSlots)
               /\ backend' = [backend EXCEPT ![b] =
                      [NoBackend EXCEPT !.node = Head(session[c].todo)]]
               /\ session'[c].pc = "send" /\ session'[c].sock = b
               /\ session'[c].todo = session[c].todo
         \/ /\ session'[c].pc = "connect" /\ session'[c].todo = Tail(session[c].todo)
            /\ session'[c].sock = session[c].sock
            /\ UNCHANGED <<conn, backend>>
  BY ConnectBackendDoes
<1>4. OutOK(c)'
  BY <1>1, <1>3, OutKeeps
<1>5. Head(session[c].todo) \in Nodes /\ session[c].todo \in Seq(Nodes)
  BY <1>1, <1>3, SessionType, TailOf DEF SessionOK
<1>6. ASSUME NEW b \in BackendSlots, Connect(b, BackendSlots),
             backend' = [backend EXCEPT ![b] = [NoBackend EXCEPT !.node = Head(session[c].todo)]],
             session'[c].pc = "send", session'[c].sock = b, session'[c].todo = session[c].todo
      PROVE  BackInv'
  <2>1. b \in Conns /\ b # None /\ BackendSlots \in SUBSET Conns
    BY WireAssumption
  <2>2. /\ OthersSame(b)
        /\ conn[b].at["client"] = "closed" /\ conn[b].at["server"] = "closed"
        /\ conn'[b].to["client"] = <<>> /\ conn'[b].to["server"] = <<>>
    BY <1>1, <2>1, <1>6, ConnectDoes DEF Types
  <2> DEFINE x == [NoBackend EXCEPT !.node = Head(session[c].todo)]
  <2>3. x \in BackendRec /\ x.pc = "read"
    BY <1>5, NoBackendType
  <2> HIDE DEF x
  <2>4. /\ backend'[b] = x
        /\ \A d \in BackendSlots \ {b} : backend'[d] = backend[d]
    BY <1>1, <1>6, <2>3 DEF Types, x
  <2>5. \A d \in BackendSlots \ {b} : conn'[d] = conn[d] /\ backend'[d] = backend[d]
    BY <2>2, <2>4, WireAssumption DEF OthersSame
  <2>6. \A d \in Slots : session[d].sock # b
    <3>1. ASSUME NEW d \in Slots, session[d].sock = b PROVE FALSE
      <4>1. Linked(d)
        BY <2>1, <3>1 DEF Shape, SessionOK
      <4> QED
        BY <2>2, <3>1, <4>1, LinkedSock
    <3> QED
      BY <3>1
  <2>7. Doing(b)' = {} /\ backend'[b].pc = "read" /\ Lines(conn'[b].to["client"]) = {}
    BY <2>2, <2>3, <2>4, EmptyLines DEF Doing
  <2>8. LessDoing(b) /\ RunAlone(b)' /\ StillAwaited(b)
    BY <2>7 DEF LessDoing, RunAlone, StillAwaited
  <2>9. AnswerOK(c)'
    BY <1>4, <1>6, <2>7 DEF AnswerOK, Lines, IsLine
  <2>10. Remaining(c)' \subseteq Remaining(c)
    BY <1>3, <1>6 DEF Remaining
  <2> QED
    BY <1>2, <1>3, <1>6, <2>5, <2>6, <2>8, <2>9, <2>10, LinkBack
<1>7. CASE /\ session'[c].pc = "connect" /\ session'[c].todo = Tail(session[c].todo)
           /\ session'[c].sock = session[c].sock
           /\ UNCHANGED <<conn, backend>>
  <2>1. Remaining(c)' \subseteq Remaining(c)
    <3>1. \A i \in DOMAIN Tail(session[c].todo) :
              \E j \in DOMAIN session[c].todo : session[c].todo[j] = Tail(session[c].todo)[i]
      BY <1>1, <1>3, <1>5, TailOf DEF SessionOK
    <3> QED
      BY <1>3, <1>7, <3>1 DEF Remaining, Elements
  <2>2. \A n \in Nodes : Touched(n)' \subseteq Touched(n)
    BY <1>7, SameDoing, LessTouched
  <2>3. TouchedInTurn(c)'
    BY <1>1, <1>2, <1>3, <1>7, <2>1, <2>2, TurnKeeps DEF NoFresh, Older
  <2> QED
    BY <1>2, <1>3, <1>4, <1>7, <2>3, FrontBack
<1> QED
  BY <1>3, <1>6, <1>7

LEMMA RecvBackendBack ==
    ASSUME Shape, UpInv, BackInv, NEW c \in Slots, UNCHANGED <<client, backend, done, raw>>,
           recv_backend(c)
    PROVE  BackInv'
<1> USE DEF SameRequest, LinkedPcs, WorkingPcs, Linked, Working
<1>0. PICK b : b = session[c].sock
  OBVIOUS
<1>1. /\ SameRequest(c) /\ session[c].pc = "wait" /\ session'[c].pc \in {"wait", "answered"}
      /\ session'[c].out = session[c].out
      /\ session'[c].todo = session[c].todo /\ session'[c].sock = b
      /\ session'[c].pc = "answered" =>
            1 \in DOMAIN session'[c].rbuf /\ IsLine(session'[c].rbuf, 1)
  BY <1>0, RecvBackendDoes
<1>2. PICK n \in 1 .. Len(conn[b].to["client"]) :
          /\ Took(b, "client", n)
          /\ session'[c].rbuf = session[c].rbuf \o Received(b, "client", n)
  BY <1>0, RecvBackendDoes
<1>3. /\ b \in BackendSlots /\ b \in Conns /\ b # None
      /\ \A d \in Slots : session[d].sock = b => d = c
  BY <1>0, <1>1, LinkedSock
<1>4. /\ AnswerOK(c) /\ OutOK(c) /\ DoneKept /\ NotAbandoned(b) /\ RunAlone(b)
  BY <1>3, DoneSame DEF BackInv, AnswerOK
<1>5. NoFresh /\ Onwards
  BY LinkStepShows, SameClientsOnwards DEF Shows, NoFresh
<1>6. /\ OthersSame(b) /\ conn'[b].to["server"] = conn[b].to["server"]
      /\ conn'[b].to["client"] = SubSeq(conn[b].to["client"], n + 1, Len(conn[b].to["client"]))
  BY <1>2 DEF Took, Other
<1>7. Doing(b)' = Doing(b)
  BY <1>6 DEF Doing
<1>8. Heard(c)' = Heard(c)
  <2> DEFINE t == conn[b].to["client"]
             front == SubSeq(t, 1, n)
             back == SubSeq(t, n + 1, Len(t))
             r == session[c].rbuf
  <2>1. t \in Seq(Tokens) /\ r \in Seq(Tokens) /\ n \in 0 .. Len(t)
    BY <1>3, SessionType, BackendType DEF Shape
  <2> HIDE DEF t, r
  <2>2. front \in Seq(Tokens) /\ back \in Seq(Tokens) /\ Lines(t) = Lines(front) \union Lines(back)
    BY <2>1, CutIds
  <2>3. Lines(r \o front) = Lines(r) \union Lines(front)
    BY <2>1, <2>2, JoinedLines
  <2>4. session'[c].rbuf = r \o front /\ conn'[b].to["client"] = back
    BY <1>2, <1>6 DEF Received, t, r
  <2> HIDE DEF front, back
  <2>5. Heard(c) = Lines(r) \union Lines(t)
                     \union (IF backend[b].pc = "write" THEN {backend[b].res} ELSE {})
    BY <1>0 DEF Heard, t, r
  <2>6. Heard(c)' = Lines(r \o front) \union Lines(back)
                     \union (IF backend[b].pc = "write" THEN {backend[b].res} ELSE {})
    BY <1>1, <2>4 DEF Heard, Lines, IsLine
  <2> QED
    BY <2>2, <2>3, <2>5, <2>6
<1>9. session'[c].pc = "answered" => Heard(c) # {}
  <2>1. ASSUME session'[c].pc = "answered" PROVE session'[c].rbuf[1].m \in Heard(c)'
    BY <1>1, <2>1 DEF Heard, Lines
  <2> QED
    BY <1>8, <2>1
<1>10. session'[c].pc = "answered" => Doing(b) = {}
  BY <1>0, <1>1, <1>4, <1>9 DEF AnswerOK
<1>11. OutOK(c)'
  BY <1>1, <1>4, OutKeeps
<1>12. AnswerOK(c)'
  <2>1. \A m : Served(m) => Served(m)'
    BY <1>4, ServedStays
  <2>2. \A m \in Heard(c) : m.id = session[c].req.id /\ Served(m)
    BY <1>1, <1>4 DEF AnswerOK
  <2>3. Heard(c) # {} => Doing(b) = {}
    BY <1>0, <1>1, <1>4 DEF AnswerOK
  <2>4. Doing(session[c].sock)' = Doing(b)
    BY <1>1, <1>7 DEF Doing
  <2>5. \A m \in Heard(c)' : m.id = session'[c].req.id /\ Served(m)'
    BY <1>1, <1>8, <2>1, <2>2
  <2> QED
    BY <1>1, <1>8, <1>11, <2>3, <2>4, <2>5 DEF AnswerOK
<1>13. LessDoing(b) /\ RunAlone(b)' /\ StillAwaited(b)
  <2>1. StillAwaited(b)
    BY <1>1, <1>3, <1>7, <1>10 DEF StillAwaited, Awaits
  <2> QED
    BY <1>4, <1>6, <1>7, <2>1 DEF LessDoing, RunAlone
<1>14. Remaining(c)' \subseteq Remaining(c)
  BY <1>1 DEF Remaining
<1>15. \A d \in BackendSlots \ {b} : conn'[d] = conn[d] /\ backend'[d] = backend[d]
  BY <1>6, WireAssumption DEF OthersSame
<1> QED
  BY <1>0, <1>1, <1>3, <1>5, <1>12, <1>13, <1>14, <1>15, LinkBack

LEMMA LeaveBackendBack ==
    ASSUME Shape, UpInv, BackInv, NEW c \in Slots, UNCHANGED <<client, backend, done, raw>>,
           backend_left(c) \/ take_response(c) \/ next_candidate(c)
    PROVE  BackInv'
<1> USE DEF SameRequest, LinkedPcs, WorkingPcs, Linked, Working
<1>0. PICK b : b = session[c].sock
  OBVIOUS
<1>1. /\ SameRequest(c) /\ session[c].pc \in {"wait", "answered", "failed"}
      /\ session'[c].pc \in {"failed", "connect", "reply"}
      /\ session[c].pc = "wait" =>
            conn[b].at["server"] = "closed" /\ UNCHANGED conn
      /\ session'[c].pc = "failed" => session'[c].todo = session[c].todo /\ session[c].pc = "wait"
      /\ session'[c].pc # "failed" =>
            session'[c].todo = Tail(session[c].todo) /\ ClosedEnd(b, "client")
      /\ \/ session'[c].out = session[c].out
         \/ session[c].pc = "answered" /\ session'[c].out = session[c].rbuf[1].m
  BY <1>0, BackendLeftDoes, TakeResponseDoes, NextCandidateDoes
<1>2. /\ b \in BackendSlots /\ b \in Conns /\ b # None
      /\ \A d \in Slots : session[d].sock = b => d = c
  BY <1>0, <1>1, LinkedSock
<1>3. /\ AnswerOK(c) /\ OutOK(c) /\ DoneKept /\ NotAbandoned(b) /\ RunAlone(b)
      /\ SessionOK(c) /\ Types
  BY <1>2, DoneSame DEF BackInv, AnswerOK, Shape
<1>4. NoFresh /\ Onwards
  BY LinkStepShows, SameClientsOnwards DEF Shows, NoFresh
<1>5. Doing(b) = {}
  BY <1>0, <1>1, NothingToDo
<1>6. OthersSame(b) /\ IdsOf(conn'[b].to["server"]) = {}
  <2>1. CASE UNCHANGED conn
    BY <1>5, <2>1 DEF OthersSame, Doing
  <2>2. CASE ClosedEnd(b, "client")
    <3>1. PICK t : t = conn[b].to["server"]
      OBVIOUS
    <3>2. PICK n \in 0 .. Len(t) : conn'[b].to["server"] = SubSeq(t, 1, n)
      BY <2>2, <3>1 DEF ClosedEnd, Other
    <3>3. t \in Seq(Tokens) /\ IdsOf(t) = {}
      BY <1>2, <1>3, <1>5, <3>1, BackendType DEF Doing
    <3>4. IdsOf(SubSeq(t, 1, n)) \subseteq IdsOf(t)
      BY <3>3, FrontLines
    <3> QED
      BY <2>2, <3>2, <3>3, <3>4 DEF ClosedEnd
  <2> QED
    BY <1>1, <2>1, <2>2
<1>7. backend[b].pc # "run"
  BY <1>5 DEF Doing
<1>8. Doing(b)' = {} /\ LessDoing(b) /\ RunAlone(b)' /\ StillAwaited(b)
  <2>1. Doing(b)' = {}
    BY <1>6, <1>7 DEF Doing
  <2> QED
    BY <1>6, <2>1 DEF LessDoing, RunAlone, StillAwaited
<1>9. OutOK(c)'
  <2>1. CASE session'[c].out = session[c].out
    BY <1>1, <1>3, <2>1, OutKeeps
  <2>2. CASE session[c].pc = "answered" /\ session'[c].out = session[c].rbuf[1].m
    <3>0. PICK m : m = session[c].rbuf[1].m
      OBVIOUS
    <3>1. m \in Lines(session[c].rbuf)
      BY <1>3, <2>2, <3>0, LineIn DEF SessionOK
    <3>2. m.id = session[c].req.id /\ Served(m)
      BY <1>3, <2>2, <3>1 DEF AnswerOK, Heard
    <3>3. Served(m)'
      BY <1>3, <3>2, ServedStays
    <3> QED
      BY <1>1, <2>2, <3>0, <3>2, <3>3 DEF OutOK
  <2> QED
    BY <1>1, <2>1, <2>2
<1>10. AnswerOK(c)'
  BY <1>1, <1>9 DEF AnswerOK
<1>11. Remaining(c)' \subseteq Remaining(c)
  BY <1>1 DEF Remaining
<1>12. \A d \in BackendSlots \ {b} : conn'[d] = conn[d] /\ backend'[d] = backend[d]
  BY <1>6, WireAssumption DEF OthersSame
<1>13. Working(c)' /\ session'[c].req = session[c].req /\ OnlySession(c)
  BY <1>1
<1>14. \A d \in Slots \ {c} : session[d].sock # b
  BY <1>2
<1>15. session[c].sock \in {None, b}
  BY <1>0
<1> QED
  BY <1>2, <1>4, <1>8, <1>10, <1>11, <1>12, <1>13, <1>14, <1>15, LinkBack

(* The one step by which a backend gets a request.                         *)
LEMMA SendRequestBack ==
    ASSUME Shape, UpInv, BackInv, NEW c \in Slots, UNCHANGED <<client, backend, done, raw>>,
           send_request(c)
    PROVE  BackInv'
<1> USE DEF SameRequest, LinkedPcs, WorkingPcs, Linked, Working
<1>0. PICK b, id : b = session[c].sock /\ id = session[c].req.id
  OBVIOUS
<1>1. /\ SameRequest(c) /\ session[c].pc = "send" /\ session'[c].pc = "wait"
      /\ session'[c].rbuf = <<>> /\ session'[c].out = session[c].out
      /\ session'[c].todo = session[c].todo /\ session'[c].sock = b
  BY <1>0, SendRequestDoes
<1>2. PICK m \in Msgs : m.id = id /\ Wrote(b, "client", WholeOf(m))
  BY <1>0, SendRequestDoes
<1>3. /\ b \in BackendSlots /\ b \in Conns /\ b # None
      /\ \A d \in Slots : session[d].sock = b => d = c
  BY <1>0, <1>1, LinkedSock
<1>4. /\ AnswerOK(c) /\ OutOK(c) /\ DoneKept /\ SessionOK(c) /\ Types
      /\ TouchedInTurn(c) /\ id \in UpIds(c)
      /\ conn[b].to["server"] \in Seq(Tokens)
  BY <1>0, <1>1, <1>3, DoneSame, WorkingRequest, BackendType DEF BackInv, AnswerOK, Shape
<1>5. NoFresh /\ Onwards
  BY LinkStepShows, SameClientsOnwards DEF Shows, NoFresh
<1>6. /\ Doing(b) = {} /\ Lines(conn[b].to["client"]) = {} /\ backend[b].pc = "read"
  BY <1>0, <1>1, <1>4, NothingToDo DEF AnswerOK
<1>7. /\ OthersSame(b) /\ conn'[b].to["client"] = conn[b].to["client"]
      /\ \/ Gone(b, "server") /\ conn'[b].to["server"] = conn[b].to["server"]
         \/ ~Gone(b, "server") /\ conn'[b].to["server"] = conn[b].to["server"] \o WholeOf(m)
  BY <1>2 DEF Wrote, Other
<1>8. \/ Doing(b)' = {}
      \/ Doing(b)' = {id} /\ ~Gone(b, "server")
  <2>1. CASE conn'[b].to["server"] = conn[b].to["server"]
    BY <1>6, <2>1 DEF Doing
  <2>2. CASE ~Gone(b, "server") /\ conn'[b].to["server"] = conn[b].to["server"] \o WholeOf(m)
    <3>1. WholeOf(m) \in Seq(Tokens) /\ IdsOf(WholeOf(m)) = {id}
      BY <1>2, WholeLines DEF WholeOf
    <3>2. IdsOf(conn[b].to["server"] \o WholeOf(m))
            = IdsOf(conn[b].to["server"]) \union IdsOf(WholeOf(m))
      BY <1>4, <3>1, JoinedLines
    <3>3. IdsOf(conn[b].to["server"]) = {}
      BY <1>6 DEF Doing
    <3> QED
      BY <1>6, <2>2, <3>1, <3>2, <3>3 DEF Doing
  <2> QED
    BY <1>7, <2>1, <2>2
<1>9. OutOK(c)'
  BY <1>1, <1>4, OutKeeps
<1>10. AnswerOK(c)'
  <2>1. Heard(c)' = {}
    <3>1. Lines(session'[c].rbuf) = {} /\ Lines(conn'[b].to["client"]) = {}
      BY <1>1, <1>6, <1>7, EmptyLines
    <3> QED
      BY <1>1, <1>6, <3>1 DEF Heard, Lines, IsLine
  <2> QED
    BY <1>1, <1>9, <2>1 DEF AnswerOK
<1>11. Remaining(c)' \subseteq Remaining(c) /\ session[c].todo \in Seq(Nodes) /\ session[c].todo # <<>>
  <2>1. session[c].todo \in Seq(Nodes) /\ session[c].todo # <<>> /\ NoRepeat(session[c].todo)
    BY <1>1, <1>4, SessionType DEF SessionOK
  <2>2. \A i \in DOMAIN Tail(session[c].todo) :
            \E j \in DOMAIN session[c].todo : session[c].todo[j] = Tail(session[c].todo)[i]
    BY <2>1, TailOf
  <2> QED
    BY <1>1, <2>1, <2>2 DEF Remaining, Elements
<1>12. \A d \in BackendSlots \ {b} : conn'[d] = conn[d] /\ backend'[d] = backend[d]
  BY <1>7, WireAssumption DEF OthersSame
<1>13. RunAlone(b)'
  BY <1>6 DEF RunAlone
<1>14. CASE Doing(b)' = {}
  <2>1. LessDoing(b) /\ StillAwaited(b)
    BY <1>14 DEF LessDoing, StillAwaited
  <2>2. \A d \in Slots \ {c} : session[d].sock # b
    BY <1>3
  <2> QED
    BY <1>0, <1>1, <1>3, <1>5, <1>10, <1>11, <1>12, <1>13, <2>1, <2>2, LinkBack
<1>15. CASE Doing(b)' = {id} /\ ~Gone(b, "server")
  <2>0. PICK n : n = backend[b].node
    OBVIOUS
  <2>1. n = Head(session[c].todo) /\ n \in Nodes
    <3>1. n # None
      BY <1>3, <1>15, <2>0 DEF Shape, BackendOK, Gone
    <3>2. n \in {None, Head(session[c].todo)} /\ Head(session[c].todo) \in Nodes
      BY <1>0, <1>1, <1>4, <1>11, <2>0, TailOf DEF SessionOK
    <3> QED
      BY <3>1, <3>2
  <2>2. n \in Remaining(c) /\ n \notin Remaining(c)'
    <3>1. NoRepeat(session[c].todo)
      BY <1>4 DEF SessionOK
    <3>2. /\ \A i \in DOMAIN Tail(session[c].todo) : Tail(session[c].todo)[i] # n
          /\ \E j \in DOMAIN session[c].todo : session[c].todo[j] = n
      BY <1>11, <2>1, <3>1, TailOf
    <3> QED
      BY <1>1, <3>2 DEF Remaining, Elements
  <2>3. id \notin Touched(n)
    BY <1>4, <2>1, <2>2 DEF TouchedInTurn
  <2>4. \A d \in BackendSlots \ {b} : Doing(d)' = Doing(d) /\ RunAlone(d)'
    BY <1>12, SameDoing DEF BackInv
  <2>5. \A x \in Nodes : Touched(x)' \subseteq Touched(x) \union (IF x = n THEN {id} ELSE {})
    <3>1. ASSUME NEW x \in Nodes, NEW y \in Touched(x)'
          PROVE  y \in Touched(x) \union (IF x = n THEN {id} ELSE {})
      <4>1. CASE y \in DoneIds(x)'
        BY <4>1 DEF Touched, DoneIds
      <4>2. ASSUME NEW d \in BackendSlots, backend[d].node = x, y \in Doing(d)'
            PROVE  y \in Touched(x) \union (IF x = n THEN {id} ELSE {})
        BY <1>15, <2>0, <2>4, <4>2 DEF Touched
      <4> QED
        BY <3>1, <4>1, <4>2 DEF Touched
    <3> QED
      BY <3>1
  <2>6. \A d \in BackendSlots : NotAbandoned(d)' /\ RunAlone(d)'
    <3>1. NotAbandoned(b)'
      BY <1>0, <1>1, <1>15 DEF NotAbandoned, Awaits
    <3>2. ASSUME NEW d \in BackendSlots \ {b} PROVE NotAbandoned(d)'
      <4>1. NotAbandoned(d) /\ Doing(d)' = Doing(d)
        BY <2>4 DEF BackInv
      <4>2. \A e \in Slots : Awaits(e, d) => Awaits(e, d)' /\ session'[e] = session[e]
        BY <1>1 DEF Awaits, OnlySession
      <4> QED
        BY <4>1, <4>2 DEF NotAbandoned
    <3> QED
      BY <1>13, <2>4, <3>1, <3>2
  <2>7. \A x \in Nodes : DoneOnce(x)' /\ \A y \in Touched(x)' : IsIssued(y)'
    <3>1. ASSUME NEW x \in Nodes PROVE DoneOnce(x)'
      <4>1. DoneOnce(x) /\ DoneIds(x)' = DoneIds(x)
        BY DEF BackInv, DoneIds
      <4>2. ASSUME NEW d \in BackendSlots, backend[d].node = x
            PROVE  Doing(d)' \intersect DoneIds(x) = {}
        <5>1. CASE d = b
          BY <1>15, <2>0, <2>3, <4>2, <5>1 DEF Touched
        <5>2. CASE d # b
          BY <2>4, <4>1, <4>2, <5>2 DEF DoneOnce
        <5> QED
          BY <5>1, <5>2
      <4> QED
        BY <4>1, <4>2 DEF DoneOnce
    <3>2. \A x \in Nodes : \A y \in Touched(x) : IsIssued(y)
      BY DEF BackInv
    <3>3. IsIssued(id)
      BY <1>4 DEF UpInv
    <3>4. ASSUME NEW x \in Nodes, NEW y \in Touched(x)' PROVE IsIssued(y)'
      <4>1. IsIssued(y)
        BY <2>5, <3>2, <3>3
      <4> QED
        BY <1>4, <1>5, <4>1, IssuedStays
    <3> QED
      BY <3>1, <3>4
  <2>8. TouchedInTurn(c)'
    <3>1. ASSUME NEW y \in UpIds(c)', NEW x \in Nodes, y \in Touched(x)'
          PROVE  y = id /\ x \notin Remaining(c)'
      <4>1. y \in UpIds(c)
        BY <1>5 DEF NoFresh, Older
      <4>2. CASE y \in Touched(x)
        BY <1>0, <1>4, <1>11, <4>1, <4>2 DEF TouchedInTurn
      <4>3. CASE x = n /\ y = id
        BY <2>2, <4>3
      <4> QED
        BY <2>5, <3>1, <4>2, <4>3
    <3> QED
      BY <1>0, <1>1, <3>1 DEF TouchedInTurn
  <2>9. ASSUME NEW e \in Slots \ {c}
        PROVE  AnswerOK(e)' /\ TouchedInTurn(e)'
    <3>1. session'[e] = session[e] /\ AnswerOK(e) /\ TouchedInTurn(e) /\ UpIds(e)' \subseteq UpIds(e)
      BY <1>1, <1>5 DEF OnlySession, BackInv, NoFresh, Older
    <3>2. Linked(e) => /\ conn'[session[e].sock] = conn[session[e].sock]
                       /\ backend'[session[e].sock] = backend[session[e].sock]
      BY <1>3, <1>12, LinkedSock
    <3>3. AnswerOK(e)'
      BY <1>4, <3>1, <3>2, AnswerKeeps
    <3>4. id \notin UpIds(e)
      BY <1>4 DEF UpInv, OneSession
    <3>5. ASSUME NEW y \in UpIds(e)', NEW x \in Nodes, y \in Touched(x)'
          PROVE  Working(e)' /\ y = session'[e].req.id /\ x \notin Remaining(e)'
      <4>1. y \in UpIds(e) /\ y \in Touched(x)
        BY <2>5, <3>1, <3>4, <3>5
      <4>2. Working(e) /\ y = session[e].req.id /\ x \notin Remaining(e)
        BY <3>1, <4>1 DEF TouchedInTurn
      <4> QED
        BY <3>1, <4>2 DEF Remaining
    <3> QED
      BY <3>3, <3>5 DEF TouchedInTurn
  <2> QED
    BY <1>10, <2>6, <2>7, <2>8, <2>9 DEF BackInv
<1> QED
  BY <1>8, <1>14, <1>15

(* A backend that gets nothing more to do, and says nothing new.           *)
LEMMA AnswerShrinks ==
    ASSUME NEW c \in Slots, AnswerOK(c), session'[c] = session[c], DoneKept,
           Heard(c)' \subseteq Heard(c),
           Doing(session[c].sock)' \subseteq Doing(session[c].sock),
           session[c].pc = "send" =>
               /\ Lines(conn'[session[c].sock].to["client"]) = {}
               /\ backend'[session[c].sock].pc = "read"
    PROVE  AnswerOK(c)'
<1>1. OutOK(c)'
  BY ServedStays DEF AnswerOK, OutOK, Working
<1>2. \A m : Served(m) => Served(m)'
  BY ServedStays
<1>3. session[c].pc \in {"wait", "answered"} =>
        /\ \A m \in Heard(c)' : m.id = session[c].req.id /\ Served(m)'
        /\ Heard(c)' # {} => Doing(session[c].sock)' = {}
  BY <1>2 DEF AnswerOK
<1>4. session[c].pc = "send" =>
        /\ Lines(conn[session[c].sock].to["client"])' = {}
        /\ backend'[session[c].sock].pc = "read"
  BY DEF Lines, IsLine
<1> QED
  BY <1>1, <1>3, <1>4 DEF AnswerOK

LEMMA BackendBack ==
    ASSUME Shape, BackInv, NEW b \in BackendSlots, OnlyBackend(b),
           UNCHANGED <<client, session, raw>>, NoFresh, Onwards,
           OthersSame(b), UNCHANGED done, LessDoing(b), RunAlone(b)',
           \A c \in Slots : session[c].sock = b => AnswerOK(c)'
    PROVE  BackInv'
<1>1. \A d \in BackendSlots \ {b} : conn'[d] = conn[d] /\ backend'[d] = backend[d]
  BY WireAssumption DEF OnlyBackend, OthersSame
<1>2. \A d \in BackendSlots : LessDoing(d) /\ StillAwaited(d) /\ RunAlone(d)'
  <2>1. ASSUME NEW d \in BackendSlots \ {b} PROVE LessDoing(d) /\ RunAlone(d)'
    BY <1>1, SameDoing DEF BackInv
  <2>2. \A d \in BackendSlots : StillAwaited(d)
    BY DEF StillAwaited, Awaits
  <2> QED
    BY <2>1, <2>2
<1>3. \A n \in Nodes : Touched(n)' \subseteq Touched(n)
  BY <1>2, LessTouched
<1>4. \A c \in Slots : TouchedInTurn(c)'
  BY <1>3, TurnSame DEF NoFresh, Older, BackInv
<1>5. \A c \in Slots : AnswerOK(c)'
  <2>1. ASSUME NEW c \in Slots, session[c].sock # b PROVE AnswerOK(c)'
    <3>1. Linked(c) => /\ conn'[session[c].sock] = conn[session[c].sock]
                       /\ backend'[session[c].sock] = backend[session[c].sock]
      BY <1>1, <2>1, LinkedSock
    <3>2. AnswerOK(c) /\ DoneKept /\ session'[c] = session[c]
      BY DoneSame DEF BackInv
    <3> QED
      BY <3>1, <3>2, AnswerKeeps
  <2> QED
    BY <2>1
<1> QED
  BY <1>2, <1>4, <1>5, BackKept

LEMMA ServeReadBack ==
    ASSUME Shape, UpInv, BackInv, NEW b \in BackendSlots, UNCHANGED <<client, session, raw>>,
           serve_read(b)
    PROVE  BackInv'
<1>1. /\ OnlyBackend(b) /\ backend[b].pc = "read"
      /\ backend'[b].pc = "run" /\ backend'[b].node = backend[b].node
      /\ backend'[b].req \in Lines(conn[b].to["server"])
      /\ OthersSame(b)
      /\ conn'[b].to["server"] = <<>> /\ conn'[b].to["client"] = conn[b].to["client"]
  BY ServeReadDoes
<1>2. NoFresh /\ Onwards
  BY BackendStepUp DEF BackendStep, UpKept
<1>3. UNCHANGED done
  BY DEF serve_read
<1>4. IdsOf(conn[b].to["server"])' = {}
  <2>1. IdsOf(conn'[b].to["server"]) = {}
    BY <1>1, EmptyLines
  <2> QED
    BY <2>1
<1>5. Doing(b)' \subseteq Doing(b) /\ Doing(b) # {}
  <2>1. backend'[b].req.id \in IdsOf(conn[b].to["server"])
    BY <1>1 DEF IdsOf
  <2> QED
    BY <1>1, <1>4, <2>1 DEF Doing
<1>6. ASSUME NEW c \in Slots, session[c].sock = b
      PROVE  AnswerOK(c)'
  <2>1. session[c].pc = "wait"
    BY <1>5, <1>6, WireAssumption DEF BackInv, NotAbandoned, Awaits, Shape, OneOwner
  <2>2. AnswerOK(c) /\ DoneKept
    BY <1>3, DoneSame DEF BackInv
  <2>3. Heard(c)' \subseteq Heard(c)
    BY <1>1, <1>6 DEF Heard
  <2>4. Doing(session[c].sock)' \subseteq Doing(session[c].sock)
    BY <1>5, <1>6
  <2> QED
    BY <2>1, <2>2, <2>3, <2>4, AnswerShrinks
<1> QED
  BY <1>1, <1>2, <1>3, <1>4, <1>5, <1>6, BackendBack DEF LessDoing, RunAlone

LEMMA ServeWriteBack ==
    ASSUME Shape, UpInv, BackInv, NEW b \in BackendSlots, UNCHANGED <<client, session, raw>>,
           serve_write(b)
    PROVE  BackInv'
<1>1. /\ OnlyBackend(b) /\ backend[b].pc = "write" /\ backend[b].res \in Msgs
      /\ backend'[b].pc = "read" /\ backend'[b].node = backend[b].node
      /\ Wrote(b, "server", WholeOf(backend[b].res))
  BY ServeWriteDoes
<1>2. NoFresh /\ Onwards
  BY BackendStepUp DEF BackendStep, UpKept
<1>3. UNCHANGED done
  BY DEF serve_write
<1>4. /\ OthersSame(b) /\ conn'[b].to["server"] = conn[b].to["server"]
      /\ \/ conn'[b].to["client"] = conn[b].to["client"]
         \/ conn'[b].to["client"] = conn[b].to["client"] \o WholeOf(backend[b].res)
  BY <1>1 DEF Wrote, Other
<1>5. Doing(b)' = Doing(b)
  BY <1>1, <1>4 DEF Doing
<1>6. Lines(conn'[b].to["client"]) \subseteq Lines(conn[b].to["client"]) \union {backend[b].res}
  <2> DEFINE t == conn[b].to["client"]
             w == WholeOf(backend[b].res)
  <2>1. t \in Seq(Tokens) /\ w \in Seq(Tokens) /\ Lines(w) = {backend[b].res}
    BY <1>1, BackendType, WholeLines DEF WholeOf, Shape
  <2>2. Lines(t \o w) = Lines(t) \union Lines(w)
    <3> HIDE DEF t, w
    <3> QED
      BY <2>1, JoinedLines
  <2> QED
    BY <1>4, <2>1, <2>2
<1>7. ASSUME NEW c \in Slots, session[c].sock = b
      PROVE  AnswerOK(c)'
  <2>1. session[c].pc # "send"
    BY <1>1, <1>7 DEF BackInv, AnswerOK
  <2>2. AnswerOK(c) /\ DoneKept
    BY <1>3, DoneSame DEF BackInv
  <2>3. Heard(c)' \subseteq Heard(c)
    <3>1. Heard(c)' = Lines(session[c].rbuf) \union Lines(conn'[b].to["client"])
      BY <1>1, <1>7 DEF Heard, Lines, IsLine
    <3>2. Heard(c) = Lines(session[c].rbuf) \union Lines(conn[b].to["client"])
                       \union {backend[b].res}
      BY <1>1, <1>7 DEF Heard
    <3> QED
      BY <1>6, <3>1, <3>2
  <2>4. Doing(session[c].sock)' \subseteq Doing(session[c].sock)
    BY <1>5, <1>7
  <2> QED
    BY <2>1, <2>2, <2>3, <2>4, AnswerShrinks
<1>8. RunAlone(b)' /\ LessDoing(b)
  BY <1>1, <1>5 DEF LessDoing, RunAlone
<1> QED
  BY <1>1, <1>2, <1>3, <1>4, <1>7, <1>8, BackendBack

LEMMA BackendEndBack ==
    ASSUME Shape, UpInv, BackInv, NEW b \in BackendSlots, UNCHANGED <<client, session, raw>>,
           serve_end(b) \/ backend_dies(b)
    PROVE  BackInv'
<1>1. OnlyBackend(b) /\ backend'[b] = NoBackend /\ ClosedEnd(b, "server")
  BY BackendEndDoes
<1>2. NoFresh /\ Onwards
  BY BackendStepUp DEF BackendStep, UpKept
<1>3. UNCHANGED done
  BY DEF serve_end, backend_dies
<1>4. /\ OthersSame(b) /\ conn'[b].to["server"] = <<>>
      /\ \E n \in 0 .. Len(conn[b].to["client"]) :
            conn'[b].to["client"] = SubSeq(conn[b].to["client"], 1, n)
  BY <1>1 DEF ClosedEnd, Other
<1>5. Doing(b)' = {} /\ backend'[b].pc = "read"
  <2>1. IdsOf(conn'[b].to["server"]) = {} /\ backend'[b].pc = "read"
    BY <1>1, <1>4, EmptyLines, NoBackendType
  <2> QED
    BY <2>1 DEF Doing
<1>6. Lines(conn'[b].to["client"]) \subseteq Lines(conn[b].to["client"])
  BY <1>4, BackendType, FrontLines DEF Shape
<1>7. ASSUME NEW c \in Slots, session[c].sock = b
      PROVE  AnswerOK(c)'
  <2>1. AnswerOK(c) /\ DoneKept
    BY <1>3, DoneSame DEF BackInv
  <2>2. Heard(c)' \subseteq Heard(c)
    <3>1. Heard(c)' = Lines(session[c].rbuf) \union Lines(conn'[b].to["client"])
      BY <1>5, <1>7 DEF Heard, Lines, IsLine
    <3>2. Lines(session[c].rbuf) \union Lines(conn[b].to["client"]) \subseteq Heard(c)
      BY <1>7 DEF Heard
    <3> QED
      BY <1>6, <3>1, <3>2
  <2>3. Doing(session[c].sock)' \subseteq Doing(session[c].sock)
    BY <1>5, <1>7
  <2>4. session[c].pc = "send" => /\ Lines(conn'[session[c].sock].to["client"]) = {}
                                  /\ backend'[session[c].sock].pc = "read"
    BY <1>5, <1>6, <1>7, <2>1 DEF AnswerOK
  <2> QED
    BY <2>1, <2>2, <2>3, <2>4, AnswerShrinks
<1>8. RunAlone(b)' /\ LessDoing(b)
  BY <1>5 DEF LessDoing, RunAlone
<1> QED
  BY <1>1, <1>2, <1>3, <1>4, <1>7, <1>8, BackendBack

(* The one step by which a request is done.                                *)
LEMMA AppendedIs ==
    ASSUME NEW S, NEW s \in Seq(S), NEW x \in S
    PROVE  /\ DOMAIN Append(s, x) = DOMAIN s \union {Len(s) + 1}
           /\ Len(s) + 1 \notin DOMAIN s
           /\ Append(s, x)[Len(s) + 1] = x
           /\ \A i \in DOMAIN s : Append(s, x)[i] = s[i]
<1>1. Len(s) \in Nat /\ DOMAIN s = 1 .. Len(s)
  BY LenProperties
<1>2. DOMAIN Append(s, x) = 1 .. Len(s) + 1
  BY AppendProperties, LenProperties
<1> QED
  BY <1>1, <1>2, AppendProperties

LEMMA ServeRunBack ==
    ASSUME Shape, UpInv, BackInv, NEW b \in BackendSlots, UNCHANGED <<client, session, raw>>,
           serve_run(b)
    PROVE  BackInv'
<1>0. PICK n, id : n = backend[b].node /\ id = backend[b].req.id
  OBVIOUS
<1>1. /\ OnlyBackend(b) /\ n \in Nodes /\ backend[b].pc = "run"
      /\ backend'[b].pc = "write" /\ backend'[b].node = n
      /\ UNCHANGED conn
  BY <1>0, ServeRunDoes
<1>2. PICK code \in Codes :
          /\ backend'[b].res \in Msgs
          /\ backend'[b].res.id = id /\ backend'[b].res.kind = code
          /\ [id |-> id, kind |-> code] \in [id : Ids, kind : Codes]
          /\ done' = [done EXCEPT ![n] = Append(@, [id |-> id, kind |-> code])]
  BY <1>0, ServeRunDoes
<1>3. PICK x : x = [id |-> id, kind |-> code]
  OBVIOUS
<1>4. /\ done' \in [Nodes -> Seq([id : Ids, kind : Codes])]
      /\ \A m \in Nodes \ {n} : done'[m] = done[m]
      /\ done[n] \in Seq([id : Ids, kind : Codes]) /\ done'[n] = Append(done[n], x)
      /\ x \in [id : Ids, kind : Codes] /\ x.id = id
  BY <1>1, <1>2, <1>3, DoneType DEF Shape
<1>5. PICK i0 : i0 = Len(done[n]) + 1
  OBVIOUS
<1>6. /\ DOMAIN done'[n] = DOMAIN done[n] \union {i0} /\ i0 \notin DOMAIN done[n]
      /\ done'[n][i0] = x /\ \A i \in DOMAIN done[n] : done'[n][i] = done[n][i]
  BY <1>4, <1>5, AppendedIs
<1>7. DoneKept /\ DoneIds(n)' = DoneIds(n) \union {id}
  <2>1. DoneKept
    BY <1>4, <1>6 DEF DoneKept
  <2>2. DoneIds(n)' = DoneIds(n) \union {id}
    BY <1>4, <1>6 DEF DoneIds
  <2> QED
    BY <2>1, <2>2
<1>8. NoFresh /\ Onwards
  BY BackendStepUp DEF BackendStep, UpKept
<1>9. id \in Doing(b) /\ Doing(b)' = {}
  BY <1>0, <1>1 DEF Doing, BackInv, RunAlone
<1>10. PICK c \in Slots : Awaits(c, b) /\ id = session[c].req.id
  BY <1>9 DEF BackInv, NotAbandoned
<1>11. id \in UpIds(c) /\ \A d \in Slots : session[d].sock = b => d = c
  <2>1. Working(c)
    BY <1>10 DEF Awaits, Working, WorkingPcs, LinkedPcs
  <2>2. b # None
    BY WireAssumption
  <2> QED
    BY <1>10, <2>1, <2>2, WorkingRequest DEF Awaits, Shape, OneOwner
<1>12. \A d \in BackendSlots \ {b} :
         /\ conn'[d] = conn[d] /\ backend'[d] = backend[d]
         /\ Doing(d)' = Doing(d) /\ RunAlone(d)' /\ id \notin Doing(d)
  <2>1. ASSUME NEW d \in BackendSlots \ {b}, id \in Doing(d) PROVE FALSE
    <3>1. PICK e \in Slots : Awaits(e, d) /\ id = session[e].req.id
      BY <2>1 DEF BackInv, NotAbandoned
    <3>2. Working(e)
      BY <3>1 DEF Awaits, Working, WorkingPcs, LinkedPcs
    <3>3. id \in UpIds(e)
      BY <3>1, <3>2, WorkingRequest
    <3>4. e = c
      BY <1>11, <3>3 DEF UpInv, OneSession
    <3> QED
      BY <1>10, <2>1, <3>1, <3>4 DEF Awaits
  <2>2. \A d \in BackendSlots \ {b} : conn'[d] = conn[d] /\ backend'[d] = backend[d]
    BY <1>1 DEF OnlyBackend
  <2> QED
    BY <2>1, <2>2, SameDoing DEF BackInv
<1>13. \A d \in BackendSlots : NotAbandoned(d)' /\ RunAlone(d)'
  <2>1. NotAbandoned(b)' /\ RunAlone(b)'
    BY <1>1, <1>9 DEF NotAbandoned, RunAlone
  <2>2. ASSUME NEW d \in BackendSlots \ {b} PROVE NotAbandoned(d)' /\ RunAlone(d)'
    <3>1. NotAbandoned(d) /\ Doing(d)' = Doing(d) /\ RunAlone(d)'
      BY <1>12 DEF BackInv
    <3>2. \A e \in Slots : Awaits(e, d)' = Awaits(e, d)
      BY DEF Awaits
    <3> QED
      BY <3>1, <3>2 DEF NotAbandoned
  <2> QED
    BY <2>1, <2>2
<1>14. \A m \in Nodes : Touched(m)' \subseteq Touched(m)
  <2>1. ASSUME NEW m \in Nodes, NEW y \in Touched(m)' PROVE y \in Touched(m)
    <3>1. CASE y \in DoneIds(m)'
      <4>1. CASE m = n
        BY <1>0, <1>7, <1>9, <3>1, <4>1 DEF Touched
      <4>2. CASE m # n
        <5>1. DoneIds(m)' = DoneIds(m)
          BY <1>4, <4>2 DEF DoneIds
        <5> QED
          BY <3>1, <5>1 DEF Touched
      <4> QED
        BY <4>1, <4>2
    <3>2. ASSUME NEW d \in BackendSlots, backend'[d].node = m, y \in Doing(d)'
          PROVE  y \in Touched(m)
      <4>1. d # b
        BY <1>9, <3>2
      <4> QED
        BY <1>12, <3>2, <4>1 DEF Touched
    <3> QED
      BY <2>1, <3>1, <3>2 DEF Touched
  <2> QED
    BY <2>1
<1>15. \A m \in Nodes : DoneOnce(m)' /\ \A y \in Touched(m)' : IsIssued(y)'
  <2>1. ASSUME NEW m \in Nodes PROVE DoneOnce(m)'
    <3>1. DoneOnce(m)
      BY DEF BackInv
    <3>2. CASE m # n
      <4>1. DoneIds(m)' = DoneIds(m) /\ done'[m] = done[m]
        BY <1>4, <3>2 DEF DoneIds
      <4>2. \A d \in BackendSlots : backend'[d].node = m =>
                Doing(d)' \intersect DoneIds(m)' = {}
        BY <1>0, <1>9, <1>12, <3>1, <4>1 DEF DoneOnce
      <4> QED
        BY <3>1, <4>1, <4>2 DEF DoneOnce
    <3>3. CASE m = n
      <4>1. id \notin DoneIds(n)
        BY <1>0, <1>9, <3>1, <3>3 DEF DoneOnce
      <4>2. \A i \in DOMAIN done[n] : done[n][i].id # id
        BY <4>1 DEF DoneIds
      <4>3. \A i, j \in DOMAIN done'[n] : done'[n][i].id = done'[n][j].id => i = j
        <5>1. ASSUME NEW i \in DOMAIN done'[n], NEW j \in DOMAIN done'[n],
                     done'[n][i].id = done'[n][j].id
              PROVE  i = j
          <6>1. CASE i \in DOMAIN done[n] /\ j \in DOMAIN done[n]
            BY <1>6, <3>1, <3>3, <5>1, <6>1 DEF DoneOnce
          <6>2. CASE i = i0 \/ j = i0
            BY <1>4, <1>6, <4>2, <5>1, <6>2
          <6> QED
            BY <1>6, <5>1, <6>1, <6>2
        <5> QED
          BY <5>1
      <4>4. \A d \in BackendSlots : backend'[d].node = n =>
                Doing(d)' \intersect DoneIds(n)' = {}
        BY <1>7, <1>9, <1>12, <3>1, <3>3 DEF DoneOnce
      <4> QED
        BY <3>3, <4>3, <4>4 DEF DoneOnce
    <3> QED
      BY <3>2, <3>3
  <2>2. \A m \in Nodes : \A y \in Touched(m)' : IsIssued(y)'
    BY <1>8, <1>14, IssuedStays DEF BackInv, Shape
  <2> QED
    BY <2>1, <2>2
<1>16. \A e \in Slots : TouchedInTurn(e)'
  BY <1>8, <1>14, TurnSame DEF NoFresh, Older, BackInv
<1>17. AnswerOK(c)'
  <2>1. AnswerOK(c) /\ session[c].pc = "wait" /\ session[c].sock = b
    BY <1>10 DEF BackInv, Awaits
  <2>2. Heard(c) = {}
    BY <1>9, <2>1 DEF AnswerOK
  <2>3. Heard(c)' = {backend'[b].res}
    <3>1. Lines(session[c].rbuf) = {} /\ Lines(conn[b].to["client"]) = {}
      BY <2>1, <2>2 DEF Heard
    <3>2. Lines(session[c].rbuf)' = {} /\ Lines(conn[b].to["client"])' = {}
      BY <1>1, <3>1 DEF Lines, IsLine
    <3> QED
      BY <1>1, <2>1, <3>2 DEF Heard
  <2>5. OutOK(c)'
    <3>1. OutOK(c) /\ Working(c) /\ session'[c] = session[c]
      BY <2>1 DEF AnswerOK, Working, WorkingPcs, LinkedPcs
    <3> QED
      BY <1>7, <3>1, OutKeeps
  <2>6. \A m \in Heard(c)' : m.id = session'[c].req.id /\ Served(m)'
    <3>1. PICK m : m = backend'[b].res
      OBVIOUS
    <3>2. Served(m)'
      BY <1>1, <1>2, <1>3, <1>6, <3>1 DEF Served
    <3> QED
      BY <1>2, <1>10, <2>3, <3>1, <3>2
  <2>7. Doing(session[c].sock)' = {}
    BY <1>9, <2>1
  <2> QED
    BY <2>1, <2>5, <2>6, <2>7 DEF AnswerOK
<1>18. ASSUME NEW e \in Slots \ {c} PROVE AnswerOK(e)'
  <2>1. Linked(e) => /\ conn'[session[e].sock] = conn[session[e].sock]
                     /\ backend'[session[e].sock] = backend[session[e].sock]
    BY <1>11, <1>12, LinkedSock
  <2>2. AnswerOK(e) /\ session'[e] = session[e]
    BY DEF BackInv
  <2> QED
    BY <1>7, <2>1, <2>2, AnswerKeeps
<1> QED
  BY <1>13, <1>15, <1>16, <1>17, <1>18 DEF BackInv

-----------------------------------------------------------------------------
(* What has been answered was answered by a backend, or with the 503.      *)
AnswersServed ==
    /\ \A c \in Slots : \A m \in Lines(conn[c].to["client"]) : Relayable(m)
    /\ \A k \in Clients : \A m \in Lines(client[k].buf) : Relayable(m)
    /\ \A k \in Clients :
          client[k].n > 0 /\ client[k].pc \in {"return", "idle"} /\ client[k].err = "Success" =>
              Relayable(client[k].res)

LEMMA RelayableStays ==
    ASSUME DoneKept
    PROVE  \A m : Relayable(m) => Relayable(m)'
BY ServedStays DEF Relayable

DownLess == \A c \in Slots : Lines(conn'[c].to["client"]) \subseteq Lines(conn[c].to["client"])

LEMMA DownLessAt ==
    ASSUME NEW s, OthersSame(s),
           s \in Slots => Lines(conn'[s].to["client"]) \subseteq Lines(conn[s].to["client"])
    PROVE  DownLess
BY HttpClientAssumption DEF OthersSame, DownLess

LEMMA DownLessAfter ==
    ASSUME Types, NEW s \in Slots,
           \/ UNCHANGED conn
           \/ ClosedEnd(s, "client")
           \/ \E data : Wrote(s, "client", data)
           \/ \E n \in Nat : Took(s, "client", n)
           \/ Connect(s, Slots)
           \/ Connect(s, {s})
    PROVE  DownLess
<1>1. Slots \in SUBSET Conns /\ {s} \in SUBSET Conns /\ ConnOK
      /\ conn[s].to["client"] \in Seq(Tokens)
  BY HttpClientAssumption, UpType DEF Types
<1>2. CASE UNCHANGED conn
  BY <1>2 DEF DownLess
<1>3. CASE ClosedEnd(s, "client")
  BY <1>3, EmptyLines, DownLessAt DEF ClosedEnd
<1>4. CASE \E data : Wrote(s, "client", data)
  BY <1>4, DownLessAt DEF Wrote
<1>5. ASSUME NEW n \in Nat, Took(s, "client", n)
      PROVE  DownLess
  <2>1. PICK t : t = conn[s].to["client"]
    OBVIOUS
  <2>2. n \in 0 .. Len(t) /\ t \in Seq(Tokens)
    BY <1>1, <1>5, <2>1 DEF Took
  <2>3. Lines(SubSeq(t, n + 1, Len(t))) \subseteq Lines(t)
    <3>1. Lines(t) = Lines(SubSeq(t, 1, n)) \union Lines(SubSeq(t, n + 1, Len(t)))
      BY <2>2, CutIds
    <3> QED
      BY <3>1
  <2> QED
    BY <1>5, <2>1, <2>3, DownLessAt DEF Took
<1>6. CASE Connect(s, Slots) \/ Connect(s, {s})
  <2>1. OthersSame(s) /\ conn'[s].to["client"] = <<>>
    BY <1>1, <1>6, ConnectDoes
  <2> QED
    BY <2>1, EmptyLines, DownLessAt
<1> QED
  BY <1>2, <1>3, <1>4, <1>5, <1>6

(* A client that got nothing.                                              *)
LEMMA NothingHeard ==
    ASSUME AnswersServed, NEW k \in Clients, OnlyClient(k), DownLess, UNCHANGED done,
           Lines(client'[k].buf) \subseteq Lines(client[k].buf),
           \/ client'[k].pc \notin {"return", "idle"}
           \/ client'[k].err # "Success"
           \/ /\ client[k].pc \in {"return", "idle"} /\ client'[k].n = client[k].n
              /\ client'[k].res = client[k].res /\ client'[k].err = client[k].err
    PROVE  AnswersServed'
<1>1. \A m : Relayable(m) => Relayable(m)'
  BY DoneSame, RelayableStays
<1>2. \A c \in Slots : \A m \in Lines(conn'[c].to["client"]) : Relayable(m)'
  BY <1>1 DEF AnswersServed, DownLess
<1>3. \A l \in Clients : \A m \in Lines(client'[l].buf) : Relayable(m)'
  BY <1>1 DEF AnswersServed, OnlyClient
<1>4. ASSUME NEW l \in Clients, client'[l].n > 0, client'[l].pc \in {"return", "idle"},
             client'[l].err = "Success"
      PROVE  Relayable(client[l].res) /\ client'[l].res = client[l].res
  BY <1>4 DEF AnswersServed, OnlyClient
<1>5. ASSUME NEW l \in Clients, client'[l].n > 0, client'[l].pc \in {"return", "idle"},
             client'[l].err = "Success"
      PROVE  Relayable(client[l].res)'
  <2>1. PICK m : m = client[l].res
    OBVIOUS
  <2>2. Relayable(m)' /\ client'[l].res = m
    BY <1>1, <1>4, <1>5, <2>1
  <2> QED
    BY <2>2 DEF Relayable, Served
<1>6. \A c \in Slots : \A m \in Lines(conn[c].to["client"])' : Relayable(m)'
  BY <1>2 DEF Lines, IsLine
<1>7. \A l \in Clients : \A m \in Lines(client[l].buf)' : Relayable(m)'
  BY <1>3 DEF Lines, IsLine
<1> QED
  BY <1>5, <1>6, <1>7 DEF AnswersServed

LEMMA ClientStepServed ==
    ASSUME Shape, AnswersServed, NEW k \in Clients, UNCHANGED done,
           \/ ClientStep(k, TRUE) \/ read_timeout(k)
           \/ \E r \in Requests[k] : Call(k, r)
    PROVE  AnswersServed'
<1>0. PICK s : s = client[k].sock
  OBVIOUS
<1> USE DEF SameCall
<1>1. Types /\ (s # None => s \in Slots /\ s \in Conns)
  BY <1>0, OwnSocket DEF Shape
<1>2. CASE \E r \in Requests[k] : Call(k, r)
  <2>1. OnlyClient(k) /\ UNCHANGED conn /\ client'[k].buf = <<>>
        /\ client'[k].pc \in {"connect", "send"}
    BY <1>1, <1>2, CallDoes
  <2> QED
    BY <2>1, EmptyLines, NothingHeard DEF DownLess
<1>3. CASE send_(k)
  <2>1. /\ OnlyClient(k) /\ client'[k].buf = client[k].buf /\ client[k].pc = "send"
        /\ client'[k].pc \in {"head", "connect"}
        /\ UNCHANGED conn \/ ClosedEnd(s, "client")
    BY <1>0, <1>3, SendDoes
  <2>2. s # None
    BY <1>0, <2>1 DEF Shape, ClientOK
  <2>3. DownLess
    BY <1>1, <2>1, <2>2, DownLessAfter
  <2> QED
    BY <2>1, <2>3, NothingHeard
<1>4. CASE create_and_connect_socket(k, TRUE)
  <2>1. /\ OnlyClient(k) /\ client'[k].buf = client[k].buf
        /\ client'[k].pc = "head" \/ client'[k].err # "Success"
        /\ UNCHANGED conn \/ \E c \in Slots : Connect(c, Slots)
    BY <1>4, ConnectSocketDoes
  <2>2. DownLess
    BY <1>1, <2>1, DownLessAfter DEF DownLess
  <2> QED
    BY <2>1, <2>2, NothingHeard
<1>5. CASE write_head(k) \/ write_body(k)
  <2>1. /\ OnlyClient(k) /\ client'[k].buf = client[k].buf /\ client[k].pc \in {"head", "body"}
        /\ client'[k].pc \in {"body", "read"} \/ client'[k].err # "Success"
        /\ \E data : Wrote(s, "client", data)
    BY <1>0, <1>5, WriteHeadDoes, WriteBodyDoes
  <2>2. s # None
    BY <1>0, <2>1 DEF Shape, ClientOK
  <2>3. DownLess
    BY <1>1, <2>1, <2>2, DownLessAfter
  <2> QED
    BY <2>1, <2>3, NothingHeard
<1>6. CASE read_end(k) \/ read_timeout(k)
  <2>1. client[k].pc = "read" /\ Fail(k, "Read") /\ UNCHANGED conn
    BY <1>6 DEF read_timeout, read_end, At
  <2>2. OnlyClient(k) /\ client'[k].err # "Success" /\ client'[k].buf = client[k].buf
    BY <1>1, <2>1, FailDoes
  <2> QED
    BY <2>1, <2>2, NothingHeard DEF DownLess
<1>7. CASE return(k)
  <2>1. /\ OnlyClient(k) /\ client[k].pc = "return" /\ client'[k].n = client[k].n
        /\ client'[k].buf = <<>>
        /\ client'[k].res = client[k].res /\ client'[k].err = client[k].err
        /\ UNCHANGED conn \/ (s # None /\ ClosedEnd(s, "client"))
    BY <1>0, <1>7, ReturnDoes
  <2>2. DownLess
    BY <1>1, <2>1, DownLessAfter DEF DownLess
  <2> QED
    BY <2>1, <2>2, EmptyLines, NothingHeard
<1>8. CASE read_response(k)
  <2>1. /\ OnlyClient(k) /\ client[k].pc = "read" /\ s \in Slots
        /\ client'[k].pc \in {"read", "return"}
        /\ client'[k].pc = "return" /\ client'[k].err = "Success" =>
              /\ 1 \in DOMAIN client'[k].buf /\ IsLine(client'[k].buf, 1)
              /\ client'[k].res = client'[k].buf[1].m
    BY <1>0, <1>8, ReadResponseDoes
  <2>2. PICK n \in 1 .. Len(conn[s].to["client"]) :
            /\ Took(s, "client", n)
            /\ client'[k].buf = client[k].buf \o Received(s, "client", n)
    BY <1>0, <1>8, ReadResponseDoes
  <2>3. PICK t, buf : t = conn[s].to["client"] /\ buf = client[k].buf
    OBVIOUS
  <2>4. t \in Seq(Tokens) /\ buf \in Seq(Tokens) /\ n \in 0 .. Len(t) /\ n \in Nat
    BY <1>1, <2>1, <2>3, ClientType, UpType
  <2>5. DownLess
    BY <1>1, <2>1, <2>2, <2>4, DownLessAfter
  <2>6. PICK front : front = SubSeq(t, 1, n)
    OBVIOUS
  <2>7. front \in Seq(Tokens) /\ Lines(front) \subseteq Lines(t)
    BY <2>4, <2>6, FrontLines
  <2>8. client'[k].buf = buf \o front
    BY <2>2, <2>3, <2>6 DEF Received
  <2>9. Lines(client'[k].buf) \subseteq Lines(buf) \union Lines(t)
    BY <2>4, <2>7, <2>8, JoinedLines
  <2>10. \A m \in Lines(client'[k].buf) : Relayable(m)
    BY <2>1, <2>3, <2>9 DEF AnswersServed
  <2>11. \A m : Relayable(m) => Relayable(m)'
    BY DoneSame, RelayableStays
  <2>12. \A c \in Slots : \A m \in Lines(conn[c].to["client"])' : Relayable(m)'
    <3>1. \A c \in Slots : \A m \in Lines(conn'[c].to["client"]) : Relayable(m)'
      BY <2>5, <2>11 DEF AnswersServed, DownLess
    <3> QED
      BY <3>1 DEF Lines, IsLine
  <2>13. \A l \in Clients : \A m \in Lines(client[l].buf)' : Relayable(m)'
    <3>1. \A l \in Clients : \A m \in Lines(client'[l].buf) : Relayable(m)'
      BY <2>1, <2>10, <2>11 DEF AnswersServed, OnlyClient
    <3> QED
      BY <3>1 DEF Lines, IsLine
  <2>14. ASSUME NEW l \in Clients, client'[l].n > 0, client'[l].pc \in {"return", "idle"},
                client'[l].err = "Success"
         PROVE  Relayable(client[l].res)'
    <3>1. PICK m : m = client'[l].res
      OBVIOUS
    <3>2. Relayable(m)
      <4>1. CASE l = k
        <5>1. m \in Lines(client'[k].buf)
          BY <2>1, <2>14, <3>1, <4>1, LineIn
        <5> QED
          BY <2>10, <5>1
      <4>2. CASE l # k
        BY <2>1, <2>14, <3>1, <4>2 DEF AnswersServed, OnlyClient
      <4> QED
        BY <4>1, <4>2
    <3>3. Relayable(m)'
      BY <2>11, <3>2
    <3> QED
      BY <3>1, <3>3 DEF Relayable, Served
  <2> QED
    BY <2>12, <2>13, <2>14 DEF AnswersServed
<1> QED
  BY <1>2, <1>3, <1>4, <1>5, <1>6, <1>7, <1>8 DEF ClientStep

(* The other steps leave what the clients hold.                            *)
LEMMA OthersServed ==
    ASSUME AnswersServed, UNCHANGED client, DoneKept,
           \A c \in Slots : \A m \in Lines(conn'[c].to["client"]) :
               m \in Lines(conn[c].to["client"]) \/ Relayable(m)
    PROVE  AnswersServed'
<1>1. \A m : Relayable(m) => Relayable(m)'
  BY RelayableStays
<1>2. \A c \in Slots : \A m \in Lines(conn[c].to["client"])' : Relayable(m)'
  <2>1. \A c \in Slots : \A m \in Lines(conn'[c].to["client"]) : Relayable(m)'
    BY <1>1 DEF AnswersServed
  <2> QED
    BY <2>1 DEF Lines, IsLine
<1>3. \A l \in Clients : \A m \in Lines(client[l].buf)' : Relayable(m)'
  <2>1. \A l \in Clients : \A m \in Lines(client'[l].buf) : Relayable(m)'
    BY <1>1 DEF AnswersServed
  <2> QED
    BY <2>1 DEF Lines, IsLine
<1>4. ASSUME NEW l \in Clients, client'[l].n > 0, client'[l].pc \in {"return", "idle"},
             client'[l].err = "Success"
      PROVE  Relayable(client[l].res)'
  <2>1. PICK m : m = client'[l].res
    OBVIOUS
  <2>2. Relayable(m)
    BY <1>4, <2>1 DEF AnswersServed
  <2>3. Relayable(m)'
    BY <1>1, <2>2
  <2> QED
    BY <2>1, <2>3 DEF Relayable, Served
<1> QED
  BY <1>2, <1>3, <1>4 DEF AnswersServed

LEMMA ShowsServed ==
    ASSUME Shape, AnswersServed, NEW c \in Slots, Shows(c), UNCHANGED <<client, done>>
    PROVE  AnswersServed'
<1>1. PICK t : t = conn[c].to["client"]
  OBVIOUS
<1>2. t \in Seq(Tokens)
  BY <1>1, UpType DEF Shape
<1>3. \A m \in Lines(conn'[c].to["client"]) : m \in Lines(t) \/ Relayable(m)
  <2>1. CASE Silent(c)
    BY <1>1, <1>2, <2>1, FrontLines DEF Silent
  <2>2. CASE Answers(c)
    <3>1. PICK m \in Msgs : Relayable(m) /\ conn'[c].to["client"] = t \o WholeOf(m)
      BY <1>1, <2>2 DEF Answers
    <3>2. WholeOf(m) \in Seq(Tokens) /\ Lines(WholeOf(m)) = {m}
      BY WholeLines DEF WholeOf
    <3>3. Lines(t \o WholeOf(m)) = Lines(t) \union Lines(WholeOf(m))
      BY <1>2, <3>2, JoinedLines
    <3> QED
      BY <3>1, <3>2, <3>3
  <2> QED
    BY <2>1, <2>2 DEF Shows
<1>4. \A d \in Slots : \A m \in Lines(conn'[d].to["client"]) :
          m \in Lines(conn[d].to["client"]) \/ Relayable(m)
  BY <1>1, <1>3 DEF Shows
<1> QED
  BY <1>4, DoneSame, OthersServed

LEMMA BackendStepServed ==
    ASSUME Shape, AnswersServed, NEW b \in BackendSlots, UNCHANGED <<client, session, raw>>,
           BackendStep(b) \/ backend_dies(b)
    PROVE  AnswersServed'
<1>1. OthersSame(b) \/ UNCHANGED conn
  BY ServeReadDoes, ServeRunDoes, ServeWriteDoes, BackendEndDoes
  DEF BackendStep, Wrote, ClosedEnd
<1>2. \A c \in Slots : conn'[c] = conn[c]
  BY <1>1, WireAssumption, HttpClientAssumption DEF OthersSame
<1>3. DoneKept
  <2>1. CASE serve_run(b)
    <3>0. PICK n : n = backend[b].node
      OBVIOUS
    <3>1. n \in Nodes /\ \E x \in [id : Ids, kind : Codes] :
              done' = [done EXCEPT ![n] = Append(@, x)]
      BY <2>1, <3>0, ServeRunDoes
    <3>2. PICK x \in [id : Ids, kind : Codes] : done' = [done EXCEPT ![n] = Append(@, x)]
      BY <3>1
    <3>3. /\ \A m \in Nodes \ {n} : done'[m] = done[m]
          /\ done[n] \in Seq([id : Ids, kind : Codes]) /\ done'[n] = Append(done[n], x)
      BY <3>1, <3>2, DoneType DEF Shape
    <3>4. \A i \in DOMAIN done[n] : i \in DOMAIN done'[n] /\ done'[n][i] = done[n][i]
      BY <3>3, AppendedIs
    <3> QED
      BY <3>3, <3>4 DEF DoneKept
  <2>2. CASE UNCHANGED done
    BY <2>2, DoneSame
  <2> QED
    BY <2>1, <2>2 DEF BackendStep, serve_read, serve_write, serve_end, backend_dies
<1> QED
  BY <1>2, <1>3, OthersServed

LEMMA RawStepServed ==
    ASSUME Shape, AnswersServed, RawStep, UNCHANGED <<client, session, done>>
    PROVE  AnswersServed'
<1>1. RawConn \in Slots /\ Types
  BY RawConnType DEF Shape
<1>2. \/ ClosedEnd(RawConn, "client")
      \/ \E data : Wrote(RawConn, "client", data)
      \/ \E n \in Nat : Took(RawConn, "client", n)
      \/ Connect(RawConn, {RawConn})
  <2>1. Len(conn[RawConn].to["client"]) \in Nat
    BY <1>1, UpType, LenProperties
  <2>2. CASE raw_recv
    BY <2>1, <2>2, RawRecvDoes
  <2> QED
    BY <2>2, RawConnectDoes, RawSendDoes, RawCloseDoes DEF RawStep
<1>3. DownLess
  BY <1>1, <1>2, DownLessAfter
<1> QED
  BY <1>3, DoneSame, OthersServed DEF DownLess

-----------------------------------------------------------------------------
(* The inductive invariant.                                                *)
WireInv == Shape /\ UpInv /\ BackInv /\ AnswersServed

LEMMA InitTypes ==
    ASSUME Init
    PROVE  /\ Types
           /\ \A c \in Conns : conn[c] = NoConn
           /\ \A c \in Slots : session[c] = NoSession
           /\ \A b \in BackendSlots : backend[b] = NoBackend
           /\ \A n \in Nodes : done[n] = <<>>
           /\ \A k \in Clients : /\ client[k].pc = "idle" /\ client[k].n = 0
                                 /\ client[k].sock = None /\ client[k].buf = <<>>
           /\ raw.sent = 0
<1>1. NoConn \in [at : [Ends -> {"closed", "open", "backlog"}], to : [Ends -> Seq(Tokens)]]
  BY EmptyLines DEF NoConn
<1>2. \A e \in Ends : NoConn.to[e] = <<>>
  BY DEF NoConn
<1>3. ConnOK
  BY <1>1, <1>2 DEF Init, ConnOK, ConnTypes
<1>4. client \in [Clients -> ClientRec]
  BY EmptyLines DEF Init, ClientInit, ClientRec
<1>5. session \in [Slots -> SessionRec] /\ backend \in [BackendSlots -> BackendRec]
  BY NoSessionType, NoBackendType DEF Init
<1>6. done \in [Nodes -> Seq([id : Ids, kind : Codes])]
  <2>1. <<>> \in Seq([id : Ids, kind : Codes])
    BY EmptySeq
  <2> QED
    BY <2>1 DEF Init
<1>7. raw \in RawRec /\ raw.sent = 0
  <2>1. raw \in [pc : {"absent", "new"}, sent : {0}, buf : {<<>>}]
    BY DEF Init
  <2>2. raw.sent = 0 /\ raw.pc \in {"absent", "new"} /\ raw.buf = <<>>
    BY <2>1
  <2>3. raw = [pc |-> raw.pc, sent |-> 0, buf |-> <<>>]
    BY <2>1
  <2>4. <<>> \in Seq(Tokens) /\ 0 \in Nat
    BY EmptyLines
  <2> QED
    BY <2>2, <2>3, <2>4 DEF RawRec
<1> QED
  BY <1>3, <1>4, <1>5, <1>6, <1>7 DEF Init, ClientInit, Types

LEMMA InitWire ==
    ASSUME Init
    PROVE  WireInv
<1>1. /\ Types
      /\ \A c \in Conns : conn[c] = NoConn
      /\ \A c \in Slots : session[c] = NoSession
      /\ \A b \in BackendSlots : backend[b] = NoBackend
      /\ \A n \in Nodes : done[n] = <<>>
      /\ \A k \in Clients : /\ client[k].pc = "idle" /\ client[k].n = 0
                            /\ client[k].sock = None /\ client[k].buf = <<>>
      /\ raw.sent = 0
  BY InitTypes
<1>2. /\ NoConn.at["server"] = "closed" /\ NoConn.at["client"] = "closed"
      /\ NoConn.to["server"] = <<>> /\ NoConn.to["client"] = <<>>
  BY DEF NoConn, Ends
<1>3. /\ NoSession.pc = "none" /\ NoSession.buf = <<>> /\ NoSession.todo = <<>>
      /\ NoSession.sock = None
      /\ NoBackend.node = None /\ NoBackend.pc = "read"
  BY NoSessionType, NoBackendType
<1>4. Slots \subseteq Conns /\ BackendSlots \subseteq Conns /\ None \notin Nodes
  BY HttpClientAssumption, WireAssumption
<1>5. /\ Lines(<<>>) = {} /\ IdsOf(<<>>) = {} /\ Once(<<>>) /\ <<>> \o <<>> = <<>>
      /\ DOMAIN <<>> = {}
  BY EmptyLines, ConcatEmptySeq, EmptySeq
<1>6. \A c \in Slots : UpLines(c) = {} /\ UpIds(c) = {} /\ UpOnce(c)
  BY <1>1, <1>2, <1>3, <1>4, <1>5 DEF UpLines, UpIds, UpOnce
<1>7. \A k \in Clients : ClientOK(k)
  BY <1>1 DEF ClientOK
<1>8. \A c \in Slots : SessionOK(c)
  BY <1>1, <1>2, <1>3, <1>4, <1>5
  DEF SessionOK, Linked, Working, LinkedPcs, WorkingPcs, NoRepeat
<1>9. \A b \in BackendSlots : BackendOK(b)
  BY <1>1, <1>2, <1>3, <1>4 DEF BackendOK
<1>10. OneOwner /\ OneRegime
  BY <1>1, <1>3 DEF OneOwner, OneRegime
<1>11. Shape
  BY <1>1, <1>6, <1>7, <1>8, <1>9, <1>10 DEF Shape
<1>12. UpInv
  BY <1>1, <1>6 DEF UpInv, OneSession, Exchange, OwnSession, AnsweredIsGone
<1>13. \A b \in BackendSlots : Doing(b) = {}
  BY <1>1, <1>2, <1>3, <1>4, <1>5 DEF Doing
<1>14. \A n \in Nodes : DoneIds(n) = {} /\ Touched(n) = {}
  BY <1>1, <1>5, <1>13 DEF DoneIds, Touched
<1>15. BackInv
  <2>1. \A b \in BackendSlots : NotAbandoned(b) /\ RunAlone(b)
    BY <1>1, <1>3, <1>13 DEF NotAbandoned, RunAlone
  <2>2. \A c \in Slots : AnswerOK(c) /\ TouchedInTurn(c)
    BY <1>1, <1>3, <1>6
    DEF AnswerOK, OutOK, TouchedInTurn, Working, WorkingPcs, LinkedPcs
  <2>3. \A n \in Nodes : DoneOnce(n) /\ \A id \in Touched(n) : IsIssued(id)
    BY <1>1, <1>5, <1>13, <1>14 DEF DoneOnce
  <2> QED
    BY <2>1, <2>2, <2>3 DEF BackInv
<1>16. AnswersServed
  BY <1>1, <1>2, <1>4, <1>5 DEF AnswersServed
<1> QED
  BY <1>11, <1>12, <1>15, <1>16 DEF WireInv

LEMMA ClientsStep ==
    ASSUME WireInv, NEW k \in Clients, UNCHANGED <<session, backend, done, raw>>,
           \/ ClientStep(k, TRUE) \/ read_timeout(k)
           \/ raw.pc = "absent" /\ \E r \in Requests[k] : Call(k, r)
    PROVE  WireInv'
<1>1. Shape /\ UpInv /\ BackInv /\ AnswersServed
  BY DEF WireInv
<1>2. Shape'
  BY <1>1, CallShape, ReadFailsShape, ClientStepShape
<1>3. /\ UpInv' /\ Onwards
      /\ NoFresh \/ \E s \in Slots : \E id \in Ids : FreshAt(s, id) /\ ~IsIssued(id)
  BY <1>1, CallUp, ReadFailsUp, ClientStepUp DEF UpKept
<1>4. AnswersServed'
  BY <1>1, ClientStepServed
<1>5. \A b \in BackendSlots : conn'[b] = conn[b]
  <2>1. \/ UNCHANGED conn
        \/ \E s \in Slots : OthersSame(s)
    <3>1. CASE \E r \in Requests[k] : Call(k, r)
      BY <1>1, <3>1, CallDoes DEF Shape
    <3>2. CASE send_(k)
      <4>1. client[k].sock # None
        BY <1>1, <3>2 DEF send_, At, Shape, ClientOK
      <4> QED
        BY <1>1, <3>2, <4>1, SendDoes, OwnSocket DEF ClosedEnd
    <3>3. CASE create_and_connect_socket(k, TRUE)
      <4>1. Slots \in SUBSET Conns /\ ConnOK
        BY <1>1, HttpClientAssumption DEF Shape, Types
      <4> QED
        BY <1>1, <3>3, <4>1, ConnectSocketDoes, ConnectDoes
    <3>4. CASE write_head(k) \/ write_body(k) \/ read_response(k)
      <4>1. client[k].sock # None
        BY <1>1, <3>4, WriteHeadDoes, WriteBodyDoes, ReadResponseDoes DEF Shape, ClientOK
      <4> QED
        BY <1>1, <3>4, <4>1, WriteHeadDoes, WriteBodyDoes, ReadResponseDoes, OwnSocket
        DEF Wrote, Took
    <3>5. CASE read_end(k) \/ read_timeout(k)
      BY <3>5 DEF read_end, read_timeout
    <3>6. CASE return(k)
      BY <1>1, <3>6, ReturnDoes, OwnSocket DEF ClosedEnd
    <3> QED
      BY <3>1, <3>2, <3>3, <3>4, <3>5, <3>6 DEF ClientStep
  <2> QED
    BY <2>1, WireAssumption DEF OthersSame
<1>6. BackInv'
  BY <1>1, <1>3, <1>5, ClientsBack
<1> QED
  BY <1>2, <1>3, <1>4, <1>6 DEF WireInv

LEMMA LbSteps ==
    ASSUME WireInv, NEW c \in Slots, SessionStep(c), UNCHANGED <<client, done, raw>>
    PROVE  WireInv'
<1>1. Shape /\ UpInv /\ BackInv /\ AnswersServed /\ UpOnce(c) /\ OutOK(c)
  BY DEF WireInv, UpInv, BackInv, AnswerOK
<1>2. Shape'
  BY <1>1, SessionStepShape, LinkStepShape, ConnectBackendShape DEF SessionStep
<1>3. Shows(c)
  BY <1>1, SessionShows, LinkStepShows DEF SessionStep
<1>4. UpInv' /\ AnswersServed'
  BY <1>1, <1>3, ShowsUp, ShowsServed DEF UpKept
<1>5. BackInv'
  BY <1>1, SessionStepBack, ConnectBack, RecvBackendBack, LeaveBackendBack, SendRequestBack
  DEF SessionStep
<1> QED
  BY <1>2, <1>4, <1>5 DEF WireInv

LEMMA BackendSteps ==
    ASSUME WireInv, NEW b \in BackendSlots, BackendStep(b) \/ backend_dies(b),
           UNCHANGED <<client, session, raw>>
    PROVE  WireInv'
<1>1. Shape /\ UpInv /\ BackInv /\ AnswersServed
  BY DEF WireInv
<1>2. Shape' /\ UpInv' /\ AnswersServed'
  BY <1>1, BackendStepShape, BackendStepUp, BackendStepServed DEF UpKept
<1>3. BackInv'
  BY <1>1, ServeReadBack, ServeRunBack, ServeWriteBack, BackendEndBack DEF BackendStep
<1> QED
  BY <1>2, <1>3 DEF WireInv

LEMMA RawSteps ==
    ASSUME WireInv, RawStep, UNCHANGED <<client, session, backend, done>>
    PROVE  WireInv'
<1>1. Shape /\ UpInv /\ BackInv /\ AnswersServed
  BY DEF WireInv
<1>2. Shape' /\ AnswersServed'
  BY <1>1, RawStepShape, RawStepServed
<1>3. /\ UpInv' /\ Onwards
      /\ NoFresh \/ \E s \in Slots : \E id \in Ids : FreshAt(s, id) /\ ~IsIssued(id)
  BY <1>1, RawStepUp DEF UpKept
<1>4. OthersSame(RawConn)
  <2>1. Slots \in SUBSET Conns /\ ConnOK /\ {RawConn} \in SUBSET Conns
    BY <1>1, RawConnType, HttpClientAssumption DEF Shape, Types
  <2> QED
    BY <1>1, <2>1, RawConnectDoes, RawSendDoes, RawRecvDoes, RawCloseDoes, ConnectDoes
    DEF RawStep, Wrote, Took, ClosedEnd
<1>5. \A b \in BackendSlots : conn'[b] = conn[b]
  BY <1>4, RawConnType, WireAssumption DEF OthersSame
<1>6. BackInv'
  BY <1>1, <1>3, <1>5, ClientsBack
<1> QED
  BY <1>2, <1>3, <1>6 DEF WireInv

LEMMA ShapeSame ==
    ASSUME Shape, UNCHANGED conn, UNCHANGED client, UNCHANGED session, UNCHANGED backend,
           UNCHANGED done, UNCHANGED raw
    PROVE  Shape'
<1>1. ConnOK'
  BY ConnStays DEF Shape, Types
<1>2. Types'
  BY <1>1 DEF Shape, Types
<1>3. \A k \in Clients : ClientOK(k)'
  BY ClientKeeps DEF Shape
<1>4. \A c \in Slots : SessionOK(c)'
  <2>1. ASSUME NEW c \in Slots PROVE SessionOK(c)'
    <3>1. SessionOK(c) /\ session'[c] = session[c] /\ conn'[c] = conn[c]
      BY DEF Shape
    <3>2. conn'[session[c].sock] = conn[session[c].sock]
            /\ backend'[session[c].sock] = backend[session[c].sock]
      OBVIOUS
    <3> QED
      BY <3>1, <3>2, SessionKeeps
  <2> QED
    BY <2>1
<1>5. \A c \in Slots : UpLines(c)' \subseteq ReqMsgs
  BY UpStays DEF Shape
<1>6. \A b \in BackendSlots : BackendOK(b)'
  BY BackendKeeps DEF Shape
<1>7. OneOwner' /\ OneRegime'
  BY DEF Shape, OneOwner, OneRegime
<1> QED
  BY <1>2, <1>3, <1>4, <1>5, <1>6, <1>7 DEF Shape

LEMMA WireStep ==
    ASSUME WireInv, [Next]_wireVars
    PROVE  WireInv'
<1>1. CASE Next
  BY <1>1, ClientsStep, LbSteps, BackendSteps, RawSteps
  DEF Next, CallerStep, LbStep, ServeStep
<1>2. CASE UNCHANGED wireVars
  <2>1. UNCHANGED conn /\ UNCHANGED client /\ UNCHANGED session /\ UNCHANGED backend
          /\ UNCHANGED done /\ UNCHANGED raw
    BY <1>2 DEF wireVars
  <2>2. Shape /\ UpInv /\ BackInv /\ AnswersServed
    BY DEF WireInv
  <2>3. Shape'
    BY <2>1, <2>2, ShapeSame
  <2>4. UpInv' /\ NoFresh /\ Onwards
    BY <2>1, <2>2, UnseenUp DEF UpKept
  <2>5. BackInv'
    BY <2>1, <2>2, <2>4, ClientsBack
  <2>6. AnswersServed'
    BY <2>1, <2>2, DoneSame, OthersServed
  <2> QED
    BY <2>3, <2>4, <2>5, <2>6 DEF WireInv
<1> QED
  BY <1>1, <1>2

LEMMA WireInvariant == Spec => []WireInv
<1>1. WireInv /\ [Next]_wireVars => WireInv'
  BY WireStep
<1> QED
  BY InitWire, <1>1, PTL DEF Spec

-----------------------------------------------------------------------------
(* Only serve_run adds to what the nodes have done.                        *)
LEMMA OnlyServeRun ==
    ASSUME Shape, [Next]_wireVars, NEW n \in Nodes, done'[n] # done[n]
    PROVE  \E b \in BackendSlots :
             /\ backend[b].node = n /\ backend[b].pc = "run" /\ UNCHANGED <<conn, client>>
             /\ done'[n][Len(done'[n])].id = backend[b].req.id
<1>1. PICK b \in BackendSlots : serve_run(b) /\ UNCHANGED <<client, session, raw>>
  BY DEF Next, wireVars, CallerStep, LbStep, ServeStep, BackendStep, serve_read, serve_write,
         serve_end, backend_dies
<1>2. PICK code \in Codes :
        /\ backend[b].node \in Nodes /\ backend[b].pc = "run" /\ UNCHANGED conn
        /\ [id |-> backend[b].req.id, kind |-> code] \in [id : Ids, kind : Codes]
        /\ done' = [done EXCEPT ![backend[b].node] =
                       Append(@, [id |-> backend[b].req.id, kind |-> code])]
  BY <1>1, ServeRunDoes
<1>3. done \in [Nodes -> Seq([id : Ids, kind : Codes])]
  BY DEF Shape, Types
<1>4. backend[b].node = n
  BY <1>2, <1>3
<1>5. PICK x : x = [id |-> backend[b].req.id, kind |-> code]
  OBVIOUS
<1>6. done[n] \in Seq([id : Ids, kind : Codes]) /\ done'[n] = Append(done[n], x)
  BY <1>2, <1>3, <1>4, <1>5
<1>7. Len(done'[n]) = Len(done[n]) + 1 /\ done'[n][Len(done[n]) + 1] = x
  BY <1>2, <1>5, <1>6, AppendedIs, AppendProperties
<1> QED
  BY <1>1, <1>2, <1>4, <1>5, <1>7

(* What a backend works on is the request of a session that waits for it.  *)
LEMMA RunIsAwaited ==
    ASSUME WireInv, NEW b \in BackendSlots, backend[b].pc = "run"
    PROVE  \E c \in Slots : backend[b].req.id \in UpIds(c)
<1>1. Shape /\ NotAbandoned(b) /\ backend[b].req.id \in Doing(b)
  BY DEF WireInv, BackInv, Doing
<1>2. PICK c \in Slots : Awaits(c, b) /\ Doing(b) \subseteq {session[c].req.id}
  BY <1>1 DEF NotAbandoned
<1>3. session[c].req.id \in UpIds(c)
  BY <1>1, <1>2, WorkingRequest DEF Awaits, Working, WorkingPcs, LinkedPcs
<1> QED
  BY <1>1, <1>2, <1>3

-----------------------------------------------------------------------------
(* Whatever the cuts, crashes and retries, a call that returns a response  *)
(* has the one that some kvserver gave to its own request, or the 503, and *)
(* no kvserver has run a handler twice for one request.                    *)
THEOREM AnswersAreRight == Spec => []ResultsAreAnswers
<1>1. WireInv => ResultsAreAnswers
  <2>1. ASSUME WireInv, NEW k \in Clients, Returned(k), client[k].err = "Success"
        PROVE  /\ client[k].res.id = client[k].req.id
               /\ client[k].res.kind # 503 =>
                     \E n \in Nodes : \E i \in DOMAIN done[n] :
                         done[n][i] = [id |-> client[k].res.id, kind |-> client[k].res.kind]
    <3>1. client[k].n > 0 /\ client[k].pc = "idle"
      BY <2>1 DEF Returned, At
    <3>2. client[k].res.id = client[k].req.id
      BY <2>1, <3>1 DEF WireInv, UpInv, AnsweredIsGone
    <3>3. Relayable(client[k].res)
      BY <2>1, <3>1 DEF WireInv, AnswersServed
    <3> QED
      BY <3>2, <3>3 DEF Relayable, Served
  <2>2. ASSUME WireInv, NEW n \in Nodes
        PROVE  \A i, j \in DOMAIN done[n] : done[n][i].id = done[n][j].id => i = j
    BY <2>2 DEF WireInv, BackInv, DoneOnce
  <2> QED
    BY <2>1, <2>2 DEF ResultsAreAnswers
<1> QED
  BY <1>1, WireInvariant, PTL

(* Once a call has returned the answer to a request, no kvserver begins to *)
(* work on it: forwardTraffic relays after it has asked every candidate,   *)
(* and no connection still holds a copy.                                   *)
THEOREM AnsweredMeansOver == Spec => AnsweredIsOver
<1>1. ASSUME WireInv, [Next]_wireVars, NEW n \in Nodes, done'[n] # done[n], NEW k \in Clients,
             done'[n][Len(done'[n])].id = <<k, client[k].n>>, Returned(k)
      PROVE  client[k].err # "Success"
  <2>1. PICK b \in BackendSlots :
          backend[b].pc = "run" /\ done'[n][Len(done'[n])].id = backend[b].req.id
    BY <1>1, OnlyServeRun DEF WireInv
  <2>2. PICK c \in Slots : <<k, client[k].n>> \in UpIds(c)
    BY <1>1, <2>1, RunIsAwaited
  <2>3. client[k].n > 0 /\ client[k].pc = "idle" /\ client[k].req.id = <<k, client[k].n>>
    BY <1>1 DEF Returned, At, WireInv, Shape, ClientOK
  <2> QED
    BY <1>1, <2>2, <2>3 DEF WireInv, UpInv, AnsweredIsGone
<1>2. WireInv /\ [Next]_wireVars =>
        [\A n \in Nodes : done'[n] # done[n] =>
          LET id == done'[n][Len(done'[n])].id IN
          \A k \in Clients :
              id = <<k, client[k].n>> /\ Returned(k) => client[k].err # "Success"]_wireVars
  BY <1>1
<1> QED
  BY <1>2, WireInvariant, PTL DEF Spec, AnsweredIsOver

-----------------------------------------------------------------------------
(* What the command-line client may ask, but for a key in which a query or *)
(* a fragment begins, which the handler cuts off and getKey does not, and  *)
(* for an update of the key "create", which getKey takes for a create.     *)
CommandLines(Pieces) ==
    {line \in [cmd : {"create", "update", "delete", "read"},
               key : Seq(Pieces \ {"?", "#"}), value : Seq(Seq(Pieces))] :
        IsCommand(line) /\ ~(line.cmd = "update" /\ line.key = <<"create">>)}

LEMMA RoutesAre ==
    /\ DOMAIN Routes = 1 .. 7
    /\ \A i \in 1 .. 7 : Routes[i].method = "POST" \/ Routes[i].handler # "handle_create"
    /\ Routes[1].method = "POST" /\ Routes[1].pattern = Create
    /\ Routes[1].handler = "handle_create"
    /\ Routes[2].method = "PUT" /\ Routes[2].pattern = KeyPath(<<Word>>)
    /\ Routes[3].method = "DELETE" /\ Routes[3].pattern = KeyPath(<<Word>>)
    /\ Routes[4].method = "GET" /\ Routes[4].pattern = KeyPath(<<"allkeys">>)
    /\ Routes[5].method = "GET" /\ Routes[5].pattern = KeyPath(<<Word>>)
    /\ Routes[6].method = "GET" /\ Routes[6].pattern = <<"/", "health">>
    /\ Routes[7].method = "POST"
BY DEF Routes, Route

LEMMA KeyPathIs ==
    ASSUME NEW S, NEW key \in Seq(S)
    PROVE  LET path == KeyPath(key) IN
           /\ DOMAIN path = 1 .. Len(path)
           /\ Len(path) = 3 + Len(key) /\ Len(key) \in Nat
           /\ path[1] = "/" /\ path[2] = "kvstore" /\ path[3] = "/"
           /\ \A i \in 4 .. Len(path) : path[i] \in S /\ path[i] = key[i - 3]
           /\ Len(key) > 0 => path[4] = key[1]
<1> DEFINE A == S \union {"/", "kvstore"}
           path == <<"/", "kvstore", "/">> \o key
<1>1. <<"/", "kvstore", "/">> \in Seq(A) /\ Len(<<"/", "kvstore", "/">>) = 3
  OBVIOUS
<1>2. key \in Seq(A) /\ Len(key) \in Nat
  BY SeqMonotonic
<1>3. /\ path \in Seq(A) /\ Len(path) = 3 + Len(key)
      /\ \A i \in 1 .. 3 + Len(key) :
            path[i] = IF i <= 3 THEN <<"/", "kvstore", "/">>[i] ELSE key[i - 3]
  <2> HIDE DEF A
  <2> QED
    BY <1>1, <1>2, ConcatProperties
<1>4. path[1] = "/" /\ path[2] = "kvstore" /\ path[3] = "/"
  <2> HIDE DEF path
  <2> QED
    BY <1>2, <1>3
<1>5. ASSUME NEW i \in 4 .. Len(path) PROVE path[i] \in S /\ path[i] = key[i - 3]
  <2> HIDE DEF path
  <2>1. i - 3 \in 1 .. Len(key) /\ i \in 1 .. 3 + Len(key) /\ ~(i <= 3)
    BY <1>2, <1>3
  <2> QED
    BY <1>3, <2>1, ElementOfSeq
<1>6. DOMAIN path = 1 .. Len(path)
  <2> HIDE DEF A, path
  <2> QED
    BY <1>3
<1>7. Len(key) > 0 => path[4] = key[1]
  <2> HIDE DEF path
  <2>1. 4 - 3 = 1
    OBVIOUS
  <2>2. Len(key) > 0 => 4 \in 1 .. 3 + Len(key) /\ ~(4 <= 3)
    BY <1>2
  <2>3. Len(key) > 0 => path[4] = key[4 - 3]
    BY <1>3, <2>2
  <2> QED
    BY <2>1, <2>3
<1> QED
  BY <1>2, <1>3, <1>4, <1>5, <1>6, <1>7 DEF KeyPath

LEMMA OneKeyPath ==
    ASSUME NEW x
    PROVE  LET path == KeyPath(<<x>>) IN
           /\ DOMAIN path = 1 .. 4 /\ Len(path) = 4
           /\ path[1] = "/" /\ path[2] = "kvstore" /\ path[3] = "/" /\ path[4] = x
<1>1. <<x>> \in Seq({x}) /\ Len(<<x>>) = 1 /\ <<x>>[1] = x
  OBVIOUS
<1> DEFINE key == <<x>>
<1> HIDE DEF key
<1>2. key \in Seq({x}) /\ Len(key) = 1 /\ key[1] = x
  BY <1>1 DEF key
<1>3. /\ DOMAIN KeyPath(key) = 1 .. Len(KeyPath(key)) /\ Len(KeyPath(key)) = 3 + Len(key)
      /\ KeyPath(key)[1] = "/" /\ KeyPath(key)[2] = "kvstore" /\ KeyPath(key)[3] = "/"
      /\ Len(key) > 0 => KeyPath(key)[4] = key[1]
  BY <1>2, KeyPathIs, Zenon
<1>4. /\ Len(KeyPath(key)) = 4 /\ KeyPath(key)[4] = x
  BY <1>2, <1>3
<1> QED
  BY <1>2, <1>3, <1>4 DEF key

(* Nothing is cut off a path without a query and a fragment.               *)
LEMMA NothingCut ==
    ASSUME NEW path, \A i \in DOMAIN path : path[i] \notin {"?", "#"}
    PROVE  PathOf(path) = path
<1>1. {i \in DOMAIN path : path[i] \in {"?", "#"}} = {}
  OBVIOUS
<1> QED
  BY <1>1 DEF PathOf

LEMMA EndOfPath ==
    ASSUME NEW x, x # "/"
    PROVE  LastSegment(KeyPath(<<x>>)) = <<x>>
<1> DEFINE path == KeyPath(<<x>>)
           slashes == {i \in DOMAIN path : path[i] = "/"}
<1>1. slashes = {1, 3}
  BY OneKeyPath
<1>2. (CHOOSE i \in slashes : \A j \in slashes : j <= i) = 3
  BY <1>1
<1>3. LastSegment(path) = SubSeq(path, 4, 4)
  <2> HIDE DEF path
  <2>1. slashes # {} /\ Len(path) = 4
    BY <1>1, OneKeyPath DEF path
  <2> QED
    BY <1>2, <2>1 DEF LastSegment
<1>4. /\ SubSeq(path, 4, 4) \in Seq({x}) /\ Len(SubSeq(path, 4, 4)) = 1
      /\ SubSeq(path, 4, 4)[1] = x
  <2>1. \A i \in 4 .. 4 : path[i] \in {x}
    BY OneKeyPath
  <2> HIDE DEF path
  <2>2. path[4] = x
    BY <2>1
  <2> QED
    BY <2>1, <2>2, SubSeqProperties
<1>5. \A s \in Seq({x}) : Len(s) = 1 /\ s[1] = x => s = <<x>>
  OBVIOUS
<1> QED
  BY <1>3, <1>4, <1>5

(* The handler of a request is one of those that match it.                 *)
LEMMA HandlerMatches ==
    ASSUME NEW r, Routed(r)
    PROVE  \E i \in Matching(r) : Handler(r) = Routes[i].handler
<1>1. Matching(r) \subseteq 1 .. 7 /\ Matching(r) # {}
  BY RoutesAre DEF Matching, Routed
<1>2. \E i \in Matching(r) : \A j \in Matching(r) : i <= j
  BY <1>1
<1> QED
  BY <1>2 DEF Handler

(* A create works on the first word of its body.                           *)
LEMMA CreateKeyRight ==
    ASSUME NEW r, r.method = "POST", r.path = Create, r.body # <<>>
    PROVE  Routed(r) /\ getKey(r) = HandlerKey(r)
<1>1. PathOf(r.path) = Create
  BY NothingCut DEF Create
<1>2. 1 \in Matching(r)
  BY <1>1, RoutesAre DEF Matching, match
<1>3. \A j \in Matching(r) : j \in 1 .. 7
  BY RoutesAre DEF Matching
<1>4. \A i \in Matching(r) : (\A j \in Matching(r) : i <= j) <=> i = 1
  BY <1>2, <1>3
<1>5. (CHOOSE i \in Matching(r) : \A j \in Matching(r) : i <= j) = 1
  BY <1>2, <1>4
<1>6. Handler(r) = "handle_create"
  BY <1>5, RoutesAre DEF Handler
<1> QED
  BY <1>2, <1>6 DEF getKey, HandlerKey, Routed

(* The others have the key in their path, when it is one word, and find no *)
(* handler otherwise.                                                      *)
LEMMA PathKeyRight ==
    ASSUME NEW S, NEW key \in Seq(S), key # <<>>, "?" \notin S, "#" \notin S,
           NEW r, r.path = KeyPath(key), r.method \in {"PUT", "DELETE", "GET"},
           key = <<"create">> => r.body = <<>>
    PROVE  IF Routed(r) THEN getKey(r) = HandlerKey(r) ELSE ~OneWord(r)
<1> DEFINE path == r.path
<1>1. /\ DOMAIN path = 1 .. Len(path)
      /\ Len(path) = 3 + Len(key) /\ Len(key) \in Nat
      /\ path[1] = "/" /\ path[2] = "kvstore" /\ path[3] = "/"
      /\ \A i \in 4 .. Len(path) : path[i] \in S
      /\ Len(key) > 0 => path[4] = key[1]
  BY KeyPathIs
<1>2. Len(key) > 0
  BY <1>1, EmptySeq
<1>3. DOMAIN path = 1 .. Len(path) /\ Len(path) \in Nat /\ Len(path) >= 4
  BY <1>1, <1>2
<1> HIDE DEF path
<1>4. PathOf(path) = path
  <2>1. ASSUME NEW i \in DOMAIN path PROVE path[i] \notin {"?", "#"}
    <3>1. i \in {1, 2, 3} \/ i \in 4 .. Len(path)
      BY <1>3
    <3> QED
      BY <1>1, <3>1
  <2> QED
    BY <2>1, NothingCut
<1>5. Len(path) = 4 => key = <<path[4]>>
  <2>1. Len(key) = 1 => key = <<key[1]>>
    OBVIOUS
  <2>2. Len(path) = 4 => Len(key) = 1
    <3>1. \A m \in Nat : 3 + m = 4 => m = 1
      OBVIOUS
    <3> QED
      BY <1>1, <3>1, Zenon
  <2>3. path[4] = key[1]
    BY <1>1, <1>2
  <2> QED
    BY <2>1, <2>2, <2>3
<1>6. ASSUME OneWord(r) PROVE Routed(r)
  <2>1. Len(path) = 4 /\ IsWord(path[4])
    BY <1>6 DEF OneWord, path
  <2>2. match(KeyPath(<<Word>>), path)
    BY <1>1, <1>3, <2>1, OneKeyPath DEF match
  <2>3. 2 \in DOMAIN Routes /\ 3 \in DOMAIN Routes /\ 5 \in DOMAIN Routes
    BY RoutesAre
  <2>4. \E i \in {2, 3, 5} : Routes[i].method = r.method /\ Routes[i].pattern = KeyPath(<<Word>>)
    BY RoutesAre
  <2> QED
    BY <1>4, <2>2, <2>3, <2>4 DEF Routed, Matching, path
<1>7. ASSUME Routed(r) PROVE getKey(r) = HandlerKey(r)
  <2>1. PICK i \in Matching(r) : Handler(r) = Routes[i].handler
    BY <1>7, HandlerMatches
  <2>2. i \in 1 .. 7 /\ Routes[i].method = r.method /\ match(Routes[i].pattern, path)
    BY <1>4, RoutesAre DEF Matching, path
  <2>3. Handler(r) # "handle_create" /\ i \in {2, 3, 4, 5, 6}
    BY <2>1, <2>2, RoutesAre
  <2>4. i # 6
    <3>1. Len(<<"/", "health">>) = 2
      OBVIOUS
    <3>2. i = 6 => Routes[i].pattern = <<"/", "health">>
      BY RoutesAre
    <3>3. Len(Routes[i].pattern) = Len(path)
      BY <2>2 DEF match
    <3>4. i = 6 => Len(path) = 2
      BY <3>1, <3>2, <3>3, Zenon
    <3> QED
      BY <1>3, <3>4
  <2>5. Len(path) = 4 /\ path[4] # "/"
    <3>1. Routes[i].pattern \in {KeyPath(<<Word>>), KeyPath(<<"allkeys">>)}
      BY <2>3, <2>4, RoutesAre
    <3>2. PICK x \in {Word, "allkeys"} : Routes[i].pattern = KeyPath(<<x>>)
      BY <3>1
    <3>3. Len(path) = 4
      <4>1. Len(Routes[i].pattern) = Len(path)
        BY <2>2 DEF match
      <4> QED
        BY <3>2, <4>1, OneKeyPath
    <3>4. x = path[4] \/ (x = Word /\ IsWord(path[4]))
      BY <1>3, <2>2, <3>2, <3>3, OneKeyPath DEF match
    <3>5. Word # "/" /\ "allkeys" # "/"
      BY DEF Word
    <3> QED
      BY <3>3, <3>4, <3>5 DEF IsWord, Signs
  <2>6. key = <<path[4]>>
    BY <1>5, <2>5
  <2>7. LastSegment(path) = <<path[4]>>
    BY <2>5, <2>6, EndOfPath DEF path
  <2>8. path = Create => path[4] = "create"
    BY DEF Create
  <2>9. getKey(r) = <<path[4]>>
    BY <2>6, <2>7, <2>8 DEF getKey, path
  <2>10. HandlerKey(r) = <<path[4]>>
    BY <1>4, <2>3, <2>5 DEF HandlerKey, path
  <2> QED
    BY <2>9, <2>10
<1> QED
  BY <1>6, <1>7

LEMMA CommandKey ==
    ASSUME NEW Pieces, NEW line \in CommandLines(Pieces), NEW r, r = CommandRequest(line)
    PROVE  IF Routed(r) THEN getKey(r) = HandlerKey(r) ELSE ~OneWord(r)
<1>1. /\ line.cmd \in {"create", "update", "delete", "read"}
      /\ line.key \in Seq(Pieces \ {"?", "#"}) /\ line.key # <<>>
      /\ line.value \in Seq(Seq(Pieces)) /\ ~(line.cmd = "update" /\ line.key = <<"create">>)
  BY DEF CommandLines, IsCommand, HasKey
<1>2. CASE line.cmd = "create"
  <2>1. r.method = "POST" /\ r.path = Create /\ r.body = <<line.key>> \o line.value
    BY <1>2 DEF CommandRequest, Ask
  <2>2. r.body # <<>>
    BY <1>1, <2>1
  <2> QED
    BY <2>1, <2>2, CreateKeyRight
<1>3. CASE line.cmd \in {"update", "delete", "read"}
  <2>1. /\ r.path = KeyPath(line.key) /\ r.method \in {"PUT", "DELETE", "GET"}
        /\ line.key = <<"create">> => r.body = <<>>
    BY <1>1, <1>3 DEF CommandRequest, Ask
  <2> QED
    BY <1>1, <2>1, PathKeyRight
<1> QED
  BY <1>1, <1>2, <1>3

(* A session has the request of its client, or none.                       *)
Kept == \A c \in Slots : session[c].req # None => session[c].req \in ReqMsgs

LEMMA InnerAsks ==
    ASSUME NEW s, NEW buf, NEW x, x = Inner(s, buf)
    PROVE  x.req = None \/ x.pc = "route"
BY DEF Inner, NoSession

LEMMA SessionAsks ==
    ASSUME Shape, NEW c \in Slots, SessionStep(c)
    PROVE  /\ \A d \in Slots \ {c} : session'[d] = session[d]
           /\ session'[c].req \in {session[c].req, None} \/ session'[c].pc = "route"
<1>1. session \in [Slots -> SessionRec]
  BY DEF Shape, Types
<1>2. \A d \in Slots \ {c} : session'[d] = session[d]
  BY <1>1 DEF SessionStep, SessionTo, acceptClients, recv_client, client_left, get_candidates,
       connectToBackend, send_request, recv_backend, backend_left, take_response,
       next_candidate, no_candidate_left, relay, relay_503, close_client
<1>3. CASE recv_client(c) \/ relay(c) \/ relay_503(c)
  BY <1>1, <1>3, InnerAsks DEF recv_client, relay, relay_503, Erased, NoSession, SessionRec
<1>4. CASE acceptClients(c) \/ client_left(c) \/ get_candidates(c) \/ connectToBackend(c)
              \/ no_candidate_left(c) \/ close_client(c)
  BY <1>1, <1>4 DEF SessionTo, acceptClients, client_left, get_candidates,
       connectToBackend, no_candidate_left, close_client, NoSession, SessionRec
<1>5. CASE send_request(c) \/ backend_left(c) \/ next_candidate(c)
  BY <1>1, <1>5 DEF SessionTo, send_request, backend_left, next_candidate, SessionRec
<1>6. CASE recv_backend(c)
  BY <1>1, <1>6 DEF recv_backend, SessionRec
<1>7. CASE take_response(c)
  BY <1>1, <1>7 DEF take_response, SessionRec
<1> QED
  BY <1>2, <1>3, <1>4, <1>5, <1>6, <1>7 DEF SessionStep

LEMMA KeptStep ==
    ASSUME WireInv, Kept, [Next]_wireVars
    PROVE  Kept'
<1>1. Shape /\ Shape'
  BY WireStep DEF WireInv
<1>2. CASE UNCHANGED session
  BY <1>2 DEF Kept
<1>3. CASE ~UNCHANGED session
  <2>1. PICK c \in Slots : SessionStep(c)
    BY <1>3 DEF Next, wireVars, CallerStep, LbStep, ServeStep
  <2>2. session'[c].pc = "route" => session'[c].req \in ReqMsgs
    <3>1. (Working(c) => session[c].req \in ReqMsgs)'
      <4>1. Working(c)' => FirstIs(session[c].buf, session[c].req)'
        BY <1>1 DEF Shape, SessionOK
      <4>2. UpLines(c)' \subseteq ReqMsgs
        BY <1>1 DEF Shape
      <4> QED
        BY <4>1, <4>2, LineIn DEF FirstIs, UpLines, Lines, IsLine, Working, WorkingPcs, LinkedPcs
    <3> QED
      BY <3>1 DEF Working, WorkingPcs
  <2> QED
    BY <1>1, <2>1, <2>2, SessionAsks DEF Kept
<1> QED
  BY <1>2, <1>3

(* As long as its clients ask what kvclient asks, about any keys but those *)
(* that CommandLines excludes, the key by which the load balancer chooses  *)
(* the backends is the one that the handler chosen by the regular          *)
(* expressions of kvserver works on, and a command finds no handler only   *)
(* when its key is not one word.                                           *)
THEOREM CommandsAreRouted ==
    ASSUME NEW Pieces,
           \A r \in Asks : \E line \in CommandLines(Pieces) : r = CommandRequest(line)
    PROVE  Spec => []RoutedByItsKey
<1>1. Init => Kept
  <2>1. \A c \in Slots : NoSession.req = None
    BY DEF NoSession
  <2> QED
    BY <2>1 DEF Init, Kept
<1>2. WireInv /\ Kept /\ [Next]_wireVars => Kept'
  BY KeptStep
<1>3. Kept => RoutedByItsKey
  <2>1. ASSUME Kept, NEW c \in Slots, session[c].req # None
        PROVE  LET r == session[c].req.ask IN
               IF Routed(r) THEN getKey(r) = HandlerKey(r) ELSE ~OneWord(r)
    <3>1. session[c].req.ask \in Asks
      BY <2>1 DEF Kept, ReqMsgs
    <3>2. PICK line \in CommandLines(Pieces) : session[c].req.ask = CommandRequest(line)
      BY <3>1
    <3> QED
      BY <3>2, CommandKey
  <2> QED
    BY <2>1 DEF RoutedByItsKey
<1> QED
  BY <1>1, <1>2, <1>3, WireInvariant, PTL DEF Spec

-----------------------------------------------------------------------------
(* The order of what is sent on the connection of the client that does not *)
(* wait: the n-th line that comes back has number n, and the requests that *)
(* are not answered yet are still there, in order and whole.               *)
LinesAt(s) == {i \in DOMAIN s : IsLine(s, i)}

UpTo(s, i) == {j \in LinesAt(s) : j <= i}

InOrder(s) == \A i \in LinesAt(s) : s[i].m.id = <<"raw", Cardinality(UpTo(s, i))>>

Number(s, i) == s[i].m.id[2]

Waiting(s, a, b) ==
    /\ a <= b
    /\ \A i \in LinesAt(s) :
          /\ Number(s, i) \in a + 1 .. b /\ s[i].m.id = <<"raw", Number(s, i)>>
          /\ i + 1 + s[i].m.len <= Len(s)
    /\ \A n \in a + 1 .. b : \E i \in LinesAt(s) : Number(s, i) = n
    /\ \A i, j \in LinesAt(s) :
          i < j => Number(s, i) < Number(s, j) /\ i + 1 + s[i].m.len < j

LEMMA LinesFinite ==
    ASSUME NEW s \in Seq(Tokens)
    PROVE  /\ IsFiniteSet(LinesAt(s)) /\ Cardinality(LinesAt(s)) \in Nat
           /\ LinesAt(s) \subseteq 1 .. Len(s)
<1>1. LinesAt(s) \subseteq 1 .. Len(s) /\ Len(s) \in Nat
  BY TokenAt DEF LinesAt
<1>2. IsFiniteSet(1 .. Len(s))
  BY <1>1, FS_Interval
<1>3. IsFiniteSet(LinesAt(s))
  BY <1>1, <1>2, FS_Subset
<1> QED
  BY <1>1, <1>3, FS_CardinalityType

LEMMA WholeAt ==
    ASSUME NEW m \in Msgs
    PROVE  /\ WholeOf(m) \in Seq(Tokens) /\ Len(WholeOf(m)) = 2 + m.size
           /\ LinesAt(WholeOf(m)) = {1} /\ WholeOf(m)[1].m = m
<1> DEFINE s == HeadOf(m)
           t == BodyOf(m)
<1>1. /\ s \in Seq(Tokens) /\ Len(s) = 2
      /\ s[1] = Token("line", m) /\ s[2] = Token("headers", m)
  <2>1. s \in Seq(Tokens)
    BY HeadLines
  <2> QED
    BY <2>1 DEF HeadOf
<1>2. m.size \in Nat
  BY MsgTokens
<1>3. t \in Seq(Tokens) /\ Len(t) = m.size /\ \A i \in DOMAIN t : t[i] = Token("byte", m)
  <2>1. t \in Seq(Tokens)
    BY BodyLines
  <2>2. t = [i \in 1 .. m.size |-> Token("byte", m)]
    BY DEF BodyOf
  <2>3. Len(t) \in Nat /\ DOMAIN t = 1 .. Len(t)
    BY <2>1, TokenAt
  <2>4. DOMAIN t = 1 .. m.size /\ \A i \in DOMAIN t : t[i] = Token("byte", m)
    BY <2>2
  <2> HIDE DEF t
  <2>5. Len(t) = m.size
    BY <1>2, <2>3, <2>4
  <2> QED
    BY <2>1, <2>4, <2>5
<1> HIDE DEF s, t
<1>4. /\ s \o t \in Seq(Tokens) /\ Len(s \o t) = 2 + m.size
      /\ \A i \in 1 .. 2 + m.size : (s \o t)[i] = IF i <= 2 THEN s[i] ELSE t[i - 2]
  <2>1. /\ s \o t \in Seq(Tokens) /\ Len(s \o t) = Len(s) + Len(t)
        /\ \A i \in 1 .. Len(s) + Len(t) :
               (s \o t)[i] = IF i <= Len(s) THEN s[i] ELSE t[i - Len(s)]
    BY <1>1, <1>3, ConcatProperties
  <2> QED
    BY <1>1, <1>3, <2>1
<1>5. DOMAIN (s \o t) = 1 .. 2 + m.size /\ DOMAIN t = 1 .. m.size
  BY <1>1, <1>3, <1>4, TokenAt
<1>6. (s \o t)[1] = Token("line", m) /\ 1 \in DOMAIN (s \o t)
  BY <1>1, <1>2, <1>4, <1>5
<1>7. ASSUME NEW i \in DOMAIN (s \o t), i # 1 PROVE ~IsLine(s \o t, i)
  <2>1. CASE i = 2
    <3>1. (s \o t)[i] = s[2]
      BY <1>2, <1>4, <2>1
    <3> QED
      BY <1>1, <3>1 DEF IsLine, Token
  <2>2. CASE i # 2
    <3>1. i \in 3 .. 2 + m.size /\ i - 2 \in 1 .. m.size
      BY <1>2, <1>5, <1>7, <2>2
    <3>2. (s \o t)[i] = t[i - 2]
      BY <1>2, <1>4, <3>1
    <3> QED
      BY <1>3, <1>5, <3>1, <3>2 DEF IsLine, Token
  <2> QED
    BY <2>1, <2>2
<1>8. LinesAt(s \o t) = {1}
  BY <1>6, <1>7 DEF LinesAt, IsLine, Token
<1>9. (s \o t)[1].m = m
  BY <1>6 DEF Token
<1> QED
  BY <1>4, <1>8, <1>9 DEF WholeOf, s, t

(* A message at the end of s.                                              *)
Followed(s, m) == s \o WholeOf(m)

LEMMA LinesAfterWhole ==
    ASSUME NEW s \in Seq(Tokens), NEW m \in Msgs, NEW u, u = Followed(s, m)
    PROVE  /\ u \in Seq(Tokens) /\ Len(u) = Len(s) + 2 + m.size
           /\ LinesAt(u) = LinesAt(s) \union {Len(s) + 1}
           /\ Len(s) + 1 \notin LinesAt(s)
           /\ u[Len(s) + 1].m = m
           /\ \A i \in LinesAt(s) : u[i] = s[i]
<1> DEFINE t == WholeOf(m)
<1>1. t \in Seq(Tokens) /\ Len(t) = 2 + m.size /\ LinesAt(t) = {1} /\ t[1].m = m
  BY WholeAt
<1>2. m.size \in Nat /\ Len(s) \in Nat /\ DOMAIN s = 1 .. Len(s)
  BY MsgTokens, TokenAt
<1> HIDE DEF t
<1>3. 1 \in DOMAIN t /\ IsLine(t, 1) /\ \A i \in DOMAIN t : IsLine(t, i) => i = 1
  <2>1. \A i \in DOMAIN t : IsLine(t, i) <=> i \in {1}
    BY <1>1 DEF LinesAt
  <2>2. 1 \in DOMAIN t
    BY <1>1 DEF LinesAt
  <2> QED
    BY <2>1, <2>2
<1>4. /\ u \in Seq(Tokens)
      /\ \A i \in DOMAIN s : i \in DOMAIN u /\ u[i] = s[i]
      /\ \A i \in DOMAIN t : Len(s) + i \in DOMAIN u /\ u[Len(s) + i] = t[i]
      /\ \A i \in DOMAIN u : \/ i \in DOMAIN s /\ u[i] = s[i]
                             \/ i - Len(s) \in DOMAIN t /\ u[i] = t[i - Len(s)]
  BY <1>1, Joined DEF t, Followed
<1>5. Len(u) = Len(s) + 2 + m.size
  <2>1. Len(s \o t) = Len(s) + Len(t)
    BY <1>1, ConcatProperties
  <2> QED
    BY <1>1, <1>2, <2>1 DEF t, Followed
<1>6. ASSUME NEW i \in LinesAt(u) PROVE i \in LinesAt(s) \union {Len(s) + 1}
  <2>1. i \in DOMAIN u /\ IsLine(u, i) /\ i \in Int
    BY <1>4, <1>6, TokenAt DEF LinesAt
  <2>2. CASE i \in DOMAIN s /\ u[i] = s[i]
    BY <2>1, <2>2 DEF LinesAt, IsLine
  <2>3. CASE i - Len(s) \in DOMAIN t /\ u[i] = t[i - Len(s)]
    <3>1. i - Len(s) = 1
      BY <1>3, <2>1, <2>3 DEF IsLine
    <3> QED
      BY <1>2, <2>1, <3>1
  <2> QED
    BY <1>4, <2>1, <2>2, <2>3
<1>7. ASSUME NEW i \in LinesAt(s) PROVE i \in LinesAt(u) /\ u[i] = s[i]
  BY <1>4 DEF LinesAt, IsLine
<1>8. Len(s) + 1 \in LinesAt(u) /\ u[Len(s) + 1].m = m
  <2>1. Len(s) + 1 \in DOMAIN u /\ u[Len(s) + 1] = t[1]
    BY <1>3, <1>4
  <2> QED
    BY <1>1, <1>3, <2>1 DEF LinesAt, IsLine
<1>9. Len(s) + 1 \notin LinesAt(s)
  BY <1>2 DEF LinesAt
<1> QED
  BY <1>4, <1>5, <1>6, <1>7, <1>8, <1>9

LEMMA InOrderAfter ==
    ASSUME NEW s \in Seq(Tokens), InOrder(s), NEW m \in Msgs, NEW u, u = Followed(s, m),
           m.id = <<"raw", Cardinality(LinesAt(s)) + 1>>
    PROVE  InOrder(u) /\ Cardinality(LinesAt(u)) = Cardinality(LinesAt(s)) + 1
<1> PICK k : k = Len(s) + 1
  OBVIOUS
<1>0. /\ u \in Seq(Tokens) /\ Len(u) = Len(s) + 2 + m.size
      /\ LinesAt(u) = LinesAt(s) \union {Len(s) + 1}
      /\ Len(s) + 1 \notin LinesAt(s)
      /\ u[Len(s) + 1].m = m
      /\ \A i \in LinesAt(s) : u[i] = s[i]
  BY LinesAfterWhole, SMTT(60)
<1>1. /\ u \in Seq(Tokens) /\ LinesAt(u) = LinesAt(s) \union {k} /\ k \notin LinesAt(s)
      /\ u[k].m = m /\ \A i \in LinesAt(s) : u[i] = s[i]
  BY <1>0
<1>2. LinesAt(s) \subseteq 1 .. Len(s) /\ Len(s) \in Nat /\ IsFiniteSet(LinesAt(s))
  BY LinesFinite, TokenAt
<1>3. Cardinality(LinesAt(u)) = Cardinality(LinesAt(s)) + 1
  BY <1>1, <1>2, FS_AddElement
<1>4. \A i \in LinesAt(s) : UpTo(u, i) = UpTo(s, i)
  BY <1>1, <1>2 DEF UpTo
<1>5. UpTo(u, k) = LinesAt(u)
  BY <1>1, <1>2 DEF UpTo
<1>6. ASSUME NEW i \in LinesAt(u) PROVE u[i].m.id = <<"raw", Cardinality(UpTo(u, i))>>
  <2>1. CASE i \in LinesAt(s)
    BY <1>1, <1>4, <2>1 DEF InOrder
  <2>2. CASE i = k
    BY <1>1, <1>3, <1>5, <2>2
  <2> QED
    BY <1>1, <2>1, <2>2
<1> QED
  BY <1>3, <1>6 DEF InOrder

LEMMA InOrderPart ==
    ASSUME NEW s \in Seq(Tokens), NEW t \in Seq(Tokens), InOrder(s \o t)
    PROVE  InOrder(s)
<1> PICK u : u = s \o t
  OBVIOUS
<1>1. /\ u \in Seq(Tokens)
      /\ \A i \in DOMAIN s : i \in DOMAIN u /\ u[i] = s[i]
      /\ \A i \in DOMAIN u : \/ i \in DOMAIN s /\ u[i] = s[i]
                             \/ i - Len(s) \in DOMAIN t /\ u[i] = t[i - Len(s)]
  BY Joined
<1>2. Len(s) \in Nat /\ DOMAIN s = 1 .. Len(s) /\ DOMAIN u = 1 .. Len(u) /\ Len(u) \in Nat
  BY <1>1, TokenAt
<1>3. ASSUME NEW i \in LinesAt(s) PROVE i \in LinesAt(u) /\ u[i] = s[i] /\ UpTo(u, i) = UpTo(s, i)
  <2>1. i \in 1 .. Len(s) /\ i \in LinesAt(u) /\ u[i] = s[i]
    BY <1>1, <1>2 DEF LinesAt, IsLine
  <2>2. \A j \in DOMAIN u : j <= i => j \in DOMAIN s /\ u[j] = s[j]
    BY <1>1, <1>2, <2>1
  <2>3. UpTo(u, i) \subseteq UpTo(s, i)
    BY <2>2 DEF UpTo, LinesAt, IsLine
  <2>4. UpTo(s, i) \subseteq UpTo(u, i)
    BY <1>1 DEF UpTo, LinesAt, IsLine
  <2> QED
    BY <2>1, <2>3, <2>4
<1> QED
  BY <1>3 DEF InOrder

LEMMA WaitingAfter ==
    ASSUME NEW s \in Seq(Tokens), NEW a \in Nat, NEW b \in Nat, Waiting(s, a, b),
           NEW m \in Msgs, m.len = m.size, m.id = <<"raw", b + 1>>,
           NEW u, u = Followed(s, m)
    PROVE  Waiting(u, a, b + 1)
<1> PICK k : k = Len(s) + 1
  OBVIOUS
<1>0. /\ u \in Seq(Tokens) /\ Len(u) = Len(s) + 2 + m.size
      /\ LinesAt(u) = LinesAt(s) \union {Len(s) + 1}
      /\ Len(s) + 1 \notin LinesAt(s)
      /\ u[Len(s) + 1].m = m
      /\ \A i \in LinesAt(s) : u[i] = s[i]
  BY LinesAfterWhole, SMTT(30)
<1>1. /\ u \in Seq(Tokens) /\ LinesAt(u) = LinesAt(s) \union {k}
      /\ u[k].m = m /\ \A i \in LinesAt(s) : u[i] = s[i]
      /\ Len(u) = Len(s) + 2 + m.size
  BY <1>0
<1>2. LinesAt(s) \subseteq 1 .. Len(s) /\ Len(s) \in Nat /\ m.size \in Nat
  BY LinesFinite, TokenAt, MsgTokens
<1>3. \A i \in LinesAt(s) : s[i].m.len \in Nat
  BY TokenAt, MsgTokens DEF LinesAt
<1>4. Number(u, k) = b + 1 /\ u[k].m.id = <<"raw", b + 1>>
  BY <1>1 DEF Number
<1>5. \A i \in LinesAt(s) : /\ Number(u, i) = Number(s, i) /\ u[i].m.id = s[i].m.id
                            /\ u[i].m.len = s[i].m.len
  BY <1>1 DEF Number
<1>6. a <= b + 1
  BY DEF Waiting
<1>7. ASSUME NEW i \in LinesAt(u)
      PROVE  /\ Number(u, i) \in a + 1 .. b + 1 /\ u[i].m.id = <<"raw", Number(u, i)>>
             /\ i + 1 + u[i].m.len <= Len(u)
  <2>1. CASE i \in LinesAt(s)
    <3>1. /\ Number(s, i) \in a + 1 .. b /\ s[i].m.id = <<"raw", Number(s, i)>>
          /\ i + 1 + s[i].m.len <= Len(s)
      BY <2>1 DEF Waiting
    <3>2. Number(u, i) \in a + 1 .. b + 1
      BY <1>5, <2>1, <3>1
    <3>3. u[i].m.id = <<"raw", Number(u, i)>>
      BY <1>5, <2>1, <3>1
    <3>4. i + 1 + u[i].m.len <= Len(u)
      <4>1. i \in Nat /\ s[i].m.len \in Nat
        BY <1>2, <1>3, <2>1
      <4> QED
        BY <1>1, <1>2, <1>5, <2>1, <3>1, <4>1, SMTT(60)
    <3> QED
      BY <3>2, <3>3, <3>4
  <2>2. CASE i = k
    <3>1. a <= b
      BY DEF Waiting
    <3> QED
      BY <1>1, <1>2, <1>4, <2>2, <3>1
  <2> QED
    BY <1>1, <2>1, <2>2
<1>8. ASSUME NEW n \in a + 1 .. b + 1 PROVE \E i \in LinesAt(u) : Number(u, i) = n
  <2>1. CASE n = b + 1
    BY <1>1, <1>4, <2>1
  <2>2. CASE n # b + 1
    <3>1. n \in a + 1 .. b
      BY <2>2
    <3>2. PICK i \in LinesAt(s) : Number(s, i) = n
      BY <3>1 DEF Waiting
    <3> QED
      BY <1>1, <1>5, <3>2
  <2> QED
    BY <2>1, <2>2
<1>9. ASSUME NEW i \in LinesAt(u), NEW j \in LinesAt(u), i < j
      PROVE  Number(u, i) < Number(u, j) /\ i + 1 + u[i].m.len < j
  <2>1. i \in LinesAt(s)
    BY <1>1, <1>2, <1>9
  <2>2. CASE j \in LinesAt(s)
    BY <1>5, <1>9, <2>1, <2>2 DEF Waiting
  <2>3. CASE j = k
    <3>1. Number(s, i) \in a + 1 .. b /\ i + 1 + s[i].m.len <= Len(s)
      BY <2>1 DEF Waiting
    <3> QED
      BY <1>2, <1>3, <1>4, <1>5, <2>1, <2>3, <3>1, SMTT(60)
  <2> QED
    BY <1>1, <2>2, <2>3
<1> QED
  BY <1>6, <1>7, <1>8, <1>9 DEF Waiting

(* The first request is taken out of s, whole, and nothing else.           *)
LEMMA NextOn ==
    ASSUME NEW a \in Nat, NEW b \in Nat, NEW n \in a + 1 .. b, a + 1 < n
    PROVE  n \in (a + 1) + 1 .. b
OBVIOUS

LEMMA WaitingRest ==
    ASSUME NEW f \in Seq(Tokens), NEW t \in Seq(Tokens), NEW s, s = f \o t,
           NEW a \in Nat, NEW b \in Nat, Waiting(s, a, b),
           1 \in DOMAIN f, IsLine(f, 1), Len(f) = 2 + f[1].m.len
    PROVE  f[1].m.id = <<"raw", a + 1>> /\ Waiting(t, a + 1, b)
<1> PICK p : p = Len(f)
  OBVIOUS
<1>0. /\ s \in Seq(Tokens)
      /\ \A i \in DOMAIN f : i \in DOMAIN s /\ s[i] = f[i]
      /\ \A i \in DOMAIN t : Len(f) + i \in DOMAIN s /\ s[Len(f) + i] = t[i]
      /\ \A i \in DOMAIN s : \/ i \in DOMAIN f /\ s[i] = f[i]
                             \/ i - Len(f) \in DOMAIN t /\ s[i] = t[i - Len(f)]
  BY Joined
<1>a. Len(s) = Len(f) + Len(t)
  BY ConcatProperties
<1>1. /\ s \in Seq(Tokens) /\ Len(s) = p + Len(t)
      /\ \A i \in DOMAIN f : i \in DOMAIN s /\ s[i] = f[i]
      /\ \A i \in DOMAIN t : p + i \in DOMAIN s /\ s[p + i] = t[i]
      /\ \A i \in DOMAIN s : \/ i \in DOMAIN f /\ s[i] = f[i]
                             \/ i - p \in DOMAIN t /\ s[i] = t[i - p]
  BY <1>0, <1>a
<1>2. /\ p \in Nat /\ Len(t) \in Nat /\ DOMAIN f = 1 .. p /\ DOMAIN t = 1 .. Len(t)
      /\ DOMAIN s = 1 .. Len(s) /\ f[1].m.len \in Nat
  <2>1. f[1].m \in Msgs
    BY TokenAt
  <2> QED
    BY <1>1, <2>1, TokenAt, MsgTokens
<1>3. 1 \in LinesAt(s) /\ s[1] = f[1]
  BY <1>1 DEF LinesAt, IsLine
<1>4. \A j \in LinesAt(s) : j # 1 => j > p
  <2>1. ASSUME NEW j \in LinesAt(s), j # 1 PROVE j > p
    <3>1. 1 < j /\ j \in Nat
      BY <1>2, <2>1 DEF LinesAt
    <3>2. 1 + 1 + s[1].m.len < j
      BY <1>3, <3>1 DEF Waiting
    <3> QED
      BY <1>2, <1>3, <3>1, <3>2
  <2> QED
    BY <2>1
<1>5. \A i \in LinesAt(t) : i + p \in LinesAt(s) /\ s[i + p] = t[i] /\ i \in Nat /\ i > 0
  <2>1. ASSUME NEW i \in LinesAt(t)
        PROVE  i + p \in LinesAt(s) /\ s[i + p] = t[i] /\ i \in Nat /\ i > 0
    <3>1. i \in DOMAIN t /\ IsLine(t, i) /\ i \in Nat /\ i > 0
      BY <1>2, <2>1 DEF LinesAt
    <3>2. p + i \in DOMAIN s /\ s[p + i] = t[i] /\ p + i = i + p
      <4>1. p + i \in DOMAIN s /\ s[p + i] = t[i]
        BY <1>1, <3>1
      <4> QED
        BY <1>2, <3>1, <4>1
    <3> QED
      BY <3>1, <3>2 DEF LinesAt, IsLine
  <2> QED
    BY <2>1
<1>6. \A j \in LinesAt(s) : j # 1 => j - p \in LinesAt(t) /\ s[j] = t[j - p] /\ j \in Nat
  <2>1. ASSUME NEW j \in LinesAt(s), j # 1 PROVE j - p \in LinesAt(t) /\ s[j] = t[j - p] /\ j \in Nat
    <3>1. j \in DOMAIN s /\ IsLine(s, j) /\ j > p
      BY <1>4, <2>1 DEF LinesAt
    <3>2. j \notin DOMAIN f
      BY <1>2, <3>1
    <3>3. j - p \in DOMAIN t /\ s[j] = t[j - p]
      BY <1>1, <3>1, <3>2
    <3> QED
      BY <1>2, <3>1, <3>3 DEF LinesAt, IsLine
  <2> QED
    BY <2>1
<1>7. a <= b /\ Number(s, 1) \in a + 1 .. b /\ s[1].m.id = <<"raw", Number(s, 1)>>
  BY <1>3 DEF Waiting
<1>8. a + 1 \in a + 1 .. b
  BY <1>7
<1>9. Number(s, 1) = a + 1
  <2>1. PICK i \in LinesAt(s) : Number(s, i) = a + 1
    BY <1>8 DEF Waiting
  <2>2. CASE i # 1
    <3>1. 1 < i
      BY <1>2, <2>2 DEF LinesAt
    <3>2. Number(s, 1) < Number(s, i)
      BY <1>3, <3>1 DEF Waiting
    <3> QED
      BY <1>7, <2>1, <3>2
  <2> QED
    BY <2>1, <2>2
<1>10. \A i \in LinesAt(t) : Number(t, i) = Number(s, i + p)
  BY <1>5 DEF Number
<1>11. ASSUME NEW i \in LinesAt(t)
       PROVE  /\ Number(t, i) \in (a + 1) + 1 .. b /\ t[i].m.id = <<"raw", Number(t, i)>>
              /\ i + 1 + t[i].m.len <= Len(t)
  <2>1. i + p \in LinesAt(s) /\ s[i + p] = t[i] /\ i \in Nat /\ i > 0
    BY <1>5
  <2>2. /\ Number(s, i + p) \in a + 1 .. b /\ s[i + p].m.id = <<"raw", Number(s, i + p)>>
        /\ (i + p) + 1 + s[i + p].m.len <= Len(s)
    BY <2>1 DEF Waiting
  <2>3. Number(s, 1) < Number(s, i + p)
    <3>1. 1 < i + p
      BY <1>2, <2>1
    <3> QED
      BY <1>3, <2>1, <3>1 DEF Waiting
  <2>4. t[i].m.len \in Nat
    BY TokenAt, MsgTokens DEF LinesAt
  <2>5. Number(t, i) \in (a + 1) + 1 .. b
    <3>1. Number(t, i) = Number(s, i + p) /\ Number(s, 1) = a + 1
      BY <1>9, <1>10
    <3>2. Number(t, i) \in a + 1 .. b /\ a + 1 < Number(t, i)
      BY <2>2, <2>3, <3>1
    <3> QED
      BY <3>2, NextOn, Zenon
  <2>6. i + 1 + t[i].m.len <= Len(t)
    <3>1. (i + p) + 1 + t[i].m.len <= p + Len(t)
      BY <1>1, <2>1, <2>2
    <3>2. \A x, q, n, l \in Nat : (x + q) + 1 + n <= q + l => x + 1 + n <= l
      OBVIOUS
    <3> QED
      BY <1>2, <2>1, <2>4, <3>1, <3>2
  <2> QED
    BY <1>10, <2>1, <2>2, <2>5, <2>6
<1>12. ASSUME NEW n \in (a + 1) + 1 .. b PROVE \E i \in LinesAt(t) : Number(t, i) = n
  <2>1. n \in a + 1 .. b /\ n # a + 1
    OBVIOUS
  <2>2. PICK j \in LinesAt(s) : Number(s, j) = n
    BY <2>1 DEF Waiting
  <2>3. j # 1
    BY <1>9, <2>1, <2>2
  <2>4. j - p \in LinesAt(t) /\ j \in Nat
    BY <1>6, <2>3
  <2>5. (j - p) + p = j
    BY <1>2, <2>4
  <2> QED
    BY <1>10, <2>2, <2>4, <2>5
<1>13. ASSUME NEW i \in LinesAt(t), NEW j \in LinesAt(t), i < j
       PROVE  Number(t, i) < Number(t, j) /\ i + 1 + t[i].m.len < j
  <2>1. /\ i + p \in LinesAt(s) /\ s[i + p] = t[i] /\ i \in Nat
        /\ j + p \in LinesAt(s) /\ j \in Nat
    BY <1>5
  <2>2. i + p < j + p
    BY <1>2, <1>13, <2>1
  <2>3. Number(s, i + p) < Number(s, j + p) /\ (i + p) + 1 + s[i + p].m.len < j + p
    BY <2>1, <2>2 DEF Waiting
  <2>4. t[i].m.len \in Nat
    BY TokenAt, MsgTokens DEF LinesAt
  <2>5. i + 1 + t[i].m.len < j
    <3>1. (i + p) + 1 + t[i].m.len < j + p
      BY <2>1, <2>3
    <3>2. \A x, q, n, l \in Nat : (x + q) + 1 + n < l + q => x + 1 + n < l
      OBVIOUS
    <3> QED
      BY <1>2, <2>1, <2>4, <3>1, <3>2
  <2> QED
    BY <1>10, <2>3, <2>5
<1>14. a + 1 <= b
  BY <1>8
<1> QED
  BY <1>3, <1>7, <1>9, <1>11, <1>12, <1>13, <1>14 DEF Waiting

Ups == session[RawConn].buf \o conn[RawConn].to["server"]

Downs == raw.buf \o conn[RawConn].to["client"]

Answered == Cardinality(LinesAt(Downs))

(* The session of that connection will still answer.                       *)
Goes == conn[RawConn].at["server"] # "closed" /\ session[RawConn].pc # "close"

RawPlace ==
    /\ raw.pc \in {"absent", "new"} => raw.buf = <<>>
    /\ raw.pc = "new" => raw.sent = 0 /\ conn[RawConn].at["server"] = "closed"
    /\ raw.pc = "open" => conn[RawConn].at["client"] = "open"
    /\ raw.pc = "closed" => conn[RawConn].at["server"] = "closed"

InTurn ==
    /\ RawPlace
    /\ raw.pc \in {"open", "closed"} => InOrder(Downs)
    /\ raw.pc = "open" /\ Goes => Waiting(Ups, Answered, raw.sent)

LEMMA RawTypes ==
    ASSUME Shape
    PROVE  /\ RawConn \in Slots /\ RawConn \in Conns /\ Types /\ ConnOK
           /\ raw.buf \in Seq(Tokens) /\ raw.sent \in Nat
           /\ raw.pc \in {"absent", "new", "open", "closed"}
           /\ conn[RawConn].to["client"] \in Seq(Tokens)
           /\ conn[RawConn].to["server"] \in Seq(Tokens)
           /\ session[RawConn].buf \in Seq(Tokens)
           /\ Downs \in Seq(Tokens) /\ Ups \in Seq(Tokens) /\ Answered \in Nat
           /\ \A e \in Ends : conn[RawConn].at[e] = "closed" => conn[RawConn].to[e] = <<>>
<1>1. RawConn \in Slots /\ RawConn \in Conns /\ Types /\ ConnOK
  BY RawConnType DEF Shape, Types
<1>2. raw.buf \in Seq(Tokens) /\ raw.sent \in Nat /\ raw.pc \in {"absent", "new", "open", "closed"}
  BY <1>1 DEF Types, RawRec
<1>3. /\ conn[RawConn].to["client"] \in Seq(Tokens)
      /\ conn[RawConn].to["server"] \in Seq(Tokens)
      /\ session[RawConn].buf \in Seq(Tokens)
  BY <1>1, UpType
<1>4. Downs \in Seq(Tokens) /\ Ups \in Seq(Tokens)
  BY <1>2, <1>3, Joined DEF Downs, Ups
<1>5. Answered \in Nat
  BY <1>4, LinesFinite DEF Answered
<1>6. \A e \in Ends : conn[RawConn].at[e] = "closed" => conn[RawConn].to[e] = <<>>
  BY <1>1, ConnFields
<1> QED
  BY <1>1, <1>2, <1>3, <1>4, <1>5, <1>6

(* A step that leaves what is sent as it is.                               *)
LEMMA SameTurn ==
    ASSUME InTurn, Downs' = Downs, RawPlace', raw'.sent = raw.sent,
           raw'.pc = "open" => raw.pc = "open", raw'.pc = "closed" => raw.pc \in {"open", "closed"},
           Goes' => Goes /\ Ups' = Ups
    PROVE  InTurn'
BY DEF InTurn, Answered

LEMMA QuietTurn ==
    ASSUME InTurn, UNCHANGED raw, conn'[RawConn] = conn[RawConn],
           session'[RawConn].pc = "close"
               \/ (session'[RawConn].buf = session[RawConn].buf /\ session[RawConn].pc # "close")
               \/ session'[RawConn] = session[RawConn]
    PROVE  InTurn'
<1>1. Downs' = Downs
  BY DEF Downs
<1>2. RawPlace'
  BY DEF InTurn, RawPlace
<1>3. Goes' => Goes /\ Ups' = Ups
  BY DEF Goes, Ups
<1> QED
  BY <1>1, <1>2, <1>3, SameTurn

(* An answer to the request that is first in the buffer, which is erased.  *)
LEMMA AnswerTurn ==
    ASSUME Shape, InTurn, UNCHANGED raw, Working(RawConn), NEW m \in Msgs,
           m.id = session[RawConn].req.id, Wrote(RawConn, "server", WholeOf(m)),
           session'[RawConn].pc = "close" \/ session'[RawConn].buf = RestOf(RawConn)
    PROVE  InTurn'
<1> DEFINE s == session[RawConn].buf
           t == conn[RawConn].to["server"]
           r == RestOf(RawConn)
           n == 2 + session[RawConn].req.len
           f == SubSeq(s, 1, n)
<1>1. /\ s \in Seq(Tokens) /\ t \in Seq(Tokens) /\ raw.sent \in Nat /\ Answered \in Nat
      /\ Downs \in Seq(Tokens) /\ RawConn \in Slots
      /\ raw.buf \in Seq(Tokens) /\ conn[RawConn].to["client"] \in Seq(Tokens)
      /\ raw.pc \in {"absent", "new", "open", "closed"}
  BY RawTypes
<1>2. conn[RawConn].at["server"] = "open" /\ session[RawConn].pc # "close"
  BY <1>1 DEF Shape, SessionOK, Working, WorkingPcs, LinkedPcs
<1>3. CASE raw.pc # "open"
  <2>1. raw.pc = "absent"
    BY <1>1, <1>2, <1>3 DEF InTurn, RawPlace
  <2> QED
    BY <2>1 DEF InTurn, RawPlace
<1>4. CASE raw.pc = "open"
  <2>1. Goes /\ Waiting(Ups, Answered, raw.sent) /\ InOrder(Downs)
        /\ conn[RawConn].at["client"] = "open"
    BY <1>2, <1>4 DEF Goes, InTurn, RawPlace
  <2>2. /\ 1 \in DOMAIN s /\ IsLine(s, 1) /\ session[RawConn].req = s[1].m
        /\ n \in 2 .. Len(s)
    BY <1>1, WorkingRequest DEF FirstIs
  <2>3. f \in Seq(Tokens) /\ r \in Seq(Tokens) /\ s = f \o r
    <3>1. n \in 0 .. Len(s)
      BY <2>2
    <3> QED
      BY <1>1, <3>1, CutLines DEF RestOf
  <2>4. Len(f) = n /\ f[1] = s[1]
    <3>1. Len(s) \in Nat /\ \A i \in 1 .. Len(s) : s[i] \in Tokens
      BY <1>1, TokenAt
    <3>2. Len(f) = n /\ \A i \in 1 .. n : f[i] = s[i]
      BY <2>2, <3>1, SubSeqProperties
    <3> QED
      BY <2>2, <3>2
  <2> HIDE DEF s, t, r, n, f
  <2>5. 1 \in DOMAIN f /\ IsLine(f, 1) /\ Len(f) = 2 + f[1].m.len
    <3>1. DOMAIN f = 1 .. Len(f)
      BY <2>3, TokenAt
    <3> QED
      BY <2>2, <2>4, <3>1 DEF IsLine, n
  <2>6. r \o t \in Seq(Tokens) /\ Ups = f \o (r \o t)
    <3>1. (f \o r) \o t = f \o (r \o t)
      BY <1>1, <2>3, JoinedThree, SMTT(60)
    <3>2. Ups = s \o t
      BY DEF Ups, s, t
    <3>3. r \o t \in Seq(Tokens)
      BY <1>1, <2>3, Joined
    <3> QED
      BY <2>3, <3>1, <3>2, <3>3
  <2>7. f[1].m.id = <<"raw", Answered + 1>> /\ Waiting(r \o t, Answered + 1, raw.sent)
    BY <1>1, <2>1, <2>3, <2>5, <2>6, WaitingRest
  <2>8. m.id = <<"raw", Answered + 1>>
    BY <2>2, <2>4, <2>7
  <2>9. /\ conn'[RawConn].to["client"] = conn[RawConn].to["client"] \o WholeOf(m)
        /\ conn'[RawConn].to["server"] = t
        /\ conn'[RawConn].at = conn[RawConn].at
    BY <2>1 DEF Wrote, SameAt, Other, Gone, t
  <2>10. Downs' = Followed(Downs, m)
    <3>1. WholeOf(m) \in Seq(Tokens)
      BY WholeAt
    <3>2. (raw.buf \o conn[RawConn].to["client"]) \o WholeOf(m)
            = raw.buf \o (conn[RawConn].to["client"] \o WholeOf(m))
      BY <1>1, <3>1, JoinedThree, ZenonT(60)
    <3> QED
      BY <2>9, <3>2 DEF Downs, Followed
  <2>11. InOrder(Downs') /\ Cardinality(LinesAt(Downs')) = Answered + 1
    BY <1>1, <2>1, <2>8, <2>10, InOrderAfter DEF Answered
  <2>12. RawPlace'
    BY <2>9 DEF InTurn, RawPlace
  <2>13. Goes' => Ups' = r \o t
    BY <2>9 DEF Goes, Ups, r
  <2>14. InOrder(Downs)' /\ Answered' = Answered + 1 /\ raw'.sent = raw.sent
    BY <2>11 DEF Answered
  <2> QED
    BY <2>7, <2>12, <2>13, <2>14 DEF InTurn
<1> QED
  BY <1>3, <1>4

(* The server closes its end: what it has sent may be cut short.           *)
LEMMA CutTurn ==
    ASSUME Shape, InTurn, UNCHANGED raw, ClosedEnd(RawConn, "server")
    PROVE  InTurn'
<1>1. /\ conn'[RawConn].at["server"] = "closed"
      /\ conn'[RawConn].at["client"] = conn[RawConn].at["client"]
  BY DEF ClosedEnd, Other
<1>2. PICK n \in 0 .. Len(conn[RawConn].to["client"]) :
          conn'[RawConn].to["client"] = SubSeq(conn[RawConn].to["client"], 1, n)
  BY DEF ClosedEnd, Other
<1> DEFINE f == SubSeq(conn[RawConn].to["client"], 1, n)
           b == SubSeq(conn[RawConn].to["client"], n + 1, Len(conn[RawConn].to["client"]))
<1>3. f \in Seq(Tokens) /\ b \in Seq(Tokens) /\ conn[RawConn].to["client"] = f \o b
  BY RawTypes, CutLines
<1>4. Downs' = raw.buf \o f
  BY <1>2 DEF Downs
<1> HIDE DEF f, b
<1>5. raw.buf \in Seq(Tokens) /\ raw.buf \o f \in Seq(Tokens) /\ Downs = (raw.buf \o f) \o b
  <2>1. raw.buf \in Seq(Tokens)
    BY RawTypes
  <2>2. (raw.buf \o f) \o b = raw.buf \o (f \o b)
    BY <1>3, <2>1, JoinedThree
  <2>3. raw.buf \o f \in Seq(Tokens)
    BY <1>3, <2>1, Joined
  <2> QED
    BY <1>3, <2>1, <2>2, <2>3 DEF Downs
<1>6. InOrder(Downs) => InOrder(raw.buf \o f)
  BY <1>3, <1>5, InOrderPart
<1>7. RawPlace' /\ ~Goes'
  BY <1>1 DEF InTurn, RawPlace, Goes
<1> QED
  BY <1>4, <1>6, <1>7 DEF InTurn

(* What a session does with its backend shows on no client's connection.   *)
LEMMA LinkStepElsewhere ==
    ASSUME Shape, NEW c \in Slots,
           \/ connectToBackend(c) \/ send_request(c) \/ recv_backend(c) \/ backend_left(c)
           \/ take_response(c) \/ next_candidate(c),
           NEW d \in Slots
    PROVE  conn'[d] = conn[d]
<1>1. CASE connectToBackend(c)
  <2>1. CASE UNCHANGED conn
    BY <2>1
  <2>2. ASSUME NEW b \in BackendSlots, Connect(b, BackendSlots) PROVE conn'[d] = conn[d]
    <3>1. OthersSame(b)
      BY <2>2, ConnectDoes, WireAssumption DEF Shape, Types
    <3> QED
      BY <3>1, HttpClientAssumption, WireAssumption DEF OthersSame
  <2> QED
    BY <1>1, <2>1, <2>2, ConnectBackendDoes
<1>2. CASE send_request(c) \/ recv_backend(c) \/ take_response(c) \/ next_candidate(c)
  <2>1. session[c].pc \in LinkedPcs
    BY <1>2, SendRequestDoes, RecvBackendDoes, TakeResponseDoes, NextCandidateDoes DEF LinkedPcs
  <2>2. session[c].sock \in BackendSlots
    BY <2>1, LinkedSock DEF Linked
  <2>3. OthersSame(session[c].sock)
    BY <1>2, SendRequestDoes, RecvBackendDoes, TakeResponseDoes, NextCandidateDoes
    DEF Wrote, Took, ClosedEnd
  <2> QED
    BY <2>2, <2>3, HttpClientAssumption, WireAssumption DEF OthersSame
<1>3. CASE backend_left(c)
  BY <1>3, BackendLeftDoes
<1> QED
  BY <1>1, <1>2, <1>3

LEMMA SessionTurn ==
    ASSUME Shape, InTurn, UNCHANGED raw, SessionStep(RawConn), OutOK(RawConn)
    PROVE  InTurn'
<1> DEFINE R == RawConn
<1>0. R \in Slots /\ R \in Conns /\ ConnOK
  BY RawTypes
<1> HIDE DEF R
<1>1. CASE acceptClients(R)
  <2>1. /\ session'[R].buf = session[R].buf /\ session[R].pc = "none" /\ Accept(R)
    BY <1>0, <1>1, AcceptClientsDoes DEF SameRequest
  <2>2. /\ conn[R].at["server"] = "backlog" /\ conn'[R].at["server"] = "open"
        /\ conn'[R].at["client"] = conn[R].at["client"] /\ conn'[R].to = conn[R].to
    BY <1>0, <2>1, AcceptDoes DEF SameTo
  <2>3. Downs' = Downs /\ Ups' = Ups
    BY <2>1, <2>2 DEF Downs, Ups, R
  <2>4. Goes /\ RawPlace'
    BY <2>1, <2>2 DEF Goes, InTurn, RawPlace, R
  <2> QED
    BY <2>3, <2>4, SameTurn
<1>2. CASE recv_client(R)
  <2>1. session[R].pc = "recv"
    BY <1>0, <1>2, RecvClientDoes
  <2>2. PICK n \in 1 .. Len(conn[R].to["server"]) :
          /\ Took(R, "server", n)
          /\ session[R].buf \o Received(R, "server", n) \in Seq(Tokens)
          /\ session'[R] = Inner(session[R], session[R].buf \o Received(R, "server", n))
    BY <1>0, <1>2, RecvClientDoes
  <2>3. session'[R].buf = session[R].buf \o Received(R, "server", n)
    BY <2>2, InnerIs, ZenonT(60)
  <2>4. /\ conn'[R].at = conn[R].at /\ conn'[R].to["client"] = conn[R].to["client"]
        /\ conn'[R].to["server"] = SubSeq(conn[R].to["server"], n + 1, Len(conn[R].to["server"]))
    BY <2>2 DEF Took, SameAt, Other
  <2> DEFINE f == Received(R, "server", n)
             b == conn'[R].to["server"]
  <2>5. f \in Seq(Tokens) /\ b \in Seq(Tokens) /\ conn[R].to["server"] = f \o b
        /\ session[R].buf \in Seq(Tokens)
    <3>1. conn[R].to["server"] \in Seq(Tokens) /\ session[R].buf \in Seq(Tokens)
      BY RawTypes DEF R
    <3>2. n \in 0 .. Len(conn[R].to["server"])
      BY <2>2
    <3> QED
      BY <2>4, <3>1, <3>2, CutLines DEF Received
  <2> HIDE DEF f, b
  <2>6. (session[R].buf \o f) \o b = session[R].buf \o (f \o b)
    BY <2>5, JoinedThree
  <2>7. Ups' = Ups
    BY <2>3, <2>5, <2>6 DEF Ups, f, b, R
  <2>8. Downs' = Downs /\ RawPlace'
    BY <2>4 DEF Downs, InTurn, RawPlace, R
  <2>9. Goes' => Goes
    BY <2>1, <2>4 DEF Goes, R
  <2> QED
    BY <2>7, <2>8, <2>9, SameTurn
<1>3. CASE client_left(R)
  <2>1. session'[R].pc = "close" /\ UNCHANGED conn
    BY <1>0, <1>3, ClientLeftDoes
  <2> QED
    BY <2>1, QuietTurn DEF R
<1>4. CASE get_candidates(R)
  <2>1. session[R].pc = "route" /\ session'[R].buf = session[R].buf
    BY <1>0, <1>4, GetCandidatesDoes DEF SameRequest
  <2>2. Working(R) /\ session[R].pc # "close"
    BY <2>1 DEF Working, WorkingPcs
  <2>3. CASE UNCHANGED conn
    BY <2>1, <2>2, <2>3, QuietTurn DEF R
  <2>4. ASSUME NEW m \in Msgs, m.id = session[R].req.id, session'[R].pc = "close",
               Wrote(R, "server", WholeOf(m))
        PROVE  InTurn'
    BY <2>2, <2>4, AnswerTurn DEF R
  <2> QED
    BY <1>0, <1>4, <2>3, <2>4, GetCandidatesDoes
<1>5. CASE \/ connectToBackend(R) \/ send_request(R) \/ recv_backend(R) \/ backend_left(R)
           \/ take_response(R) \/ next_candidate(R)
  <2>1. SameRequest(R) /\ session[R].pc # "close"
    BY <1>0, <1>5, ConnectBackendDoes, SendRequestDoes, RecvBackendDoes, BackendLeftDoes,
       TakeResponseDoes, NextCandidateDoes
  <2>2. conn'[R] = conn[R]
    BY <1>0, <1>5, LinkStepElsewhere
  <2> QED
    BY <2>1, <2>2, QuietTurn DEF R, SameRequest
<1>6. CASE no_candidate_left(R)
  <2>1. SameRequest(R) /\ session[R].pc = "connect" /\ UNCHANGED conn
    BY <1>0, <1>6, NoCandidateDoes
  <2> QED
    BY <2>1, QuietTurn DEF R, SameRequest
<1>7. CASE relay(R)
  <2>1. /\ session[R].pc = "reply" /\ session'[R] = Inner(session[R], RestOf(R))
        /\ session[R].out # None /\ session[R].out \in Msgs
        /\ Wrote(R, "server", WholeOf(session[R].out))
    BY <1>0, <1>7, RelayDoes
  <2>2. Working(R)
    BY <2>1 DEF Working, WorkingPcs
  <2>3. session[R].out.id = session[R].req.id
    BY <2>1, <2>2 DEF OutOK, R
  <2>4. session'[R].buf = RestOf(R)
    BY <1>0, <2>1, <2>2, RestIs, InnerIs
  <2> QED
    BY <2>1, <2>2, <2>3, <2>4, AnswerTurn DEF R
<1>8. CASE relay_503(R)
  <2>1. /\ session[R].pc = "reply"
        /\ session'[R] \in {Inner(session[R], RestOf(R)), EndedSession}
        /\ \E m \in Msgs : m.id = session[R].req.id /\ Wrote(R, "server", WholeOf(m))
    BY <1>0, <1>8, Relay503Does
  <2>2. Working(R)
    BY <2>1 DEF Working, WorkingPcs
  <2>3. session'[R].buf = RestOf(R) \/ session'[R].pc = "close"
    BY <1>0, <2>1, <2>2, RestIs, InnerIs, NoSessionType
  <2> QED
    BY <2>1, <2>2, <2>3, AnswerTurn DEF R
<1>9. CASE close_client(R)
  <2>1. ClosedEnd(R, "server")
    BY <1>0, <1>9, CloseClientDoes
  <2> QED
    BY <2>1, CutTurn DEF R
<1> QED
  BY <1>1, <1>2, <1>3, <1>4, <1>5, <1>6, <1>7, <1>8, <1>9 DEF SessionStep, R

LEMMA NothingSent ==
    /\ LinesAt(<<>>) = {} /\ Cardinality(LinesAt(<<>>)) = 0
    /\ InOrder(<<>>) /\ Waiting(<<>>, 0, 0)
<1>1. LinesAt(<<>>) = {}
  BY EmptyLines DEF LinesAt
<1>2. Cardinality(LinesAt(<<>>)) = 0
  BY <1>1, FS_EmptySet
<1> QED
  BY <1>1, <1>2 DEF InOrder, Waiting

LEMMA RawTurn ==
    ASSUME Shape, InTurn, RawStep, UNCHANGED session
    PROVE  InTurn'
<1> DEFINE R == RawConn
<1>0. /\ R \in Slots /\ R \in Conns /\ ConnOK /\ raw.buf \in Seq(Tokens) /\ raw.sent \in Nat
      /\ Downs \in Seq(Tokens) /\ Ups \in Seq(Tokens) /\ Answered \in Nat
      /\ conn[R].to["client"] \in Seq(Tokens)
      /\ conn[R].to["server"] \in Seq(Tokens) /\ session[R].buf \in Seq(Tokens)
  BY RawTypes
<1> HIDE DEF R
<1>1. CASE raw_connect
  <2>1. /\ raw.pc = "new" /\ raw'.pc = "open" /\ raw'.sent = raw.sent /\ raw'.buf = raw.buf
        /\ Connect(R, {R})
    BY <1>1, RawConnectDoes DEF R
  <2>2. {R} \in SUBSET Conns
    BY <1>0
  <2>3. /\ conn[R].at["server"] = "closed"
        /\ conn'[R].at["client"] = "open" /\ conn'[R].at["server"] = "backlog"
        /\ conn'[R].to["client"] = <<>> /\ conn'[R].to["server"] = <<>>
    BY <1>0, <2>1, <2>2, ConnectDoes
  <2>4. session'[R].buf = <<>>
    BY <1>0, <2>3 DEF Shape, SessionOK
  <2>5. raw'.buf = <<>> /\ raw'.sent = 0
    BY <2>1 DEF InTurn, RawPlace
  <2>6. <<>> \o <<>> = <<>>
    BY ConcatEmptySeq, EmptyLines
  <2>7. Downs' = <<>> /\ Ups' = <<>>
    BY <2>3, <2>4, <2>5, <2>6 DEF Downs, Ups, R
  <2>8. Answered' = 0
    BY <2>7, NothingSent DEF Answered
  <2>9. RawPlace'
    BY <2>1, <2>3 DEF RawPlace, R
  <2>10. InOrder(Downs)' /\ Waiting(Ups, Answered, raw.sent)'
    BY <2>5, <2>7, <2>8, NothingSent
  <2> QED
    BY <2>9, <2>10 DEF InTurn
<1>2. CASE raw_send
  <2>1. raw.pc = "open" /\ raw'.pc = "open" /\ raw'.sent = raw.sent + 1 /\ raw'.buf = raw.buf
    BY <1>2, RawSendDoes
  <2>2. PICK m \in ReqMsgs :
          m.id = <<"raw", raw.sent + 1>> /\ m.len = m.size /\ Wrote(R, "client", WholeOf(m))
    BY <1>2, RawSendDoes DEF R
  <2>3. m \in Msgs
    BY DEF Msgs
  <2>4. /\ conn'[R].at = conn[R].at /\ conn'[R].to["client"] = conn[R].to["client"]
        /\ conn[R].at["server"] # "closed" =>
               conn'[R].to["server"] = conn[R].to["server"] \o WholeOf(m)
    BY <2>2 DEF Wrote, SameAt, Other, Gone
  <2>5. Downs' = Downs /\ RawPlace'
    BY <2>1, <2>4 DEF Downs, InTurn, RawPlace, R
  <2>6. Goes' => Goes
    BY <2>4 DEF Goes, R
  <2>7. ASSUME Goes' PROVE Waiting(Ups, Answered, raw.sent)'
    <3>1. Waiting(Ups, Answered, raw.sent) /\ conn[R].at["server"] # "closed"
      BY <2>1, <2>6, <2>7 DEF InTurn, Goes, R
    <3>2. WholeOf(m) \in Seq(Tokens)
      BY <2>3, WholeAt
    <3>3. (session[R].buf \o conn[R].to["server"]) \o WholeOf(m)
            = session[R].buf \o (conn[R].to["server"] \o WholeOf(m))
      BY <1>0, <3>2, JoinedThree, ZenonT(60)
    <3>4. Ups' = Followed(Ups, m)
      BY <2>4, <3>1, <3>3 DEF Ups, Followed, R
    <3>5. Waiting(Ups', Answered, raw.sent + 1)
      BY <1>0, <2>2, <2>3, <3>1, <3>4, WaitingAfter
    <3>6. Answered' = Answered
      BY <2>5 DEF Answered
    <3> QED
      BY <2>1, <3>5, <3>6
  <2>8. InOrder(Downs)'
    BY <2>1, <2>5 DEF InTurn
  <2> QED
    BY <2>5, <2>7, <2>8 DEF InTurn
<1>3. CASE raw_recv
  <2>1. raw.pc = "open" /\ raw'.pc = "open" /\ raw'.sent = raw.sent
    BY <1>3, RawRecvDoes
  <2>2. PICK n \in 1 .. Len(conn[R].to["client"]) :
          Took(R, "client", n) /\ raw'.buf = raw.buf \o Received(R, "client", n)
    BY <1>3, RawRecvDoes DEF R
  <2>3. /\ conn'[R].at = conn[R].at /\ conn'[R].to["server"] = conn[R].to["server"]
        /\ conn'[R].to["client"] = SubSeq(conn[R].to["client"], n + 1, Len(conn[R].to["client"]))
    BY <2>2 DEF Took, SameAt, Other
  <2> DEFINE f == Received(R, "client", n)
             b == conn'[R].to["client"]
  <2>4. f \in Seq(Tokens) /\ b \in Seq(Tokens) /\ conn[R].to["client"] = f \o b
    <3>1. n \in 0 .. Len(conn[R].to["client"])
      BY <2>2
    <3> QED
      BY <1>0, <2>3, <3>1, CutLines DEF Received
  <2> HIDE DEF f, b
  <2>5. (raw.buf \o f) \o b = raw.buf \o (f \o b)
    <3>1. raw.buf \in Seq(Tokens)
      BY RawTypes
    <3> QED
      BY <2>4, <3>1, JoinedThree
  <2>6. Downs' = Downs
    BY <2>2, <2>4, <2>5 DEF Downs, f, b, R
  <2>7. RawPlace' /\ (Goes' => Goes /\ Ups' = Ups)
    BY <2>1, <2>3 DEF InTurn, RawPlace, Goes, Ups, R
  <2> QED
    BY <2>1, <2>6, <2>7, SameTurn
<1>4. CASE raw_close
  <2>1. /\ raw.pc = "open" /\ raw'.pc = "closed" /\ raw'.sent = raw.sent /\ raw'.buf = raw.buf
        /\ ClosedEnd(R, "client")
    BY <1>4, RawCloseDoes DEF R
  <2>2. conn[R].to["client"] = <<>> /\ conn[R].at["server"] = "closed"
    BY <1>4 DEF raw_close, AtEof, HasData, Gone, Other, R
  <2>3. conn'[R].to["client"] = <<>> /\ conn'[R].at["server"] = "closed"
    BY <2>1, <2>2 DEF ClosedEnd, Other
  <2>4. Downs' = Downs
    BY <2>1, <2>2, <2>3 DEF Downs, R
  <2>5. RawPlace' /\ ~Goes'
    BY <2>1, <2>3 DEF RawPlace, Goes, R
  <2> QED
    BY <2>1, <2>4, <2>5, SameTurn
<1> QED
  BY <1>1, <1>2, <1>3, <1>4 DEF RawStep

LEMMA InTurnStep ==
    ASSUME WireInv, InTurn, [Next]_wireVars
    PROVE  InTurn'
<1>0. Shape /\ RawConn \in Slots
  BY RawConnType DEF WireInv
<1>1. ASSUME UNCHANGED raw, UNCHANGED session, raw.pc = "absent" \/ conn'[RawConn] = conn[RawConn]
      PROVE  InTurn'
  <2>1. CASE raw.pc = "absent"
    BY <1>1, <2>1 DEF InTurn, RawPlace
  <2>2. CASE conn'[RawConn] = conn[RawConn]
    <3>1. session'[RawConn] = session[RawConn]
      BY <1>1
    <3> QED
      BY <1>1, <2>2, <3>1, QuietTurn
  <2> QED
    BY <1>1, <2>1, <2>2
<1>2. ASSUME NEW k \in Clients, UNCHANGED <<session, raw>>,
             \/ ClientStep(k, TRUE) \/ read_timeout(k)
             \/ raw.pc = "absent" /\ \E r \in Requests[k] : Call(k, r)
      PROVE  InTurn'
  <2>1. ClientStep(k, TRUE) \/ read_timeout(k) => client[k].pc # "idle"
    BY DEF ClientStep, send_, create_and_connect_socket, write_head, write_body, read_response,
           read_end, return, read_timeout, At
  <2>2. raw.pc = "absent"
    BY <1>0, <1>2, <2>1, ClientsAlone
  <2> QED
    BY <1>1, <1>2, <2>2
<1>3. ASSUME NEW c \in Slots, SessionStep(c), UNCHANGED <<client, done, raw>> PROVE InTurn'
  <2>1. UpOnce(c) /\ OutOK(c)
    BY DEF WireInv, UpInv, BackInv, AnswerOK
  <2>2. CASE c = RawConn
    BY <1>0, <1>3, <2>1, <2>2, SessionTurn
  <2>3. CASE c # RawConn
    <3>1. Shows(c)
      BY <1>0, <1>3, <2>1, SessionShows, LinkStepShows DEF SessionStep
    <3>2. conn'[RawConn] = conn[RawConn]
      BY <1>0, <2>3, <3>1 DEF Shows
    <3>3. session'[RawConn] = session[RawConn]
      BY <1>0, <1>3, <2>3, SessionAsks
    <3> QED
      BY <1>3, <3>2, <3>3, QuietTurn
  <2> QED
    BY <2>2, <2>3
<1>4. ASSUME NEW b \in BackendSlots, BackendStep(b) \/ backend_dies(b),
             UNCHANGED <<client, session, raw>>
      PROVE  InTurn'
  <2>1. UNCHANGED conn \/ OthersSame(b)
    BY <1>0, <1>4, ServeReadDoes, ServeRunDoes, ServeWriteDoes, BackendEndDoes
    DEF BackendStep, Wrote, ClosedEnd
  <2>2. conn'[RawConn] = conn[RawConn]
    BY <1>0, <2>1, RawConnType, WireAssumption DEF OthersSame
  <2> QED
    BY <1>1, <1>4, <2>2
<1>5. CASE RawStep /\ UNCHANGED <<client, session, backend, done>>
  BY <1>0, <1>5, RawTurn
<1>6. CASE UNCHANGED wireVars
  <2>1. UNCHANGED raw /\ UNCHANGED session /\ UNCHANGED conn
    BY <1>6 DEF wireVars
  <2> QED
    BY <1>1, <2>1
<1>7. CASE Next
  BY <1>2, <1>3, <1>4, <1>5, <1>7 DEF Next, CallerStep, LbStep, ServeStep
<1> QED
  BY <1>6, <1>7

(* The requests that a client sends without waiting are answered in the    *)
(* order in which they were sent, none twice and none left out, wherever   *)
(* the stream is cut: Erased removes one request, whole.                   *)
THEOREM PipelinedInOrder == Spec => []AnswersInOrder
<1>1. Init => InTurn
  <2> SUFFICES ASSUME Init PROVE InTurn
    OBVIOUS
  <2>1. raw.pc \in {"absent", "new"} /\ raw.buf = <<>> /\ raw.sent = 0
    BY DEF Init
  <2>2. conn[RawConn].at["server"] = "closed"
    BY RawConnType DEF Init, NoConn, Ends
  <2> QED
    BY <2>1, <2>2 DEF InTurn, RawPlace
<1>2. WireInv /\ InTurn /\ [Next]_wireVars => InTurn'
  BY InTurnStep
<1>3. WireInv /\ InTurn => AnswersInOrder
  <2> SUFFICES ASSUME WireInv, InTurn PROVE AnswersInOrder
    OBVIOUS
  <2>1. /\ raw.buf \in Seq(Tokens) /\ conn[RawConn].to["client"] \in Seq(Tokens)
        /\ raw.pc \in {"absent", "new", "open", "closed"}
    BY RawTypes DEF WireInv
  <2>2. InOrder(raw.buf)
    <3>1. CASE raw.pc \in {"absent", "new"}
      BY <3>1, NothingSent DEF InTurn, RawPlace
    <3>2. CASE raw.pc \in {"open", "closed"}
      BY <2>1, <3>2, InOrderPart DEF InTurn, Downs
    <3> QED
      BY <2>1, <3>1, <3>2
  <2> QED
    BY <2>2 DEF AnswersInOrder, InOrder, UpTo, LinesAt, IsLine
<1> QED
  BY <1>1, <1>2, <1>3, WireInvariant, PTL DEF Spec
=============================================================================
