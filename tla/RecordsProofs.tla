---------------------------- MODULE RecordsProofs ---------------------------
(***************************************************************************)
(* Proofs about what a directory keeps of its sessions: the transcript,    *)
(* the cuts that compact it (from CurationProofs, for which see there),    *)
(* the fork slots and the list of steps, each from an invariant of its     *)
(* own, for any number of messages, sessions, commands and calls.          *)
(*                                                                         *)
(* First come the lemmas about messages: what repair, trims and edits make *)
(* of a conversation that pairs, and what a history is without its images. *)
(* Then the lines of a file: what is in it when it should say g, whole,    *)
(* torn, cut within a character, or with two messages joined in a line.    *)
(* The invariant of a session, SessionInv: what every process remembers    *)
(* pairs, whatever others do to the file, and the file of a lone run says  *)
(* what the run remembers, but for images; one lemma per action, what the  *)
(* invariant says, how the file of a lone run changes, and that each       *)
(* change is a step of Journal.  Then the slots and the list, and last the *)
(* theorems: a behaviour of Records is about one of the parts, and a step  *)
(* of it is a step of that part or changes nothing of it.                  *)
(***************************************************************************)
EXTENDS Records, CurationProofs, SequenceTheorems, FiniteSetTheorems, TLAPS

-----------------------------------------------------------------------------
(* Messages.                                                               *)

Waits(ms) == ms # <<>> /\ Asks(ms[Len(ms)])

\* m may come next.
Follows(ms, m) == IF Waits(ms) THEN Answers(m, ms[Len(ms)]) ELSE m.kind # "result"

LEMMA MsgsAre ==
  /\ Garbage \notin Msgs /\ Cut \notin Msgs
  /\ \A m \in Msgs : /\ m.kind \in Kinds /\ m.id \in 0..MaxIds /\ m.by \in Sessions /\ m.image \in BOOLEAN
                     /\ Bare(m) \in Msgs /\ Bare(m).kind = m.kind /\ Bare(m).id = m.id
                     /\ Bare(m).by = m.by /\ Bare(Bare(m)) = Bare(m) /\ (~m.image => Bare(m) = m)
  /\ \A s \in Sessions : /\ Text(s) \in Msgs /\ Marker(s) \in Msgs
                         /\ \A id \in 0..MaxIds : Asst(s, id) \in Msgs /\ Result(s, id) \in Msgs
<1>1. MaxIds \in Nat /\ (1..MaxIds) \cup {0} = 0..MaxIds
  BY SessionAssumption
<1>2. Msgs = [kind : Kinds, id : 0..MaxIds, by : Sessions, image : BOOLEAN]
  BY <1>1 DEF Msgs, Message
<1>3. ASSUME NEW m \in Msgs
      PROVE  /\ m.kind \in Kinds /\ m.id \in 0..MaxIds /\ m.by \in Sessions /\ m.image \in BOOLEAN
             /\ Bare(m) \in Msgs /\ Bare(m).kind = m.kind /\ Bare(m).id = m.id
             /\ Bare(m).by = m.by /\ Bare(Bare(m)) = Bare(m) /\ (~m.image => Bare(m) = m)
  BY <1>2, <1>3 DEF Bare
<1>4. Garbage \notin Msgs /\ Cut \notin Msgs
  BY <1>2 DEF Kinds, Garbage, Cut
<1> QED BY <1>1, <1>2, <1>3, <1>4 DEF Kinds, Text, Marker, Asst, Result

LEMMA EmptyIs == ASSUME NEW S, NEW s \in Seq(S) PROVE Len(s) \in Nat /\ (s = <<>> <=> Len(s) = 0)
OBVIOUS

\* A message more.
LEMMA AppendIs ==
  ASSUME NEW S, NEW ms \in Seq(S), NEW m \in S
  PROVE  /\ Append(ms, m) \in Seq(S) /\ Len(ms) \in Nat /\ Len(Append(ms, m)) = Len(ms) + 1
         /\ Append(ms, m)[Len(ms) + 1] = m /\ \A i \in 1..Len(ms) : Append(ms, m)[i] = ms[i]
         /\ \A i \in 1..Len(ms) + 1 : i \in 1..Len(ms) \/ i = Len(ms) + 1
OBVIOUS

\* A history pairs when it is linked and nothing waits at its end.
LEMMA PairedIsLinked ==
  ASSUME NEW ms \in Seq(Msgs)
  PROVE  pairs_intact(ms) <=> Linked(ms) /\ ~Waits(ms)
<1>1. Len(ms) \in Nat /\ (ms = <<>> <=> Len(ms) = 0)
  OBVIOUS
<1>2. ASSUME pairs_intact(ms) PROVE Linked(ms) /\ ~Waits(ms)
  BY <1>1, <1>2 DEF pairs_intact, Linked, Waits
<1>3. ASSUME Linked(ms), ~Waits(ms) PROVE pairs_intact(ms)
  BY <1>1, <1>3 DEF pairs_intact, Linked, Waits
<1> QED BY <1>2, <1>3

LEMMA LinkedGrows ==
  ASSUME NEW ms \in Seq(Msgs), NEW m \in Msgs, Linked(ms), Follows(ms, m)
  PROVE  Linked(Append(ms, m))
<1> DEFINE t == Append(ms, m)
<1>1. /\ Len(ms) \in Nat /\ Len(t) = Len(ms) + 1 /\ t[Len(ms) + 1] = m
      /\ \A i \in 1..Len(ms) : t[i] = ms[i] /\ (ms = <<>> <=> Len(ms) = 0)
  OBVIOUS
<1> HIDE DEF t
<1>2. ASSUME NEW i \in 1..Len(t) - 1, Asks(t[i]) PROVE Answers(t[i + 1], t[i])
  <2>1. i \in 1..Len(ms) /\ t[i] = ms[i]
    BY <1>1
  <2>2. CASE i = Len(ms)
    BY <1>1, <1>2, <2>1, <2>2 DEF Follows, Waits
  <2>3. CASE i # Len(ms)
    <3>1. i \in 1..Len(ms) - 1 /\ i + 1 \in 1..Len(ms)
      BY <1>1, <2>1, <2>3
    <3> QED BY <1>1, <1>2, <2>1, <3>1 DEF Linked
  <2> QED BY <2>2, <2>3
<1>3. ASSUME NEW i \in 1..Len(t), t[i].kind = "result" PROVE i > 1 /\ Answers(t[i], t[i - 1])
  <2>1. CASE i = Len(ms) + 1
    <3>1. t[i] = m /\ Waits(ms) /\ Answers(m, ms[Len(ms)])
      BY <1>1, <1>3, <2>1 DEF Follows
    <3>2. Len(ms) \in 1..Len(ms) /\ i > 1 /\ i - 1 = Len(ms)
      BY <1>1, <2>1, <3>1 DEF Waits
    <3> QED BY <1>1, <3>1, <3>2
  <2>2. CASE i # Len(ms) + 1
    <3>1. i \in 1..Len(ms) /\ t[i] = ms[i]
      BY <1>1, <2>2
    <3>2. i > 1 /\ Answers(ms[i], ms[i - 1])
      BY <1>3, <3>1 DEF Linked
    <3>3. t[i - 1] = ms[i - 1]
      BY <1>1, <3>1, <3>2
    <3> QED BY <3>1, <3>2, <3>3
  <2> QED BY <2>1, <2>2
<1> QED BY <1>2, <1>3 DEF Linked, t

LEMMA WaitsAfter ==
  ASSUME NEW ms \in Seq(Msgs), NEW m \in Msgs
  PROVE  Waits(Append(ms, m)) <=> Asks(m)
<1>1. Len(Append(ms, m)) = Len(ms) + 1 /\ Append(ms, m)[Len(ms) + 1] = m /\ Append(ms, m) # <<>>
  OBVIOUS
<1> QED BY <1>1 DEF Waits

\* The repair asks for a result exactly when the last message waits for one.
LEMMA UnansweredIsLast ==
  ASSUME NEW ms \in Seq(Msgs), Linked(ms)
  PROVE  /\ Unanswered(ms) = {} => ~Waits(ms)
         /\ \A id \in Unanswered(ms) : Waits(ms) /\ id = ms[Len(ms)].id
<1>1. Len(ms) \in Nat /\ (ms = <<>> <=> Len(ms) = 0)
  OBVIOUS
<1>2. ASSUME Waits(ms) PROVE Unanswered(ms) # {}
  <2>1. Len(ms) \in 1..Len(ms) /\ Asks(ms[Len(ms)]) /\ Len(ms) + 1 .. Len(ms) = {}
    BY <1>1, <1>2 DEF Waits
  <2>2. ms[Len(ms)].id \in Unanswered(ms)
    BY <2>1 DEF Unanswered
  <2> QED BY <2>2
<1>3. ASSUME NEW id \in Unanswered(ms) PROVE Waits(ms) /\ id = ms[Len(ms)].id
  <2>1. PICK i \in 1..Len(ms) : /\ id = ms[i].id /\ Asks(ms[i])
                                /\ \A j \in i + 1 .. Len(ms) : ~Asks(ms[j]) /\ ~Answers(ms[j], ms[i])
    BY DEF Unanswered
  <2>2. i = Len(ms)
    <3>1. SUFFICES ASSUME i # Len(ms) PROVE FALSE
      OBVIOUS
    <3>2. i \in 1..Len(ms) - 1 /\ i + 1 \in i + 1 .. Len(ms)
      BY <1>1, <3>1
    <3> QED BY <2>1, <3>2 DEF Linked
  <2> QED BY <1>1, <2>1, <2>2 DEF Waits
<1> QED BY <1>2, <1>3

\* Messages as a session remembers them whose images were refused (d).
Recalls(h, g, d) == h = g \/ (d /\ h = Bared(g))

LEMMA BaredIs ==
  ASSUME NEW ms \in Seq(Msgs)
  PROVE  /\ Bared(ms) \in Seq(Msgs) /\ Len(Bared(ms)) = Len(ms) /\ Len(ms) \in Nat
         /\ \A i \in 1..Len(ms) :
              /\ Bared(ms)[i] = Bare(ms[i]) /\ ms[i] \in Msgs /\ Bared(ms)[i].by = ms[i].by
              /\ Bared(ms)[i].kind = ms[i].kind /\ Bared(ms)[i].id = ms[i].id
<1>1. Len(ms) \in Nat /\ \A i \in 1..Len(ms) : ms[i] \in Msgs
  OBVIOUS
<1>2. \A i \in 1..Len(ms) : Bare(ms[i]) \in Msgs
  BY <1>1, MsgsAre
<1>3. Bared(ms) \in [1..Len(ms) -> Msgs] /\ \A i \in 1..Len(ms) : Bared(ms)[i] = Bare(ms[i])
  BY <1>2 DEF Bared
<1>4. Bared(ms) \in Seq(Msgs) /\ Len(Bared(ms)) = Len(ms)
  BY <1>1, <1>3
<1> QED BY <1>1, <1>3, <1>4, MsgsAre

LEMMA RecallsIs ==
  ASSUME NEW g \in Seq(Msgs), NEW d \in BOOLEAN, NEW h, Recalls(h, g, d)
  PROVE  /\ h \in Seq(Msgs) /\ Len(h) = Len(g) /\ Len(g) \in Nat
         /\ \A i \in 1..Len(g) : /\ h[i].by = g[i].by /\ h[i].kind = g[i].kind /\ h[i].id = g[i].id
                                 /\ h[i] \in Msgs /\ g[i] \in Msgs /\ (h[i] = g[i] \/ h[i] = Bare(g[i]))
         /\ Linked(h) <=> Linked(g)
         /\ \A s : OneBy(h, s) <=> OneBy(g, s)
<1>0. Len(g) \in Nat /\ \A i \in 1..Len(g) : g[i] \in Msgs
  OBVIOUS
<1>1. /\ h \in Seq(Msgs) /\ Len(h) = Len(g)
      /\ \A i \in 1..Len(g) : /\ h[i].by = g[i].by /\ h[i].kind = g[i].kind /\ h[i].id = g[i].id
                              /\ h[i] \in Msgs /\ (h[i] = g[i] \/ h[i] = Bare(g[i]))
  <2>1. CASE h = g
    BY <1>0, <2>1
  <2>2. CASE h = Bared(g)
    BY <1>0, <2>2, BaredIs, MsgsAre
  <2> QED BY <2>1, <2>2 DEF Recalls
<1>2. Linked(h) <=> Linked(g)
  <2>1. \A i \in 1..Len(g) : Asks(h[i]) <=> Asks(g[i])
    BY <1>1 DEF Asks
  <2>2. \A i, j \in 1..Len(g) : Answers(h[i], h[j]) <=> Answers(g[i], g[j])
    BY <1>1, <2>1 DEF Answers
  <2>3. \A i \in 1..Len(g) - 1 : i \in 1..Len(g) /\ i + 1 \in 1..Len(g)
    BY <1>0
  <2>4. \A i \in 1..Len(g) : i > 1 => i - 1 \in 1..Len(g)
    BY <1>0
  <2>5. /\ \A i \in 1..Len(g) - 1 : /\ Asks(h[i]) <=> Asks(g[i])
                                    /\ Answers(h[i + 1], h[i]) <=> Answers(g[i + 1], g[i])
        /\ \A i \in 1..Len(g) : /\ h[i].kind = g[i].kind
                                /\ i > 1 => (Answers(h[i], h[i - 1]) <=> Answers(g[i], g[i - 1]))
    BY <1>1, <2>1, <2>2, <2>3, <2>4
  <2> QED BY <1>1, <2>5 DEF Linked
<1>3. \A s : OneBy(h, s) <=> OneBy(g, s)
  BY <1>1 DEF OneBy
<1> QED BY <1>0, <1>1, <1>2, <1>3

LEMMA RecallsGrows ==
  ASSUME NEW g \in Seq(Msgs), NEW d \in BOOLEAN, NEW h, Recalls(h, g, d), NEW m \in Msgs, d => ~m.image
  PROVE  Recalls(Append(h, m), Append(g, m), d)
<1>1. CASE h = g
  BY <1>1 DEF Recalls
<1>2. CASE d /\ h = Bared(g)
  <2>1. Bare(m) = m
    BY <1>2, MsgsAre
  <2>2. /\ Append(g, m) \in Seq(Msgs) /\ Len(Append(g, m)) = Len(g) + 1 /\ Append(g, m)[Len(g) + 1] = m
        /\ Len(g) \in Nat /\ \A i \in 1..Len(g) : Append(g, m)[i] = g[i]
    BY AppendIs
  <2>3. h \in Seq(Msgs) /\ Len(h) = Len(g) /\ \A i \in 1..Len(g) : h[i] = Bare(g[i])
    BY <1>2, BaredIs
  <2> DEFINE a == Append(g, m)  b == Append(h, m)
  <2>4. /\ b \in Seq(Msgs) /\ Len(b) = Len(h) + 1 /\ b[Len(h) + 1] = m /\ \A i \in 1..Len(h) : b[i] = h[i]
    BY <2>3, AppendIs
  <2> HIDE DEF a, b
  <2>5. Bared(a) \in Seq(Msgs) /\ Len(Bared(a)) = Len(g) + 1 /\ \A i \in 1..Len(g) + 1 : Bared(a)[i] = Bare(a[i])
    BY <2>2, BaredIs DEF a
  <2>6. \A i \in 1..Len(g) + 1 : b[i] = Bared(a)[i]
    <3>1. ASSUME NEW i \in 1..Len(g) + 1 PROVE b[i] = Bared(a)[i]
      <4>1. CASE i = Len(g) + 1
        BY <2>1, <2>2, <2>3, <2>4, <2>5, <4>1 DEF a
      <4>2. CASE i # Len(g) + 1
        <5>1. i \in 1..Len(g)
          BY <2>2, <4>2
        <5> QED BY <2>2, <2>3, <2>4, <2>5, <5>1 DEF a
      <4> QED BY <4>1, <4>2
    <3> QED BY <3>1
  <2>7. b = Bared(a)
    BY <2>3, <2>4, <2>5, <2>6, SeqEqual
  <2> QED BY <1>2, <2>7 DEF Recalls, a, b
<1> QED BY <1>1, <1>2 DEF Recalls

LEMMA PrefixIs ==
  ASSUME NEW g \in Seq(Msgs), NEW n \in 0..Len(g)
  PROVE  /\ SubSeq(g, 1, n) \in Seq(Msgs) /\ Len(SubSeq(g, 1, n)) = n
         /\ \A i \in 1..n : SubSeq(g, 1, n)[i] = g[i]
         /\ Linked(g) => Linked(SubSeq(g, 1, n))
         /\ \A s : OneBy(g, s) => OneBy(SubSeq(g, 1, n), s)
<1>1. n \in Nat /\ Len(g) \in Nat /\ n <= Len(g)
  OBVIOUS
<1> DEFINE p == SubSeq(g, 1, n)
<1>2. p \in Seq(Msgs) /\ Len(p) = n /\ \A i \in 1..n : p[i] = g[i]
  BY <1>1
<1> HIDE DEF p
<1>3. ASSUME Linked(g) PROVE Linked(p)
  <2>1. \A i \in 1..n - 1 : i \in 1..n /\ i + 1 \in 1..n /\ i \in 1..Len(g) - 1
    BY <1>1
  <2>2. \A i \in 1..n : i \in 1..Len(g) /\ (i > 1 => i - 1 \in 1..n)
    BY <1>1
  <2> QED BY <1>2, <1>3, <2>1, <2>2 DEF Linked
<1>4. ASSUME NEW s, OneBy(g, s) PROVE OneBy(p, s)
  <2>2. \A i \in 1..n : i \in 1..Len(g)
    BY <1>1
  <2> QED BY <1>2, <1>4, <2>2 DEF OneBy
<1> QED BY <1>2, <1>3, <1>4 DEF p

\* The recursion of Spliced.
SplicedBy(F, ms, gone, heads, m) ==
    /\ F = [n \in 0..Len(ms) |-> IF n = 0 THEN <<>>
                                 ELSE IF n \notin gone THEN Append(F[n - 1], ms[n])
                                 ELSE IF n \in heads THEN Append(F[n - 1], m)
                                 ELSE F[n - 1]]
    /\ Spliced(ms, gone, heads, m) = F[Len(ms)]

LEMMA SplicedIs ==
  ASSUME NEW ms, Len(ms) \in Nat, NEW gone, NEW heads, NEW m
  PROVE  \E F : SplicedBy(F, ms, gone, heads, m)
<1> DEFINE Body(F, n) == IF n = 0 THEN <<>>
                         ELSE IF n \notin gone THEN Append(F[n - 1], ms[n])
                         ELSE IF n \in heads THEN Append(F[n - 1], m)
                         ELSE F[n - 1]
           Built(n) == \E F : F = [i \in 0..n |-> Body(F, i)]
           X == {n \in 0..Len(ms) : Built(n)}
<1>1. 0 \in X
  <2>1. [i \in 0..0 |-> <<>>] = [i \in 0..0 |-> Body([j \in 0..0 |-> <<>>], i)]
    OBVIOUS
  <2>2. Built(0)
    BY <2>1
  <2>3. 0 \in 0..Len(ms)
    OBVIOUS
  <2> HIDE DEF Built
  <2> QED BY <2>2, <2>3
<1>2. ASSUME NEW n \in 1..Len(ms), n - 1 \in X PROVE n \in X
  <2>1. PICK F : F = [i \in 0..n - 1 |-> Body(F, i)]
    BY <1>2
  <2> DEFINE G == [i \in 0..n |-> IF i = n THEN Body(F, n) ELSE F[i]]
  <2>2. ASSUME NEW i \in 0..n PROVE G[i] = Body(G, i)
    <3>1. CASE i = 0
      <4>1. F[0] = <<>>
        BY <2>1
      <4> QED BY <3>1, <4>1
    <3>2. CASE i # 0
      <4>1. i - 1 \in 0..n - 1 /\ G[i - 1] = F[i - 1]
        BY <3>2
      <4>2. Body(G, i) = Body(F, i)
        BY <3>2, <4>1
      <4>3. CASE i = n
        BY <4>2, <4>3
      <4>4. CASE i # n
        <5>1. i \in 0..n - 1
          BY <4>4
        <5>2. F[i] = Body(F, i)
          BY <2>1, <5>1
        <5> QED BY <4>2, <4>4, <5>2
      <4> QED BY <4>3, <4>4
    <3> QED BY <3>1, <3>2
  <2>3. G = [i \in 0..n |-> G[i]]
    OBVIOUS
  <2> HIDE DEF G, Body
  <2>4. G = [i \in 0..n |-> Body(G, i)]
    BY <2>2, <2>3
  <2> QED BY <2>4
<1>3. Len(ms) \in X
  <2> HIDE DEF X
  <2>1. 0..Len(ms) \subseteq X
    BY <1>1, <1>2, Upwards
  <2> QED BY <2>1
<1>4. Built(Len(ms))
  BY <1>3
<1> DEFINE upto[n \in 0..Len(ms)] ==
             IF n = 0 THEN <<>>
             ELSE IF n \notin gone THEN Append(upto[n - 1], ms[n])
             ELSE IF n \in heads THEN Append(upto[n - 1], m)
             ELSE upto[n - 1]
<1>6. Spliced(ms, gone, heads, m) = upto[Len(ms)]
  BY DEF Spliced
<1>7. upto = [n \in 0..Len(ms) |-> IF n = 0 THEN <<>>
             ELSE IF n \notin gone THEN Append(upto[n - 1], ms[n])
             ELSE IF n \in heads THEN Append(upto[n - 1], m)
             ELSE upto[n - 1]]
  BY <1>4
<1> HIDE DEF upto
<1> QED BY <1>6, <1>7 DEF SplicedBy

\* One step of it.
LEMMA SplicedStep ==
  ASSUME NEW ms, Len(ms) \in Nat, NEW gone, NEW heads, NEW m, NEW F, SplicedBy(F, ms, gone, heads, m)
  PROVE  /\ F[0] = <<>> /\ Spliced(ms, gone, heads, m) = F[Len(ms)]
         /\ \A n \in 1..Len(ms) : /\ n \notin gone => F[n] = Append(F[n - 1], ms[n])
                                  /\ n \in gone /\ n \in heads => F[n] = Append(F[n - 1], m)
                                  /\ n \in gone /\ n \notin heads => F[n] = F[n - 1]
<1>1. \A n \in 0..Len(ms) : F[n] = IF n = 0 THEN <<>>
                                   ELSE IF n \notin gone THEN Append(F[n - 1], ms[n])
                                   ELSE IF n \in heads THEN Append(F[n - 1], m)
                                   ELSE F[n - 1]
  BY DEF SplicedBy
<1>2. 0 \in 0..Len(ms)
  OBVIOUS
<1>3. F[0] = <<>>
  BY <1>1, <1>2
<1>4. ASSUME NEW n \in 1..Len(ms)
      PROVE  /\ n \notin gone => F[n] = Append(F[n - 1], ms[n])
             /\ n \in gone /\ n \in heads => F[n] = Append(F[n - 1], m)
             /\ n \in gone /\ n \notin heads => F[n] = F[n - 1]
  <2>1. n \in 0..Len(ms) /\ n # 0
    OBVIOUS
  <2>2. F[n] = IF n \notin gone THEN Append(F[n - 1], ms[n])
               ELSE IF n \in heads THEN Append(F[n - 1], m) ELSE F[n - 1]
    BY <1>1, <2>1, Zenon
  <2> QED BY <2>2, Zenon
<1>5. Spliced(ms, gone, heads, m) = F[Len(ms)]
  BY DEF SplicedBy
<1> QED BY <1>3, <1>4, <1>5

\* What it makes of messages of one session: such messages, the first of which
\* stays.
LEMMA SplicedTypes ==
  ASSUME NEW ms \in Seq(Msgs), NEW gone \in SUBSET (2..Len(ms)), NEW heads, NEW m \in Msgs
  PROVE  /\ Spliced(ms, gone, heads, m) \in Seq(Msgs)
         /\ ms # <<>> => /\ Spliced(ms, gone, heads, m) # <<>>
                         /\ Spliced(ms, gone, heads, m)[1] = ms[1]
         /\ \A s : OneBy(ms, s) /\ m.by = s => OneBy(Spliced(ms, gone, heads, m), s)
<1>0. Len(ms) \in Nat /\ (ms = <<>> <=> Len(ms) = 0) /\ \A i \in 1..Len(ms) : ms[i] \in Msgs
  OBVIOUS
<1>1. PICK F : SplicedBy(F, ms, gone, heads, m)
  BY <1>0, SplicedIs
<1> DEFINE Fine(n) == /\ F[n] \in Seq(Msgs)
                      /\ n > 0 => F[n] # <<>> /\ F[n][1] = ms[1]
                      /\ \A s : OneBy(ms, s) /\ m.by = s => OneBy(F[n], s)
           X == {n \in 0..Len(ms) : Fine(n)}
<1>2. 0 \in X
  <2>1. F[0] = <<>>
    BY <1>0, <1>1, SplicedStep
  <2>2. <<>> \in Seq(Msgs) /\ \A s : OneBy(<<>>, s)
    BY DEF OneBy
  <2>3. 0 \in 0..Len(ms)
    BY <1>0
  <2>4. Fine(0)
    BY <2>1, <2>2
  <2> HIDE DEF Fine
  <2> QED BY <2>3, <2>4
<1>3. ASSUME NEW n \in 1..Len(ms), n - 1 \in X PROVE n \in X
  <2> DEFINE e == F[n - 1]
  <2>1. /\ n \notin gone => F[n] = Append(e, ms[n])
        /\ n \in gone /\ n \in heads => F[n] = Append(e, m)
        /\ n \in gone /\ n \notin heads => F[n] = e
    <3>1. Len(ms) \in Nat
      BY <1>0
    <3>2. \A k \in 1..Len(ms) : /\ k \notin gone => F[k] = Append(F[k - 1], ms[k])
                                /\ k \in gone /\ k \in heads => F[k] = Append(F[k - 1], m)
                                /\ k \in gone /\ k \notin heads => F[k] = F[k - 1]
      BY <1>1, <3>1, SplicedStep
    <3> QED BY <3>2
  <2>2. e \in Seq(Msgs) /\ (n - 1 > 0 => e # <<>> /\ e[1] = ms[1]) /\ n \in 0..Len(ms)
        /\ \A s : OneBy(ms, s) /\ m.by = s => OneBy(e, s)
    BY <1>0, <1>3
  <2>3. n = 1 => n \notin gone /\ e = <<>>
    <3>1. F[0] = <<>>
      BY <1>0, <1>1, SplicedStep
    <3> QED BY <1>0, <3>1
  <2> HIDE DEF e, X
  <2>4. ASSUME NEW o \in Msgs, F[n] = Append(e, o), \A s : OneBy(ms, s) /\ m.by = s => o.by = s,
               n = 1 => o = ms[1]
        PROVE  Fine(n)
    <3>1. /\ Append(e, o) \in Seq(Msgs) /\ Len(e) \in Nat /\ Len(Append(e, o)) = Len(e) + 1
          /\ Append(e, o)[Len(e) + 1] = o /\ \A i \in 1..Len(e) : Append(e, o)[i] = e[i]
          /\ \A i \in 1..Len(e) + 1 : i \in 1..Len(e) \/ i = Len(e) + 1
          /\ e = <<>> <=> Len(e) = 0
      BY <2>2, AppendIs, EmptyIs
    <3>2. F[n] # <<>> /\ F[n][1] = ms[1]
      <4>1. F[n] # <<>>
        BY <2>4, <3>1, EmptyIs
      <4>2. CASE n = 1
        <5>1. Len(e) = 0 /\ o = ms[1]
          BY <2>3, <2>4, <3>1, <4>2
        <5>2. Append(e, o)[1] = o
          BY <3>1, <5>1
        <5> QED BY <2>4, <4>1, <5>1, <5>2
      <4>3. CASE n # 1
        <5>1. n - 1 > 0
          BY <1>0, <4>3
        <5>2. 1 \in 1..Len(e)
          BY <2>2, <3>1, <5>1
        <5> QED BY <2>2, <2>4, <3>1, <4>1, <5>1, <5>2
      <4> QED BY <4>2, <4>3
    <3>3. ASSUME NEW s, OneBy(ms, s), m.by = s PROVE OneBy(F[n], s)
      BY <2>2, <2>4, <3>1, <3>3 DEF OneBy
    <3> QED BY <2>4, <3>1, <3>2, <3>3
  <2>5. CASE n \notin gone
    <3>1. ms[n] \in Msgs /\ \A s : OneBy(ms, s) /\ m.by = s => ms[n].by = s
      BY <1>0 DEF OneBy
    <3> QED BY <2>1, <2>2, <2>4, <2>5, <3>1 DEF X
  <2>6. CASE n \in gone /\ n \in heads
    BY <2>1, <2>2, <2>3, <2>4, <2>6 DEF X
  <2>7. CASE n \in gone /\ n \notin heads
    <3>1. n - 1 > 0
      BY <1>0, <2>3, <2>7
    <3> QED BY <2>1, <2>2, <2>7, <3>1 DEF X
  <2> QED BY <2>5, <2>6, <2>7
<1>4. Len(ms) \in X
  <2> HIDE DEF X
  <2>1. 0..Len(ms) \subseteq X
    BY <1>0, <1>2, <1>3, Upwards
  <2> QED BY <1>0, <2>1
<1>5. Spliced(ms, gone, heads, m) = F[Len(ms)]
  BY <1>0, <1>1, SplicedStep
<1> QED BY <1>0, <1>4, <1>5

\* Messages that are alike one by one are alike when they are spliced.
Twins(ms, ns) == /\ Len(ms) = Len(ns)
                 /\ \A i \in 1..Len(ms) : ms[i].by = ns[i].by /\ Role(ms[i]) = Role(ns[i])

LEMMA SplicedTwins ==
  ASSUME NEW ms \in Seq(Msgs), NEW ns \in Seq(Msgs), Twins(ms, ns),
         NEW gone \in SUBSET (2..Len(ms)), NEW heads, NEW m \in Msgs
  PROVE  Twins(Spliced(ms, gone, heads, m), Spliced(ns, gone, heads, m))
<1>0. Len(ms) \in Nat /\ Len(ns) = Len(ms) /\ \A i \in 1..Len(ms) : ms[i] \in Msgs /\ ns[i] \in Msgs
  BY DEF Twins
<1>1. PICK F : SplicedBy(F, ms, gone, heads, m)
  BY <1>0, SplicedIs
<1>2. PICK G : SplicedBy(G, ns, gone, heads, m)
  BY <1>0, SplicedIs
<1> DEFINE Fine(n) == F[n] \in Seq(Msgs) /\ G[n] \in Seq(Msgs) /\ Twins(F[n], G[n])
           X == {n \in 0..Len(ms) : Fine(n)}
<1>3. 0 \in X
  <2>1. F[0] = <<>> /\ G[0] = <<>>
    BY <1>0, <1>1, <1>2, SplicedStep
  <2>2. <<>> \in Seq(Msgs) /\ Twins(<<>>, <<>>)
    BY DEF Twins
  <2>3. 0 \in 0..Len(ms)
    BY <1>0
  <2>4. Fine(0)
    BY <2>1, <2>2
  <2> HIDE DEF Fine
  <2> QED BY <2>3, <2>4
<1>4. ASSUME NEW n \in 1..Len(ms), n - 1 \in X PROVE n \in X
  <2> DEFINE e == F[n - 1]  o == G[n - 1]
  <2>1. /\ n \notin gone => F[n] = Append(e, ms[n]) /\ G[n] = Append(o, ns[n])
        /\ n \in gone /\ n \in heads => F[n] = Append(e, m) /\ G[n] = Append(o, m)
        /\ n \in gone /\ n \notin heads => F[n] = e /\ G[n] = o
    BY <1>0, <1>1, <1>2, SplicedStep
  <2>2. e \in Seq(Msgs) /\ o \in Seq(Msgs) /\ Twins(e, o) /\ n \in 0..Len(ms)
    BY <1>0, <1>4
  <2> HIDE DEF e, o, X
  <2>3. ASSUME NEW a \in Msgs, NEW b \in Msgs, a.by = b.by, Role(a) = Role(b),
               F[n] = Append(e, a), G[n] = Append(o, b)
        PROVE  Fine(n)
    <3>1. /\ Append(e, a) \in Seq(Msgs) /\ Len(e) \in Nat /\ Len(Append(e, a)) = Len(e) + 1
          /\ Append(e, a)[Len(e) + 1] = a /\ \A i \in 1..Len(e) : Append(e, a)[i] = e[i]
          /\ \A i \in 1..Len(e) + 1 : i \in 1..Len(e) \/ i = Len(e) + 1
      BY <2>2, AppendIs
    <3>2. /\ Append(o, b) \in Seq(Msgs) /\ Len(o) \in Nat /\ Len(Append(o, b)) = Len(o) + 1
          /\ Append(o, b)[Len(o) + 1] = b /\ \A i \in 1..Len(o) : Append(o, b)[i] = o[i]
      BY <2>2, AppendIs
    <3>3. Twins(Append(e, a), Append(o, b))
      BY <2>2, <2>3, <3>1, <3>2 DEF Twins
    <3> QED BY <2>3, <3>1, <3>2, <3>3
  <2>4. ms[n] \in Msgs /\ ns[n] \in Msgs /\ ms[n].by = ns[n].by /\ Role(ms[n]) = Role(ns[n])
    BY <1>0 DEF Twins
  <2>5. Fine(n)
    BY <2>1, <2>2, <2>3, <2>4
  <2> QED BY <2>2, <2>5 DEF X
<1>5. Len(ms) \in X
  <2> HIDE DEF X
  <2>1. 0..Len(ms) \subseteq X
    BY <1>0, <1>3, <1>4, Upwards
  <2> QED BY <1>0, <2>1
<1>6. Spliced(ms, gone, heads, m) = F[Len(ms)] /\ Spliced(ns, gone, heads, m) = G[Len(ms)]
  BY <1>0, <1>1, <1>2, SplicedStep
<1> QED BY <1>5, <1>6

\* Segments without loose ends.
LEMMA SplicedPairs ==
  ASSUME NEW ms \in Seq(Msgs), NEW gone \in SUBSET (2..Len(ms)), NEW heads, NEW s \in Sessions,
         pairs_intact(ms), Runs(gone, heads), Len(ms) \notin gone, PairingSafe(ms, gone, heads)
  PROVE  pairs_intact(Spliced(ms, gone, heads, Marker(s)))
<1> DEFINE m == Marker(s)
<1>0. /\ Len(ms) \in Nat /\ (ms = <<>> <=> Len(ms) = 0) /\ \A i \in 1..Len(ms) : ms[i] \in Msgs
      /\ m \in Msgs /\ m.kind = "marker" /\ ~Asks(m)
  BY MsgsAre, EmptyIs DEF Marker, Asks
<1> HIDE DEF m
<1>1. PICK F : SplicedBy(F, ms, gone, heads, m)
  BY <1>0, SplicedIs
<1> DEFINE Fine(n) == /\ F[n] \in Seq(Msgs) /\ Linked(F[n])
                      /\ n = 0 => F[n] = <<>>
                      /\ n > 0 => F[n] # <<>> /\ F[n][Len(F[n])] = (IF n \in gone THEN m ELSE ms[n])
           X == {n \in 0..Len(ms) : Fine(n)}
<1>2. 0 \in X
  <2>1. F[0] = <<>>
    BY <1>0, <1>1, SplicedStep
  <2>2. <<>> \in Seq(Msgs) /\ Linked(<<>>)
    BY DEF Linked
  <2>3. 0 \in 0..Len(ms)
    BY <1>0
  <2>4. Fine(0)
    BY <2>1, <2>2
  <2> HIDE DEF Fine
  <2> QED BY <2>3, <2>4
<1>3. ASSUME NEW n \in 1..Len(ms), n - 1 \in X PROVE n \in X
  <2> DEFINE e == F[n - 1]
  <2>1. /\ n \notin gone => F[n] = Append(e, ms[n])
        /\ n \in gone /\ n \in heads => F[n] = Append(e, m)
        /\ n \in gone /\ n \notin heads => F[n] = e
    <3>1. Len(ms) \in Nat
      BY <1>0
    <3>2. \A k \in 1..Len(ms) : /\ k \notin gone => F[k] = Append(F[k - 1], ms[k])
                                /\ k \in gone /\ k \in heads => F[k] = Append(F[k - 1], m)
                                /\ k \in gone /\ k \notin heads => F[k] = F[k - 1]
      BY <1>1, <3>1, SplicedStep, SMTT(40)
    <3> QED BY <3>2
  <2>2. /\ e \in Seq(Msgs) /\ Linked(e) /\ n \in 0..Len(ms)
        /\ n = 1 => e = <<>>
        /\ n > 1 => e # <<>> /\ e[Len(e)] = (IF n - 1 \in gone THEN m ELSE ms[n - 1])
    <3>1. n - 1 = 0 <=> n = 1
      OBVIOUS
    <3>2. n - 1 > 0 <=> n > 1
      OBVIOUS
    <3> QED BY <1>3, <3>1, <3>2
  <2>3. n = 1 => n \notin gone
    OBVIOUS
  <2> HIDE DEF e, X
  <2>4. ASSUME NEW o \in Msgs, F[n] = Append(e, o), Follows(e, o), o = (IF n \in gone THEN m ELSE ms[n])
        PROVE  Fine(n)
    <3>1. Append(e, o) \in Seq(Msgs) /\ Len(e) \in Nat /\ Len(Append(e, o)) = Len(e) + 1
          /\ Append(e, o)[Len(e) + 1] = o
      BY <2>2, AppendIs
    <3>2. Append(e, o) # <<>> /\ Append(e, o)[Len(Append(e, o))] = o
      BY <3>1, EmptyIs
    <3>3. Linked(Append(e, o))
      BY <2>2, <2>4, LinkedGrows
    <3> QED BY <2>4, <3>1, <3>2, <3>3
  <2>5. n > 1 => n - 1 \in 1..Len(ms) /\ n \in 2..Len(ms)
    OBVIOUS
  <2>6. CASE n \notin gone
    <3>1. CASE n = 1
      <4>1. ms[n].kind # "result"
        BY <3>1 DEF pairs_intact
      <4> QED BY <1>0, <2>1, <2>2, <2>4, <2>6, <3>1, <4>1 DEF Follows, Waits, X
    <3>2. CASE n > 1 /\ n - 1 \notin gone
      <4>1. e # <<>> /\ e[Len(e)] = ms[n - 1] /\ n - 1 \in 1..Len(ms) /\ (n - 1) + 1 = n
        BY <2>2, <2>5, <3>2
      <4>2. Asks(ms[n - 1]) => Answers(ms[n], ms[n - 1])
        BY <4>1 DEF pairs_intact
      <4>3. ~Asks(ms[n - 1]) => ms[n].kind # "result"
        BY <3>2 DEF pairs_intact, Answers
      <4> QED BY <1>0, <2>1, <2>2, <2>4, <2>6, <4>1, <4>2, <4>3 DEF Follows, Waits, X
    <3>3. CASE n > 1 /\ n - 1 \in gone
      <4>1. e # <<>> /\ e[Len(e)] = m
        BY <2>2, <3>3
      <4>2. ms[n].kind # "result"
        BY <2>5, <2>6, <3>3 DEF PairingSafe
      <4> QED BY <1>0, <2>1, <2>2, <2>4, <2>6, <4>1, <4>2 DEF Follows, Waits, X
    <3>4. n = 1 \/ n > 1
      OBVIOUS
    <3> QED BY <3>1, <3>2, <3>3, <3>4
  <2>7. CASE n \in gone /\ n \in heads
    <3>1. n > 1 /\ ms[n].kind # "result"
      <4>1. n \in 2..Len(ms)
        BY <2>7
      <4> QED BY <2>7, <4>1 DEF PairingSafe
    <3>2. ~Waits(e)
      <4>1. CASE n - 1 \in gone
        BY <1>0, <2>2, <3>1, <4>1 DEF Waits
      <4>2. CASE n - 1 \notin gone
        <5>1. e[Len(e)] = ms[n - 1] /\ n - 1 \in 1..Len(ms) /\ (n - 1) + 1 = n
          BY <2>2, <2>5, <3>1, <4>2
        <5>2. ~Asks(ms[n - 1])
          BY <3>1, <5>1 DEF pairs_intact, Answers
        <5> QED BY <5>1, <5>2 DEF Waits
      <4> QED BY <4>1, <4>2
    <3> QED BY <1>0, <2>1, <2>2, <2>4, <2>7, <3>2 DEF Follows, X
  <2>8. CASE n \in gone /\ n \notin heads
    <3>1. n - 1 \in gone /\ n > 1
      <4>1. n - 1 \in gone
        BY <2>8 DEF Runs, Firsts
      <4> QED BY <2>3, <2>8, <4>1
    <3> QED BY <2>1, <2>2, <2>8, <3>1 DEF X
  <2> QED BY <2>6, <2>7, <2>8
<1>4. Len(ms) \in X
  <2> HIDE DEF X
  <2>1. 0..Len(ms) \subseteq X
    BY <1>0, <1>2, <1>3, Upwards
  <2> QED BY <1>0, <2>1
<1>5. Spliced(ms, gone, heads, m) = F[Len(ms)]
  BY <1>0, <1>1, SplicedStep
<1> DEFINE c == F[Len(ms)]
<1>6. c \in Seq(Msgs) /\ Linked(c) /\ ~Waits(c)
  <2>1. CASE Len(ms) = 0
    BY <1>4, <2>1 DEF Waits
  <2>2. CASE Len(ms) # 0
    <3>1. Len(ms) > 0 /\ Len(ms) \in 1..Len(ms)
      BY <1>0, <2>2
    <3>2. ~Asks(ms[Len(ms)])
      BY <3>1 DEF pairs_intact
    <3> QED BY <1>4, <3>1, <3>2 DEF Waits
  <2> QED BY <2>1, <2>2
<1> HIDE DEF c
<1>7. pairs_intact(c)
  BY <1>6, PairedIsLinked
<1> QED BY <1>5, <1>7 DEF c, m

-----------------------------------------------------------------------------
(* The file.                                                               *)

Lines == Seq(Msgs \cup {Garbage, Cut})

\* A file that cannot be loaded.
Broken(f) == \E i \in 1..Len(f) : f[i] = Cut \/ (f[i] = Garbage /\ i < Len(f))

\* What the file f of a run that has it to itself may be when it should say g:
\* by where the run is, by whether the file ends with a newline, and by whether
\* deaths fall between lines and newlines.
FileSays(l, f, n, g, hasty) ==
    \/ f = g /\ l # "cut" /\ (g = <<>> => n) /\ (hasty \/ (n <=> l # "newline"))
    \/ f = Append(g, Garbage) /\ l \in {"off", "load", "cut"}
    \/ f = Append(g, Cut) /\ l \in {"off", "load"}
    \/ hasty /\ l \in {"off", "load"} /\ Broken(f)
    \/ /\ hasty /\ l \notin {"off", "load", "cut"} /\ (n <=> l # "newline")
       /\ \E i \in 1..Len(g) - 1 : f = Merged(g, i)

LEMMA LinesAre == Seq(Msgs) \subseteq Lines
<1> DEFINE L == Msgs \cup {Garbage, Cut}
<1>1. Msgs \subseteq L
  OBVIOUS
<1> HIDE DEF L
<1>2. Seq(Msgs) \subseteq Seq(L)
  BY <1>1, SeqMonotonic
<1> QED BY <1>2 DEF Lines, L

LEMMA LineMore ==
  ASSUME NEW f \in Lines, NEW x \in Msgs \cup {Garbage, Cut}
  PROVE  /\ Append(f, x) \in Lines /\ Len(f) \in Nat /\ Len(Append(f, x)) = Len(f) + 1
         /\ Append(f, x)[Len(f) + 1] = x /\ \A i \in 1..Len(f) : Append(f, x)[i] = f[i]
<1> DEFINE L == Msgs \cup {Garbage, Cut}
<1>1. f \in Seq(L) /\ x \in L
  BY DEF Lines
<1> HIDE DEF L
<1>2. /\ Append(f, x) \in Seq(L) /\ Len(f) \in Nat /\ Len(Append(f, x)) = Len(f) + 1
      /\ Append(f, x)[Len(f) + 1] = x /\ \A i \in 1..Len(f) : Append(f, x)[i] = f[i]
  BY <1>1, AppendIs
<1> QED BY <1>2 DEF Lines, L

LEMMA SameLines ==
  ASSUME NEW f \in Lines, NEW e \in Lines, NEW n, Len(f) = n, Len(e) = n,
         \A i \in 1..n : f[i] = e[i]
  PROVE  f = e
<1> DEFINE L == Msgs \cup {Garbage, Cut}
<1>1. f \in Seq(L) /\ e \in Seq(L)
  BY DEF Lines
<1> HIDE DEF L
<1> QED BY <1>1, SeqEqual

LEMMA MergedIs ==
  ASSUME NEW g \in Seq(Msgs), NEW i \in 1..Len(g) - 1
  PROVE  /\ Merged(g, i) \in Lines /\ Len(Merged(g, i)) = Len(g) - 1 /\ Len(g) \in Nat
         /\ \A k \in 1..Len(g) - 1 :
              Merged(g, i)[k] = IF k < i THEN g[k] ELSE IF k = i THEN Garbage ELSE g[k + 1]
<1>1. Len(g) \in Nat /\ Len(g) - 1 \in Nat /\ \A k \in 1..Len(g) : g[k] \in Msgs
  OBVIOUS
<1> DEFINE L == Msgs \cup {Garbage, Cut}
<1>2. \A k \in 1..Len(g) - 1 : k \in 1..Len(g) /\ k + 1 \in 1..Len(g)
  BY <1>1
<1>3. \A k \in 1..Len(g) - 1 : g[k] \in L /\ g[k + 1] \in L /\ Garbage \in L
  BY <1>1, <1>2
<1> HIDE DEF L
<1>4. Merged(g, i) \in [1..Len(g) - 1 -> L]
  BY <1>3 DEF Merged
<1>5. Merged(g, i) \in Seq(L) /\ Len(Merged(g, i)) = Len(g) - 1
  BY <1>1, <1>4
<1>6. \A k \in 1..Len(g) - 1 :
        Merged(g, i)[k] = IF k < i THEN g[k] ELSE IF k = i THEN Garbage ELSE g[k + 1]
  BY DEF Merged
<1> QED BY <1>1, <1>5, <1>6 DEF Lines, L

LEMMA MergedGrows ==
  ASSUME NEW g \in Seq(Msgs), NEW i \in 1..Len(g) - 1, NEW m \in Msgs
  PROVE  /\ i \in 1..Len(Append(g, m)) - 1
         /\ Append(Merged(g, i), m) = Merged(Append(g, m), i)
<1> DEFINE a == Append(g, m)
<1>1. a \in Seq(Msgs) /\ Len(a) = Len(g) + 1 /\ a[Len(g) + 1] = m /\ Len(g) \in Nat /\ \A k \in 1..Len(g) : a[k] = g[k]
  BY AppendIs
<1> HIDE DEF a
<1>2. i \in 1..Len(a) - 1
  BY <1>1
<1>3. /\ Merged(g, i) \in Lines /\ Len(Merged(g, i)) = Len(g) - 1
      /\ \A k \in 1..Len(g) - 1 :
              Merged(g, i)[k] = IF k < i THEN g[k] ELSE IF k = i THEN Garbage ELSE g[k + 1]
  BY MergedIs
<1>4. /\ Merged(a, i) \in Lines /\ Len(Merged(a, i)) = Len(g)
      /\ \A k \in 1..Len(g) :
              Merged(a, i)[k] = IF k < i THEN a[k] ELSE IF k = i THEN Garbage ELSE a[k + 1]
  BY <1>1, <1>2, MergedIs
<1> DEFINE b == Append(Merged(g, i), m)
<1>5. b \in Lines /\ Len(b) = Len(g) /\ b[Len(g)] = m /\ \A k \in 1..Len(g) - 1 : b[k] = Merged(g, i)[k]
  <2>1. Len(Merged(g, i)) = Len(g) - 1 /\ Len(g) - 1 + 1 = Len(g) /\ Merged(g, i) \in Lines
    BY <1>1, <1>3
  <2>2. m \in Msgs \cup {Garbage, Cut}
    OBVIOUS
  <2>3. PICK j \in Lines : j = Merged(g, i)
    BY <2>1
  <2>4. /\ Append(j, m) \in Lines /\ Len(j) \in Nat /\ Len(Append(j, m)) = Len(j) + 1
        /\ Append(j, m)[Len(j) + 1] = m /\ \A k \in 1..Len(j) : Append(j, m)[k] = j[k]
    BY <2>2, LineMore
  <2> QED BY <2>1, <2>3, <2>4
<1> HIDE DEF b
<1>6. ASSUME NEW k \in 1..Len(g) PROVE b[k] = Merged(a, i)[k]
  <2>1. CASE k = Len(g)
    <3>1. i < k
      BY <2>1
    <3> QED BY <1>1, <1>4, <1>5, <2>1, <3>1
  <2>2. CASE k # Len(g)
    <3>1. k \in 1..Len(g) - 1 /\ k + 1 \in 1..Len(g)
      BY <1>1, <2>2
    <3> QED BY <1>1, <1>3, <1>4, <1>5, <3>1
  <2> QED BY <2>1, <2>2
<1>7. b = Merged(a, i)
  BY <1>4, <1>5, <1>6, SameLines
<1> QED BY <1>2, <1>7 DEF a, b

\* The last line of g joined with another, or torn.
LEMMA LastMerged ==
  ASSUME NEW g \in Seq(Msgs), g # <<>>
  PROVE  /\ \A m \in Msgs : /\ Len(g) \in 1..Len(Append(g, m)) - 1
                            /\ [g EXCEPT ![Len(g)] = Garbage] = Merged(Append(g, m), Len(g))
         /\ \A x \in {Garbage, Cut} :
              [g EXCEPT ![Len(g)] = x] = Append(SubSeq(g, 1, Len(g) - 1), x)
<1>1. Len(g) \in Nat /\ Len(g) \in 1..Len(g) /\ Len(g) - 1 \in 0..Len(g)
  BY EmptyIs
<1>2. ASSUME NEW x \in {Garbage, Cut}
      PROVE  /\ [g EXCEPT ![Len(g)] = x] \in Lines /\ Len([g EXCEPT ![Len(g)] = x]) = Len(g)
             /\ \A i \in 1..Len(g) : [g EXCEPT ![Len(g)] = x][i] = IF i = Len(g) THEN x ELSE g[i]
  <2> DEFINE L == Msgs \cup {Garbage, Cut}
  <2>1. g \in Seq(L) /\ x \in L
    BY LinesAre DEF Lines
  <2> HIDE DEF L
  <2>2. [g EXCEPT ![Len(g)] = x] \in Seq(L)
    BY <1>1, <2>1, ExceptSeq
  <2>3. Len([g EXCEPT ![Len(g)] = x]) = Len(g)
        /\ \A i \in 1..Len(g) : [g EXCEPT ![Len(g)] = x][i] = IF i = Len(g) THEN x ELSE g[i]
    BY <1>1, <2>1, ExceptSeq
  <2> QED BY <2>2, <2>3 DEF Lines, L
<1>3. ASSUME NEW m \in Msgs
      PROVE  Len(g) \in 1..Len(Append(g, m)) - 1 /\ [g EXCEPT ![Len(g)] = Garbage] = Merged(Append(g, m), Len(g))
  <2> DEFINE a == Append(g, m)  e == [g EXCEPT ![Len(g)] = Garbage]
  <2>1. a \in Seq(Msgs) /\ Len(a) = Len(g) + 1 /\ \A k \in 1..Len(g) : a[k] = g[k]
    BY AppendIs
  <2>2. e \in Lines /\ Len(e) = Len(g) /\ \A i \in 1..Len(g) : e[i] = IF i = Len(g) THEN Garbage ELSE g[i]
    BY <1>2
  <2> HIDE DEF a, e
  <2>3. Len(g) \in 1..Len(a) - 1 /\ Len(a) - 1 = Len(g)
    BY <1>1, <2>1
  <2>4. /\ Merged(a, Len(g)) \in Lines /\ Len(Merged(a, Len(g))) = Len(g)
        /\ \A k \in 1..Len(g) : Merged(a, Len(g))[k]
              = IF k < Len(g) THEN a[k] ELSE IF k = Len(g) THEN Garbage ELSE a[k + 1]
    <3>1. PICK n : n = Len(g)
      OBVIOUS
    <3>2. n \in 1..Len(a) - 1 /\ Len(a) - 1 = n
      BY <2>3, <3>1
    <3>3. /\ Merged(a, n) \in Lines /\ Len(Merged(a, n)) = n
          /\ \A k \in 1..n : Merged(a, n)[k]
                = IF k < n THEN a[k] ELSE IF k = n THEN Garbage ELSE a[k + 1]
      BY <2>1, <3>2, MergedIs
    <3> QED BY <3>1, <3>3
  <2>5. \A k \in 1..Len(g) : k < Len(g) \/ k = Len(g)
    BY <1>1
  <2>6. e = Merged(a, Len(g))
    BY <2>1, <2>2, <2>4, <2>5, SameLines
  <2> QED BY <2>3, <2>6 DEF a, e
<1>4. ASSUME NEW x \in {Garbage, Cut}
      PROVE  [g EXCEPT ![Len(g)] = x] = Append(SubSeq(g, 1, Len(g) - 1), x)
  <2> DEFINE e == [g EXCEPT ![Len(g)] = x]  p == SubSeq(g, 1, Len(g) - 1)  a == Append(p, x)
  <2>1. e \in Lines /\ Len(e) = Len(g) /\ \A i \in 1..Len(g) : e[i] = IF i = Len(g) THEN x ELSE g[i]
    BY <1>2
  <2>2. p \in Seq(Msgs) /\ Len(p) = Len(g) - 1 /\ \A i \in 1..Len(g) - 1 : p[i] = g[i]
    BY <1>1, PrefixIs
  <2> HIDE DEF e, p
  <2>0. p \in Lines /\ x \in Msgs \cup {Garbage, Cut}
    BY <2>2, LinesAre
  <2>3. a \in Lines /\ Len(a) = Len(p) + 1 /\ a[Len(p) + 1] = x /\ \A i \in 1..Len(p) : a[i] = p[i]
    BY <2>0, <2>2, LineMore
  <2> HIDE DEF a
  <2>4. \A i \in 1..Len(g) : i \in 1..Len(g) - 1 \/ i = Len(g)
    BY <1>1
  <2>5. Len(p) + 1 = Len(g) /\ \A i \in 1..Len(g) - 1 : i # Len(g)
    BY <1>1, <2>2
  <2>6. e = a
    BY <2>1, <2>2, <2>3, <2>4, <2>5, SameLines
  <2> QED BY <2>6 DEF e, p, a
<1> QED BY <1>3, <1>4

\* Joined lines break the file, or are the last and torn.
LEMMA MergedBreaks ==
  ASSUME NEW g \in Seq(Msgs), NEW i \in 1..Len(g) - 1
  PROVE  /\ \/ Broken(Merged(g, i))
            \/ Len(g) - 2 \in 0..Len(g) /\ Merged(g, i) = Append(SubSeq(g, 1, Len(g) - 2), Garbage)
         /\ \A x \in {Garbage, Cut} : Broken(Append(Merged(g, i), x))
<1> DEFINE j == Merged(g, i)
<1>1. /\ j \in Lines /\ Len(j) = Len(g) - 1 /\ Len(g) \in Nat
      /\ \A k \in 1..Len(g) - 1 : j[k] = IF k < i THEN g[k] ELSE IF k = i THEN Garbage ELSE g[k + 1]
  BY MergedIs
<1> HIDE DEF j
<1>2. j[i] = Garbage /\ i \in 1..Len(j)
  BY <1>1
<1>3. ASSUME NEW x \in {Garbage, Cut} PROVE Broken(Append(j, x))
  <2>1. Len(Append(j, x)) = Len(j) + 1 /\ \A k \in 1..Len(j) : Append(j, x)[k] = j[k]
    BY <1>1, LineMore
  <2>2. i \in 1..Len(j) + 1 /\ i < Len(j) + 1
    BY <1>1, <1>2
  <2> QED BY <1>2, <2>1, <2>2 DEF Broken
<1>4. CASE i # Len(g) - 1
  <2>1. i < Len(j)
    BY <1>1, <1>4
  <2> QED BY <1>2, <1>3, <2>1 DEF Broken, j
<1>5. CASE i = Len(g) - 1
  <2> DEFINE p == SubSeq(g, 1, Len(g) - 2)  a == Append(p, Garbage)
  <2>1. Len(g) - 2 \in 0..Len(g)
    BY <1>1, <1>5
  <2>2. p \in Seq(Msgs) /\ Len(p) = Len(g) - 2 /\ \A k \in 1..Len(g) - 2 : p[k] = g[k]
    BY <2>1, PrefixIs
  <2> HIDE DEF p
  <2>0. p \in Lines /\ Garbage \in Msgs \cup {Garbage, Cut}
    BY <2>2, LinesAre
  <2>3. a \in Lines /\ Len(a) = Len(p) + 1 /\ a[Len(p) + 1] = Garbage /\ \A k \in 1..Len(p) : a[k] = p[k]
    BY <2>0, <2>2, LineMore
  <2> HIDE DEF a
  <2>4. Len(a) = Len(g) - 1 /\ a[Len(g) - 1] = Garbage
    BY <1>1, <2>2, <2>3
  <2>5. ASSUME NEW k \in 1..Len(g) - 1 PROVE j[k] = a[k]
    <3>1. CASE k = Len(g) - 1
      BY <1>2, <1>5, <2>4, <3>1
    <3>2. CASE k # Len(g) - 1
      <4>1. k \in 1..Len(g) - 2 /\ k < i
        BY <1>1, <1>5, <3>2
      <4> QED BY <1>1, <2>2, <2>3, <4>1
    <3> QED BY <3>1, <3>2
  <2>6. j = a
    BY <1>1, <2>3, <2>4, <2>5, SameLines
  <2> QED BY <1>3, <2>1, <2>6 DEF a, p, j
<1> QED BY <1>4, <1>5

\* A line more.
LEMMA WrittenIs ==
  ASSUME file \in Lines, nl \in BOOLEAN, NEW m \in Msgs \cup {Garbage, Cut}
  PROVE  Written(m) \in Lines /\ (nl => Written(m) = Append(file, m))
<1> DEFINE L == Msgs \cup {Garbage, Cut}  x == IF file[Len(file)] = Cut \/ m = Cut THEN Cut ELSE Garbage
<1>1. file \in Seq(L) /\ m \in L /\ x \in L
  BY DEF Lines
<1>0. Written(m) = IF nl THEN Append(file, m) ELSE [file EXCEPT ![Len(file)] = x]
  BY DEF Written
<1> HIDE DEF L, x
<1>2. Append(file, m) \in Seq(L)
  BY <1>1
<1>3. ASSUME file # <<>> PROVE [file EXCEPT ![Len(file)] = x] \in Seq(L)
  <2>1. Len(file) \in 1..Len(file)
    BY <1>1, <1>3
  <2> QED BY <1>1, <2>1, ExceptSeq
<1>4. ASSUME file = <<>> PROVE [file EXCEPT ![Len(file)] = x] \in Seq(L)
  <2>1. [file EXCEPT ![Len(file)] = x] = <<>>
    BY <1>4
  <2> QED BY <2>1, EmptySeq
<1>5. Written(m) \in Seq(L)
  BY <1>0, <1>1, <1>2, <1>3, <1>4
<1> QED BY <1>0, <1>5 DEF Lines, L

\* ... of the file of a run.
LEMMA LineAdded ==
  ASSUME NEW g \in Seq(Msgs), NEW m \in Msgs, NEW hasty \in BOOLEAN, NEW l,
         l \notin {"off", "load", "cut", "newline"}, nl \in BOOLEAN, FileSays(l, file, nl, g, hasty)
  PROVE  FileSays("newline", Written(m), FALSE, Append(g, m), hasty)
<1> DEFINE a == Append(g, m)
<1>0. a # <<>>
  <2>1. a \in Seq(Msgs) /\ Len(a) = Len(g) + 1 /\ Len(g) \in Nat
    BY AppendIs
  <2> HIDE DEF a
  <2> QED BY <2>1, EmptyIs
<1> HIDE DEF a
<1>1. CASE nl = TRUE /\ file = g
  <2>1. Written(m) = a
    BY <1>1 DEF Written, a
  <2> QED BY <1>0, <2>1 DEF FileSays, a
<1>2. CASE nl = FALSE /\ file = g /\ g # <<>> /\ hasty
  <2>1. Written(m) = [g EXCEPT ![Len(g)] = Garbage]
    <3>1. g[Len(g)] \in Msgs
      BY <1>2
    <3>2. g[Len(g)] # Cut /\ m # Cut
      BY <3>1, MsgsAre
    <3> QED BY <1>2, <3>2 DEF Written
  <2>2. Len(g) \in 1..Len(a) - 1 /\ Written(m) = Merged(a, Len(g))
    BY <1>2, <2>1, LastMerged DEF a
  <2> QED BY <1>2, <2>2 DEF FileSays, a
<1>3. CASE nl = TRUE /\ hasty /\ \E i \in 1..Len(g) - 1 : file = Merged(g, i)
  <2>1. PICK i \in 1..Len(g) - 1 : file = Merged(g, i)
    BY <1>3
  <2>2. Written(m) = Append(Merged(g, i), m)
    BY <1>3, <2>1 DEF Written
  <2>3. i \in 1..Len(a) - 1 /\ Written(m) = Merged(a, i)
    BY <2>2, MergedGrows DEF a
  <2> QED BY <1>3, <2>3 DEF FileSays, a
<1>4. \/ file = g /\ (g = <<>> => nl) /\ (hasty \/ nl)
      \/ nl /\ hasty /\ \E i \in 1..Len(g) - 1 : file = Merged(g, i)
  BY DEF FileSays
<1> QED BY <1>1, <1>2, <1>3, <1>4

Whole(g) == g \in Seq(Msgs) /\ Linked(g) /\ \E s \in Sessions : OneBy(g, s)

LEMMA NothingPairs == pairs_intact(<<>>) /\ Linked(<<>>) /\ \A s : OneBy(<<>>, s)
  BY DEF pairs_intact, Linked, OneBy

LEMMA NothingWhole == Whole(<<>>)
<1>1. 0 \in Sessions
  BY SessionAssumption DEF Sessions
<1>2. <<>> \in Seq(Msgs)
  OBVIOUS
<1> QED BY <1>1, <1>2, NothingPairs DEF Whole

LEMMA PrefixWhole == ASSUME NEW g, Whole(g), NEW n \in 0..Len(g) PROVE Whole(SubSeq(g, 1, n))
<1>1. g \in Seq(Msgs)
  BY DEF Whole
<1>2. PICK s \in Sessions : OneBy(g, s)
  BY DEF Whole
<1> QED BY <1>1, <1>2, PrefixIs DEF Whole

\* The file a run leaves, as it is ...
LEMMA FileLeft ==
  ASSUME NEW g, Whole(g), NEW hasty \in BOOLEAN, NEW l, FileSays(l, file, nl, g, hasty),
         l = "newline" => hasty
  PROVE  \E w : Whole(w) /\ FileSays("off", file, nl, w, hasty)
<1>1. CASE \E i \in 1..Len(g) - 1 : hasty /\ file = Merged(g, i)
  <2>1. PICK i \in 1..Len(g) - 1 : hasty /\ file = Merged(g, i)
    BY <1>1
  <2>2. CASE Broken(file)
    BY <2>1, <2>2, NothingWhole DEF FileSays
  <2>3. CASE Len(g) - 2 \in 0..Len(g) /\ file = Append(SubSeq(g, 1, Len(g) - 2), Garbage)
    <3>1. PICK w : w = SubSeq(g, 1, Len(g) - 2) /\ Whole(w)
      BY <2>3, PrefixWhole
    <3> QED BY <2>3, <3>1 DEF FileSays
  <2> QED BY <2>1, <2>2, <2>3, MergedBreaks DEF Whole
<1>2. CASE FileSays("off", file, nl, g, hasty)
  BY <1>2
<1>3. FileSays("off", file, nl, g, hasty) \/ \E i \in 1..Len(g) - 1 : hasty /\ file = Merged(g, i)
  BY DEF FileSays
<1> QED BY <1>1, <1>2, <1>3

\* ... and with a line torn.
LEMMA FileTorn ==
  ASSUME NEW g, Whole(g), NEW hasty \in BOOLEAN, NEW l, FileSays(l, file, nl, g, hasty), nl \in BOOLEAN,
         l \notin {"off", "load", "cut", "newline"}, NEW x \in {Garbage, Cut}
  PROVE  \E w : Whole(w) /\ FileSays("off", Written(x), FALSE, w, hasty)
<1>0. g \in Seq(Msgs)
  BY DEF Whole
<1>1. CASE nl = TRUE /\ file = g
  <2>1. Written(x) = Append(g, x)
    BY <1>1 DEF Written
  <2> QED BY <2>1 DEF FileSays
<1>2. CASE nl = FALSE /\ file = g /\ g # <<>>
  <2>1. PICK y \in {Garbage, Cut} : Written(x) = [g EXCEPT ![Len(g)] = y]
    BY <1>2 DEF Written
  <2>2. Len(g) - 1 \in 0..Len(g)
    BY <1>0, <1>2, EmptyIs
  <2>3. PICK w : w = SubSeq(g, 1, Len(g) - 1) /\ Whole(w)
    BY <2>2, PrefixWhole
  <2>4. Written(x) = Append(w, y)
    BY <1>0, <1>2, <2>1, <2>3, LastMerged
  <2> QED BY <2>3, <2>4 DEF FileSays
<1>3. CASE nl = TRUE /\ hasty /\ \E i \in 1..Len(g) - 1 : file = Merged(g, i)
  <2>1. PICK i \in 1..Len(g) - 1 : file = Merged(g, i)
    BY <1>3
  <2>2. Broken(Written(x))
    BY <1>0, <1>3, <2>1, MergedBreaks DEF Written
  <2> QED BY <1>3, <2>2, NothingWhole DEF FileSays
<1>4. \/ file = g /\ (g = <<>> => nl)
      \/ nl /\ hasty /\ \E i \in 1..Len(g) - 1 : file = Merged(g, i)
  BY DEF FileSays
<1> QED BY <1>1, <1>2, <1>3, <1>4

LEMMA LastIs == ASSUME NEW ms \in Seq(Msgs), ms # <<>> PROVE Len(ms) \in 1..Len(ms) /\ ms[Len(ms)] \in Msgs
<1>1. Len(ms) \in 1..Len(ms)
  OBVIOUS
<1>2. \A i \in 1..Len(ms) : ms[i] \in Msgs
  OBVIOUS
<1> QED BY <1>1, <1>2

\* What is loaded of the messages g.
LEMMA WholeIsLoaded ==
  ASSUME NEW g \in Seq(Msgs)
  PROVE  /\ file = g => Loaded = g /\ ~Torn /\ ~Corrupt
         /\ file = Append(g, Garbage) => Loaded = g /\ Torn /\ ~Corrupt
         /\ file = Append(g, Cut) => Loaded = g /\ ~Torn /\ Corrupt /\ EndsIn(Cut)
<1>1. Len(g) \in Nat /\ \A i \in 1..Len(g) : g[i] \in Msgs /\ g[i] # Garbage /\ g[i] # Cut
  <2>1. \A i \in 1..Len(g) : g[i] \in Msgs
    OBVIOUS
  <2> QED BY <2>1, MsgsAre
<1>2. ASSUME file = g PROVE Loaded = g /\ ~Torn /\ ~Corrupt
  <2>1. ~Torn /\ ~EndsIn(Cut)
    BY <1>1, <1>2, LastIs, MsgsAre DEF Torn, EndsIn
  <2> QED BY <1>1, <1>2, <2>1 DEF Corrupt, Loaded
<1>3. ASSUME NEW x \in {Garbage, Cut}, file = Append(g, x)
      PROVE  /\ EndsIn(x) /\ SubSeq(file, 1, Len(file) - 1) = g /\ Len(file) = Len(g) + 1 /\ file[Len(g) + 1] = x
             /\ \A i \in 1..Len(g) : file[i] = g[i]
  <2> DEFINE L == Msgs \cup {Garbage, Cut}
  <2>1. g \in Seq(L) /\ x \in L
    BY LinesAre DEF Lines
  <2> HIDE DEF L
  <2>2. Len(file) = Len(g) + 1 /\ file[Len(g) + 1] = x /\ file # <<>> /\ \A i \in 1..Len(g) : file[i] = g[i]
    BY <1>3, <2>1
  <2>3. SubSeq(file, 1, Len(g)) = g
    BY <1>3, <2>1
  <2>4. Len(file) - 1 = Len(g)
    BY <1>1, <2>2
  <2> QED BY <2>2, <2>3, <2>4 DEF EndsIn
<1>4. Garbage # Cut
  BY DEF Garbage, Cut
<1>5. \A i \in 1..Len(g) + 1 : i \in 1..Len(g) \/ i = Len(g) + 1
  BY <1>1
<1>6. ASSUME file = Append(g, Garbage) PROVE Loaded = g /\ Torn /\ ~Corrupt
  <2>1. EndsIn(Garbage) /\ SubSeq(file, 1, Len(file) - 1) = g /\ Len(file) = Len(g) + 1
        /\ file[Len(g) + 1] = Garbage /\ \A i \in 1..Len(g) : file[i] = g[i]
    BY <1>3, <1>6
  <2> QED BY <1>1, <1>4, <1>5, <2>1 DEF Torn, Loaded, Corrupt
<1>7. ASSUME file = Append(g, Cut) PROVE Loaded = g /\ ~Torn /\ Corrupt /\ EndsIn(Cut)
  <2>1. EndsIn(Cut) /\ SubSeq(file, 1, Len(file) - 1) = g /\ Len(file) = Len(g) + 1
        /\ file[Len(g) + 1] = Cut /\ \A i \in 1..Len(g) : file[i] = g[i]
    BY <1>3, <1>7
  <2>2. ~Torn
    BY <1>4, <2>1 DEF Torn, EndsIn
  <2>3. Len(g) + 1 \in 1..Len(file)
    BY <1>1, <2>1
  <2> QED BY <2>1, <2>2, <2>3 DEF Loaded, Corrupt
<1> QED BY <1>2, <1>6, <1>7

-----------------------------------------------------------------------------
(* The invariant.                                                          *)

Nexts     == {"off", "trim0", "top", "trim", "edit", "idle", "tools"}
Processes == [pc : Places, mem : Seq(Msgs), reply : Seq(Msgs), push : Seq(Msgs), then : Nexts,
              mirror : Seq(Msgs), degraded : BOOLEAN, by : Sessions, fresh : BOOLEAN]

Hasty == "newline" \in world.deaths

SessionTyped ==
    /\ world \in Worlds /\ file \in Lines /\ nl \in BOOLEAN
    /\ starts \in 0..MaxStarts /\ ids \in Nat
    /\ proc \in [Procs -> Processes]
    /\ \A p \in Procs \ world.procs : proc[p] = Off

\* The mirror shows the first messages in memory, perhaps with their images.
Mirrors(mirror, mem) == /\ Len(mirror) <= Len(mem)
                        /\ \A i \in 1..Len(mirror) : Bare(mirror[i]) = Bare(mem[i])

\* Process q, whatever the others do to the file.
Sane(q) ==
    /\ q.pc = "tools" \/ (q.pc = "newline" /\ q.then = "tools")
         => Len(q.reply) = 1 /\ q.reply[1].kind = "asst"
    /\ q.pc = "newline" /\ q.then = "tools" => q.push = <<>>
    /\ q.pc \in {"call", "tools", "edit"} \/ (q.pc = "newline" /\ q.then \in {"tools", "edit"})
         => Mirrors(q.mirror, q.mem)
    /\ q.pc \in {"off", "load"} => q.mem = <<>>
    /\ q.pc \in {"load", "cut", "repair"} => ~q.fresh
    /\ q.pc \in {"load", "cut"} => ~q.degraded
    /\ q.pc = "off" => ~q.fresh

\* What it remembers, or will when it has written its newline, pairs.
Paired(q) ==
    /\ q.pc \in {"trim0", "first", "idle", "top", "call", "tools", "ended", "edit", "trim"}
         => pairs_intact(q.mem)
    /\ q.pc = "newline" =>
         IF q.then = "tools" THEN pairs_intact(q.mem)
         ELSE q.then \in {"trim0", "off"} \/ pairs_intact(q.mem \o q.push)
    /\ q.pc = "newline" /\ q.then = "trim0" => pairs_intact(q.mem \o q.push)
    /\ q.pc \in {"cut", "repair"} => Linked(q.mem)

\* The messages it has written, or begun to.
Begun(q) == IF q.pc = "tools" \/ (q.pc = "newline" /\ q.then = "tools") THEN q.mem \o q.reply
           ELSE IF q.pc = "newline" THEN q.mem \o q.push
           ELSE q.mem

\* The file of a run that has it to itself says g; and, by where the run is, it
\* remembers g.
Holds(q, f, n, g, hasty) ==
    /\ Whole(g) /\ FileSays(q.pc, f, n, g, hasty)
    /\ q.pc \notin {"idle", "ended"} /\ (q.pc = "newline" => q.then \notin {"idle", "ended"})
    /\ q.pc \notin {"off", "load"} =>
         Recalls(Begun(q), g, q.degraded) /\ OneBy(q.mem, q.by) /\ OneBy(g, q.by)

OfRun(q, f, n, hasty) == \E g : Holds(q, f, n, g, hasty)

SessionInv ==
    /\ SessionTyped
    /\ \A p \in Procs : Sane(proc[p]) /\ (Lone \/ proc[p].fresh => Paired(proc[p]))
    /\ Lone => OfRun(proc["run"], file, nl, Hasty)

LEMMA Constants ==
  /\ MaxStarts \in Nat /\ MaxIds \in Nat /\ Keep \in Nat /\ Keep # 0 /\ Bodies \subseteq Msgs
  /\ 0 \in Sessions /\ Sessions = 0..MaxStarts
  /\ \A w \in Worlds : w.procs \subseteq Procs /\ w.left \subseteq Seq(Msgs) /\ w.starts \in 0..MaxStarts
BY SessionAssumption DEF Sessions

LEMMA HastyIs == Hasty \in BOOLEAN /\ (Alone <=> Lone /\ ~Hasty)
BY DEF Hasty, Alone

LEMMA OffIs == Off \in Processes /\ Sane(Off) /\ Paired(Off) /\ ~Off.fresh /\ Off.pc = "off"
<1>1. Off \in Processes
  <2>1. <<>> \in Seq(Msgs) /\ "off" \in Places /\ 0 \in Sessions
    BY Constants DEF Places
  <2>2. "off" \in Nexts
    BY DEF Nexts
  <2> QED BY <2>1, <2>2 DEF Off, Processes
<1> QED BY <1>1 DEF Off, Sane, Paired

\* A step of process p that leaves r of it.
LEMMA StepDone ==
  ASSUME RunsAlone, SessionInv, world' = world, NEW p \in world.procs,
         NEW r \in Processes, proc' = [proc EXCEPT ![p] = r],
         file' \in Lines, nl' \in BOOLEAN, starts' \in 0..MaxStarts, ids' \in Nat,
         Sane(r), Lone \/ r.fresh => Paired(r),
         Lone /\ p = "run" => OfRun(r, file', nl', Hasty)
  PROVE  SessionInv'
<1>1. p \in Procs /\ world \in Worlds /\ proc \in [Procs -> Processes]
  BY Constants DEF SessionInv, SessionTyped
<1>2. proc' \in [Procs -> Processes] /\ proc'[p] = r /\ \A o \in Procs : o # p => proc'[o] = proc[o]
  BY <1>1
<1>3. SessionTyped'
  BY <1>1, <1>2 DEF SessionInv, SessionTyped
<1>4. (Lone' <=> Lone) /\ Hasty' = Hasty
  BY DEF Lone, Hasty
<1>5. ASSUME NEW o \in Procs PROVE Sane(proc'[o]) /\ (Lone \/ proc'[o].fresh => Paired(proc'[o]))
  BY <1>2 DEF SessionInv
<1>6. ASSUME Lone PROVE OfRun(proc'["run"], file', nl', Hasty)
  <2>1. p = "run"
    BY <1>1, <1>6 DEF Lone, RunsAlone
  <2> QED BY <1>2, <1>6, <2>1
<1> QED BY <1>3, <1>4, <1>5, <1>6 DEF SessionInv

LEMMA ProcOf ==
  ASSUME RunsAlone, SessionInv, NEW p \in world.procs
  PROVE  /\ p \in Procs /\ proc[p] \in Processes
         /\ proc[p].pc \in Places /\ proc[p].mem \in Seq(Msgs) /\ Len(proc[p].mem) \in Nat
         /\ proc[p].reply \in Seq(Msgs) /\ proc[p].push \in Seq(Msgs) /\ proc[p].then \in Nexts
         /\ proc[p].mirror \in Seq(Msgs) /\ proc[p].degraded \in BOOLEAN
         /\ proc[p].by \in Sessions /\ proc[p].fresh \in BOOLEAN
         /\ Sane(proc[p]) /\ (Lone \/ proc[p].fresh => Paired(proc[p]))
         /\ Lone => p = "run" /\ OfRun(proc[p], file, nl, Hasty)
<1>1. p \in Procs /\ proc[p] \in Processes
  BY Constants DEF SessionInv, SessionTyped
<1>2. Lone => p = "run"
  BY <1>1 DEF SessionInv, SessionTyped, Lone, RunsAlone
<1> QED BY <1>1, <1>2 DEF SessionInv, Processes

LEMMA Typed ==
  ASSUME SessionInv
  PROVE  /\ file \in Lines /\ nl \in BOOLEAN /\ starts \in 0..MaxStarts /\ ids \in Nat
         /\ proc \in [Procs -> Processes]
BY DEF SessionInv, SessionTyped

\* Process r, field by field.
Fields(r, pc, mem, reply, push, then, mirror, degraded, by, fresh) ==
    /\ r \in Processes /\ r.pc = pc /\ r.mem = mem /\ r.reply = reply /\ r.push = push
    /\ r.then = then /\ r.mirror = mirror /\ r.degraded = degraded /\ r.by = by /\ r.fresh = fresh

LEMMA StartedIs ==
  ASSUME NEW l \in Places, NEW s \in Sessions, NEW b \in BOOLEAN
  PROVE  /\ Fields([Off EXCEPT !.pc = l, !.by = s, !.fresh = b],
                   l, <<>>, <<>>, <<>>, "off", <<>>, FALSE, s, b)
         /\ Fields([Off EXCEPT !.pc = l, !.by = s], l, <<>>, <<>>, <<>>, "off", <<>>, FALSE, s, FALSE)
<1>1. PICK q \in Processes : q = Off
  BY OffIs
<1>2. /\ q.mem = <<>> /\ q.reply = <<>> /\ q.push = <<>> /\ q.then = "off" /\ q.mirror = <<>>
      /\ q.degraded = FALSE /\ q.fresh = FALSE
  BY <1>1 DEF Off
<1>3. Fields([q EXCEPT !.pc = l, !.by = s, !.fresh = b],
             l, q.mem, q.reply, q.push, q.then, q.mirror, q.degraded, s, b)
  BY DEF Processes, Fields
<1>4. Fields([q EXCEPT !.pc = l, !.by = s], l, q.mem, q.reply, q.push, q.then, q.mirror, q.degraded, s, q.fresh)
  BY DEF Processes, Fields
<1> QED BY <1>1, <1>2, <1>3, <1>4

LEMMA RewrittenIs ==
  ASSUME NEW f \in [Procs -> Processes], NEW p \in Procs, NEW q, q = f[p],
         NEW l \in Places, NEW ms \in Seq(Msgs)
  PROVE  \E r \in Processes :
            /\ [f EXCEPT ![p].pc = l, ![p].mem = ms, ![p].mirror = <<>>] = [f EXCEPT ![p] = r]
            /\ Fields(r, l, ms, q.reply, q.push, q.then, <<>>, q.degraded, q.by, q.fresh)
<1>0. PICK e \in Seq(Msgs) : e = <<>>
  BY EmptySeq
<1>1. PICK r : r = [q EXCEPT !.pc = l, !.mem = ms, !.mirror = e]
  OBVIOUS
<1>2. Fields(r, l, ms, q.reply, q.push, q.then, e, q.degraded, q.by, q.fresh)
  BY <1>1 DEF Processes, Fields
<1>3. [f EXCEPT ![p].pc = l, ![p].mem = ms, ![p].mirror = e] = [f EXCEPT ![p] = r]
  BY <1>1
<1>4. r \in Processes
  BY <1>2 DEF Fields
<1> QED BY <1>0, <1>2, <1>3, <1>4

LEMMA GoneIs ==
  ASSUME NEW f \in [Procs -> Processes], NEW p \in Procs, NEW q, q = f[p], NEW l \in Places
  PROVE  /\ \E r \in Processes :
              /\ [f EXCEPT ![p].pc = l] = [f EXCEPT ![p] = r]
              /\ Fields(r, l, q.mem, q.reply, q.push, q.then, q.mirror, q.degraded, q.by, q.fresh)
         /\ \A e \in Seq(Msgs) : \E r \in Processes :
              /\ [f EXCEPT ![p].pc = l, ![p].mirror = e] = [f EXCEPT ![p] = r]
              /\ Fields(r, l, q.mem, q.reply, q.push, q.then, e, q.degraded, q.by, q.fresh)
<1>1. PICK r : r = [q EXCEPT !.pc = l]
  OBVIOUS
<1>2. Fields(r, l, q.mem, q.reply, q.push, q.then, q.mirror, q.degraded, q.by, q.fresh)
  BY <1>1 DEF Processes, Fields
<1>3. [f EXCEPT ![p].pc = l] = [f EXCEPT ![p] = r]
  BY <1>1
<1>4. ASSUME NEW e \in Seq(Msgs)
      PROVE  \E o \in Processes :
              /\ [f EXCEPT ![p].pc = l, ![p].mirror = e] = [f EXCEPT ![p] = o]
              /\ Fields(o, l, q.mem, q.reply, q.push, q.then, e, q.degraded, q.by, q.fresh)
  <2>1. PICK o : o = [q EXCEPT !.pc = l, !.mirror = e]
    OBVIOUS
  <2>2. Fields(o, l, q.mem, q.reply, q.push, q.then, e, q.degraded, q.by, q.fresh)
    BY <2>1 DEF Processes, Fields
  <2>3. [f EXCEPT ![p].pc = l, ![p].mirror = e] = [f EXCEPT ![p] = o]
    BY <2>1
  <2>4. o \in Processes
    BY <2>2 DEF Fields
  <2> QED BY <2>2, <2>3, <2>4
<1>5. r \in Processes
  BY <1>2 DEF Fields
<1> QED BY <1>2, <1>3, <1>4, <1>5

-----------------------------------------------------------------------------
(* The steps, by what they do.                                             *)

LEMMA StartFreshKeeps ==
  ASSUME RunsAlone, SessionInv, world' = world, NEW p \in world.procs, StartFresh(p)
  PROVE  SessionInv'
<1>1. PICK l \in {"first", "idle"}, s \in Nat : /\ l = (IF p = "run" THEN "first" ELSE "idle") /\ s = starts + 1
  BY DEF SessionInv, SessionTyped
<1>2. /\ starts < world.starts /\ starts' = s /\ ids' = ids
      /\ IF p = "run" THEN rotate_fresh ELSE UNCHANGED <<file, nl, archived>>
      /\ proc' = [proc EXCEPT ![p] = [Off EXCEPT !.pc = l, !.by = s, !.fresh = TRUE]]
  BY <1>1 DEF StartFresh
<1>4. s \in Sessions /\ s \in 0..MaxStarts
  BY <1>1, <1>2, Constants DEF SessionInv, SessionTyped
<1>3. PICK r : r = [Off EXCEPT !.pc = l, !.by = s, !.fresh = TRUE]
  OBVIOUS
<1>5. Fields(r, l, <<>>, <<>>, <<>>, "off", <<>>, FALSE, s, TRUE)
  <2>1. l \in Places
    BY DEF Places
  <2> QED BY <1>3, <1>4, <2>1, StartedIs
<1>6. Sane(r) /\ Paired(r) /\ r \in Processes
  BY <1>5, NothingPairs DEF Sane, Paired, Fields
<1>7. file' \in Lines /\ nl' \in BOOLEAN
  <2>1. <<>> \in Lines
    BY EmptySeq DEF Lines
  <2> QED BY <1>2, <2>1 DEF rotate_fresh, SessionInv, SessionTyped
<1>8. ASSUME Lone, p = "run" PROVE OfRun(r, file', nl', Hasty)
  <2>1. file' = <<>> /\ nl' = TRUE
    BY <1>2, <1>8 DEF rotate_fresh, Lone
  <2>2. Whole(<<>>) /\ l = "first"
    BY <1>1, <1>8, NothingWhole
  <2>3. FileSays("first", <<>>, TRUE, <<>>, Hasty)
    BY DEF FileSays
  <2>4. Begun(r) = <<>>
    BY <1>5, <2>2 DEF Begun, Fields
  <2>5. Holds(r, <<>>, TRUE, <<>>, Hasty)
    BY <1>5, <2>2, <2>3, <2>4, NothingPairs DEF Holds, Fields, Recalls
  <2> QED BY <2>1, <2>5 DEF OfRun
<1>9. starts' \in 0..MaxStarts /\ ids' \in Nat
  BY <1>2, <1>4 DEF SessionInv, SessionTyped
<1> QED BY <1>2, <1>3, <1>6, <1>7, <1>8, <1>9, StepDone

LEMMA StartResumeKeeps ==
  ASSUME RunsAlone, SessionInv, world' = world, NEW p \in world.procs, StartResume(p)
  PROVE  SessionInv'
<1>1. PICK s \in Nat : s = starts + 1
  BY DEF SessionInv, SessionTyped
<1>2. /\ starts < world.starts /\ starts' = s /\ UNCHANGED <<file, nl, ids>> /\ proc[p].pc = "off"
      /\ proc' = [proc EXCEPT ![p] = [Off EXCEPT !.pc = "load", !.by = s]]
  BY <1>1 DEF StartResume, At
<1>4. s \in Sessions /\ s \in 0..MaxStarts
  BY <1>1, <1>2, Constants DEF SessionInv, SessionTyped
<1>3. PICK r : r = [Off EXCEPT !.pc = "load", !.by = s]
  OBVIOUS
<1>5. Fields(r, "load", <<>>, <<>>, <<>>, "off", <<>>, FALSE, s, FALSE)
  <2>1. PICK l \in Places : l = "load"
    BY DEF Places
  <2> QED BY <1>3, <1>4, <2>1, StartedIs
<1>6. Sane(r) /\ Paired(r) /\ r \in Processes
  BY <1>5, NothingPairs DEF Sane, Paired, Fields
<1>8. ASSUME Lone, p = "run" PROVE OfRun(r, file', nl', Hasty)
  <2>1. PICK g : Holds(proc[p], file, nl, g, Hasty)
    BY <1>8, ProcOf DEF OfRun
  <2>2. FileSays("load", file, nl, g, Hasty)
    BY <1>2, <2>1 DEF Holds, FileSays
  <2>3. Holds(r, file, nl, g, Hasty)
    BY <1>5, <2>1, <2>2 DEF Holds, Fields
  <2> QED BY <1>2, <2>3 DEF OfRun
<1>9. starts' \in 0..MaxStarts /\ ids' \in Nat /\ file' \in Lines /\ nl' \in BOOLEAN
  BY <1>2, <1>4 DEF SessionInv, SessionTyped
<1> QED BY <1>2, <1>3, <1>6, <1>8, <1>9, StepDone

\* The process is gone, and left the file as it was or tore a line.
LEMMA EndsKeeps ==
  ASSUME RunsAlone, SessionInv, world' = world, NEW p \in world.procs, proc' = [proc EXCEPT ![p] = Off],
         UNCHANGED <<starts, ids>>,
         \/ UNCHANGED <<file, nl>> /\ (proc[p].pc = "newline" => Hasty)
         \/ /\ nl' = FALSE /\ \E x \in {Garbage, Cut} : file' = Written(x)
            /\ proc[p].pc \in {"first", "idle", "top", "tools", "ended", "edit", "call", "repair"}
  PROVE  SessionInv'
<1>1. file' \in Lines /\ nl' \in BOOLEAN
  BY Typed, WrittenIs
<1>2. ASSUME Lone, p = "run" PROVE OfRun(Off, file', nl', Hasty)
  <2>1. PICK g : Holds(proc[p], file, nl, g, Hasty)
    BY <1>2, ProcOf DEF OfRun
  <2>2. /\ Whole(g) /\ FileSays(proc[p].pc, file, nl, g, Hasty) /\ Hasty \in BOOLEAN /\ nl \in BOOLEAN
    BY <2>1, HastyIs, Typed DEF Holds
  <2>3. ASSUME NEW w, Whole(w), FileSays("off", file', nl', w, Hasty) PROVE OfRun(Off, file', nl', Hasty)
    BY <2>3 DEF Holds, Off, OfRun
  <2>4. CASE UNCHANGED <<file, nl>> /\ (proc[p].pc = "newline" => Hasty)
    <3>1. PICK w : Whole(w) /\ FileSays("off", file, nl, w, Hasty)
      BY <2>2, <2>4, FileLeft
    <3> QED BY <2>3, <2>4, <3>1
  <2>5. CASE /\ nl' = FALSE /\ \E x \in {Garbage, Cut} : file' = Written(x)
             /\ proc[p].pc \in {"first", "idle", "top", "tools", "ended", "edit", "call", "repair"}
    <3>1. PICK x \in {Garbage, Cut} : file' = Written(x)
      BY <2>5
    <3>2. PICK l : l = proc[p].pc /\ l \notin {"off", "load", "cut", "newline"}
      BY <2>5
    <3>3. PICK w : Whole(w) /\ FileSays("off", Written(x), FALSE, w, Hasty)
      BY <2>2, <3>2, FileTorn
    <3> QED BY <2>3, <2>5, <3>1, <3>3
  <2> QED BY <2>4, <2>5
<1> QED BY <1>1, <1>2, OffIs, StepDone, Typed

\* The file gives way to ms.
LEMMA RewriteKeeps ==
  ASSUME RunsAlone, SessionInv, world' = world, NEW p \in world.procs,
         NEW ms \in Seq(Msgs), NEW next \in {"repair", "first", "idle", "top", "trim"},
         Rewrite(p, ms, next), ids' = ids,
         next = "repair" => ~proc[p].fresh,
         next # "repair" /\ (Lone \/ proc[p].fresh) => pairs_intact(ms),
         Lone => /\ next # "idle" /\ OneBy(ms, proc[p].by) /\ Linked(ms)
  PROVE  SessionInv'
<1> DEFINE q == proc[p]
<1>1. /\ file' = ms /\ nl' = TRUE /\ starts' = starts
      /\ proc' = [proc EXCEPT ![p].pc = next, ![p].mem = ms, ![p].mirror = <<>>]
  BY DEF Rewrite
<1>2. PICK r \in Processes :
         /\ [proc EXCEPT ![p].pc = next, ![p].mem = ms, ![p].mirror = <<>>] = [proc EXCEPT ![p] = r]
         /\ Fields(r, next, ms, q.reply, q.push, q.then, <<>>, q.degraded, q.by, q.fresh)
  <2>1. next \in Places
    BY DEF Places
  <2>2. proc \in [Procs -> Processes] /\ p \in Procs
    BY ProcOf, Typed
  <2> QED BY <2>1, <2>2, RewrittenIs
<1>4. Sane(r)
  BY <1>2 DEF Sane, Fields
<1>5. Lone \/ r.fresh => Paired(r)
  BY <1>2 DEF Paired, Fields
<1>6. ASSUME Lone, p = "run" PROVE OfRun(r, file', nl', Hasty)
  <2>1. q.by \in Sessions
    BY ProcOf
  <2>2. Whole(ms) /\ Begun(r) = ms
    BY <1>2, <1>6, <2>1 DEF Whole, Begun, Fields
  <2>3. FileSays(next, ms, TRUE, ms, Hasty)
    BY DEF FileSays
  <2>4. Holds(r, ms, TRUE, ms, Hasty)
    BY <1>2, <1>6, <2>2, <2>3 DEF Holds, Fields, Recalls
  <2> QED BY <1>1, <2>4 DEF OfRun
<1>7. file' \in Lines /\ nl' \in BOOLEAN
  BY <1>1, LinesAre
<1> HIDE DEF q
<1> QED BY <1>1, <1>2, <1>4, <1>5, <1>6, <1>7, StepDone, Typed

\* The process goes on, and nothing else.
LEMMA GotoKeeps ==
  ASSUME RunsAlone, SessionInv, world' = world, NEW p \in world.procs,
         NEW l \in {"trim0", "first", "idle", "top", "trim"},
         Goto(p, l) \/ NoTrim(p, l), UNCHANGED <<file, nl, starts, ids>>,
         proc[p].pc \in {"repair", "trim0", "edit", "trim", "top"},
         Lone \/ proc[p].fresh => pairs_intact(proc[p].mem),
         Lone => l # "idle"
  PROVE  SessionInv'
<1> DEFINE q == proc[p]
<1>0. proc \in [Procs -> Processes] /\ p \in Procs /\ l \in Places
  BY ProcOf, Typed DEF Places
<1>2. PICK r \in Processes, e \in Seq(Msgs) :
         /\ proc' = [proc EXCEPT ![p] = r]
         /\ Fields(r, l, q.mem, q.reply, q.push, q.then, e, q.degraded, q.by, q.fresh)
  <2>1. CASE Goto(p, l)
    <3>1. q.mirror \in Seq(Msgs)
      BY ProcOf
    <3> QED BY <1>0, <2>1, <3>1, GoneIs DEF Goto
  <2>2. CASE NoTrim(p, l)
    <3>1. PICK e \in Seq(Msgs) : e = <<>>
      BY EmptySeq
    <3>2. proc' = [proc EXCEPT ![p].pc = l, ![p].mirror = e]
      BY <2>2, <3>1 DEF NoTrim
    <3> QED BY <1>0, <3>2, GoneIs
  <2> QED BY <2>1, <2>2
<1>4. Sane(r)
  BY <1>2 DEF Sane, Fields
<1>5. Lone \/ r.fresh => Paired(r)
  BY <1>2 DEF Paired, Fields
<1>6. ASSUME Lone, p = "run" PROVE OfRun(r, file', nl', Hasty)
  <2>1. PICK g : Holds(q, file, nl, g, Hasty)
    BY <1>6, ProcOf DEF OfRun
  <2>2. FileSays(l, file, nl, g, Hasty)
    BY <2>1 DEF Holds, FileSays
  <2>3. Begun(r) = q.mem /\ Begun(q) = q.mem
    BY <1>2 DEF Begun, Fields
  <2>4. Holds(r, file, nl, g, Hasty)
    BY <1>2, <1>6, <2>1, <2>2, <2>3 DEF Holds, Fields
  <2> QED BY <2>4 DEF OfRun
<1> HIDE DEF q
<1> QED BY <1>2, <1>4, <1>5, <1>6, StepDone, Typed

LEMMA OneByGrows ==
  ASSUME NEW g \in Seq(Msgs), NEW m \in Msgs, NEW s, OneBy(g, s), m.by = s PROVE OneBy(Append(g, m), s)
<1> DEFINE a == Append(g, m)
<1>1. Len(a) = Len(g) + 1 /\ a[Len(g) + 1] = m /\ (\A i \in 1..Len(g) : a[i] = g[i])
      /\ \A i \in 1..Len(g) + 1 : i \in 1..Len(g) \/ i = Len(g) + 1
  BY AppendIs
<1> HIDE DEF a
<1>2. OneBy(a, s)
  BY <1>1 DEF OneBy
<1> QED BY <1>2 DEF a

\* The run q, whose file says g, writes m, but for the newline.
Ready(q, g, m) ==
    /\ Hasty \in BOOLEAN /\ nl \in BOOLEAN /\ q.degraded \in BOOLEAN /\ q.by \in Sessions
    /\ Holds(q, file, nl, g, Hasty) /\ q.pc \in {"repair", "first", "top", "call", "tools", "edit"}
    /\ m \in Msgs /\ m.by = q.by /\ (q.degraded => ~m.image) /\ Linked(Append(Begun(q), m))

Ahead(q, g, m) ==
    /\ Recalls(Append(Begun(q), m), Append(g, m), q.degraded)
    /\ Whole(Append(g, m)) /\ OneBy(Append(g, m), q.by)
    /\ FileSays("newline", Written(m), FALSE, Append(g, m), Hasty)

LEMMA Wrote == ASSUME NEW q, NEW g, NEW m, Ready(q, g, m) PROVE Ahead(q, g, m)
<1>0. /\ Hasty \in BOOLEAN /\ nl \in BOOLEAN /\ q.degraded \in BOOLEAN /\ q.by \in Sessions
      /\ q.pc \in {"repair", "first", "top", "call", "tools", "edit"}
      /\ m \in Msgs /\ m.by = q.by /\ (q.degraded => ~m.image) /\ Linked(Append(Begun(q), m))
  BY DEF Ready
<1>1. g \in Seq(Msgs) /\ OneBy(g, q.by) /\ Recalls(Begun(q), g, q.degraded) /\ FileSays(q.pc, file, nl, g, Hasty)
  BY DEF Ready, Holds, Whole
<1>2. Recalls(Append(Begun(q), m), Append(g, m), q.degraded)
  BY <1>0, <1>1, RecallsGrows
<1>3. PICK a \in Seq(Msgs) : a = Append(g, m)
  BY <1>0, <1>1, AppendIs
<1>4. Linked(a) /\ OneBy(a, q.by)
  <2>1. Recalls(Append(Begun(q), m), a, q.degraded)
    BY <1>2, <1>3
  <2>2. Linked(Append(Begun(q), m)) <=> Linked(a)
    BY <1>0, <2>1, RecallsIs
  <2> QED BY <1>0, <1>1, <1>3, <2>2, OneByGrows
<1>5. PICK l : l = q.pc /\ l \notin {"off", "load", "cut", "newline"}
  BY <1>0
<1>6. FileSays("newline", Written(m), FALSE, Append(g, m), Hasty)
  BY <1>0, <1>1, <1>5, LineAdded
<1> QED BY <1>0, <1>2, <1>3, <1>4, <1>6 DEF Whole, Ahead

\* A line m is written, without its newline.
LEMMA AppendKeeps ==
  ASSUME RunsAlone, SessionInv, world' = world, NEW p \in world.procs,
         NEW m \in Msgs, NEW push \in Seq(Msgs), NEW next \in Nexts \ {"tools"},
         AppendLine(p, m, push, next), ids' = ids,
         proc[p].pc \in {"repair", "first", "idle", "top", "tools", "ended", "edit"},
         next = "edit" => Mirrors(proc[p].mirror, proc[p].mem),
         next # "off" /\ (Lone \/ proc[p].fresh) => pairs_intact(proc[p].mem \o push),
         Lone => /\ next # "idle" /\ proc[p].mem \o push = Append(Begun(proc[p]), m)
                 /\ Linked(Append(Begun(proc[p]), m)) /\ m.by = proc[p].by
                 /\ proc[p].degraded => ~m.image
  PROVE  SessionInv'
<1> DEFINE q == proc[p]
<1>0. PICK l \in Places, d \in BOOLEAN : l = "newline" /\ d = (q.degraded /\ q.pc # "idle")
  BY DEF Places
<1>1. /\ file' = Written(m) /\ nl' = FALSE /\ starts' = starts
      /\ proc' = [proc EXCEPT ![p].pc = l, ![p].push = push, ![p].then = next, ![p].degraded = d]
  <2>1. /\ file' = Written(m) /\ nl' = FALSE /\ starts' = starts
        /\ proc' = [proc EXCEPT ![p].pc = "newline", ![p].push = push, ![p].then = next,
                                ![p].degraded = @ /\ q.pc # "idle"]
    BY DEF AppendLine, At
  <2> QED BY <1>0, <2>1, ProcOf, Typed DEF Processes
<1>2. PICK r :
         /\ proc' = [proc EXCEPT ![p] = r]
         /\ Fields(r, l, q.mem, q.reply, push, next, q.mirror, d, q.by, q.fresh)
  <2>1. PICK r : r = [q EXCEPT !.pc = l, !.push = push, !.then = next, !.degraded = d]
    OBVIOUS
  <2>2. PICK z \in Processes : z = q
    BY ProcOf
  <2>3. Fields([z EXCEPT !.pc = l, !.push = push, !.then = next, !.degraded = d],
               l, z.mem, z.reply, push, next, z.mirror, d, z.by, z.fresh)
    BY DEF Processes, Fields
  <2>4. proc' = [proc EXCEPT ![p] = r]
    <3>1. proc \in [Procs -> Processes] /\ p \in Procs
      BY ProcOf, Typed
    <3>2. [proc EXCEPT ![p].pc = l, ![p].push = push, ![p].then = next, ![p].degraded = d]
          = [proc EXCEPT ![p] = r]
      BY <2>1, <3>1
    <3> QED BY <1>1, <3>2
  <2> QED BY <2>1, <2>2, <2>3, <2>4
<1>3. r \in Processes
  BY <1>2 DEF Fields
<1>4. Sane(r)
  BY <1>0, <1>2 DEF Sane, Fields
<1>5. Lone \/ r.fresh => Paired(r)
  BY <1>0, <1>2 DEF Paired, Fields
<1>6. ASSUME Lone, p = "run" PROVE OfRun(r, file', nl', Hasty)
  <2>1. PICK g : Holds(q, file, nl, g, Hasty)
    BY <1>6, ProcOf DEF OfRun
  <2>2. q.pc \notin {"idle", "ended"} /\ OneBy(q.mem, q.by) /\ q.by \in Sessions /\ q.degraded \in BOOLEAN
    BY <2>1, ProcOf DEF Holds
  <2>3. /\ Recalls(Append(Begun(q), m), Append(g, m), q.degraded)
        /\ Whole(Append(g, m)) /\ OneBy(Append(g, m), q.by)
        /\ FileSays("newline", Written(m), FALSE, Append(g, m), Hasty)
    <3>1. Ready(q, g, m)
      BY <1>6, <2>1, <2>2, HastyIs, Typed DEF Ready
    <3> QED BY <3>1, Wrote DEF Ahead
  <2>4. Begun(r) = Append(Begun(q), m) /\ r.degraded = q.degraded /\ r.pc = "newline" /\ r.then = next
        /\ r.mem = q.mem /\ r.by = q.by
    BY <1>0, <1>2, <1>6, <2>2 DEF Begun, Fields
  <2>5. next \notin {"idle", "ended"}
    BY <1>6 DEF Nexts
  <2> HIDE DEF q
  <2>6. Holds(r, Written(m), FALSE, Append(g, m), Hasty)
    BY <2>2, <2>3, <2>4, <2>5 DEF Holds
  <2> QED BY <1>1, <2>6 DEF OfRun
<1>7. file' \in Lines /\ nl' \in BOOLEAN
  BY <1>1, WrittenIs, Typed
<1> HIDE DEF q
<1> QED BY <1>1, <1>2, <1>3, <1>4, <1>5, <1>6, <1>7, StepDone, Typed

LEMMA OneMessageMore ==
  ASSUME NEW ms \in Seq(Msgs), NEW m \in Msgs, pairs_intact(ms), m.kind # "result"
  PROVE  /\ ms \o <<m>> = Append(ms, m) /\ Linked(Append(ms, m)) /\ Append(ms, m) \in Seq(Msgs)
         /\ ~Asks(m) => pairs_intact(Append(ms, m))
<1>1. ms \o <<m>> = Append(ms, m) /\ Append(ms, m) \in Seq(Msgs)
  OBVIOUS
<1>2. Linked(ms) /\ ~Waits(ms)
  BY PairedIsLinked
<1>3. Linked(Append(ms, m))
  BY <1>2, LinkedGrows DEF Follows
<1>4. Waits(Append(ms, m)) <=> Asks(m)
  BY WaitsAfter
<1> QED BY <1>1, <1>3, <1>4, PairedIsLinked

LEMMA Answered ==
  ASSUME NEW ms \in Seq(Msgs), NEW m \in Msgs, Linked(ms), Waits(ms), Answers(m, ms[Len(ms)])
  PROVE  /\ ms \o <<m>> = Append(ms, m) /\ Linked(Append(ms, m)) /\ Append(ms, m) \in Seq(Msgs)
         /\ pairs_intact(Append(ms, m))
<1>1. ms \o <<m>> = Append(ms, m) /\ Append(ms, m) \in Seq(Msgs)
  OBVIOUS
<1>2. Linked(Append(ms, m))
  BY LinkedGrows DEF Follows
<1>3. ~Asks(m)
  BY DEF Answers, Asks
<1>4. Waits(Append(ms, m)) <=> Asks(m)
  BY WaitsAfter
<1> QED BY <1>1, <1>2, <1>3, <1>4, PairedIsLinked

\* What a lone run remembers.
LEMMA LoneRun ==
  ASSUME RunsAlone, SessionInv, NEW p \in world.procs, Lone
  PROVE  /\ p = "run" /\ proc[p].pc \notin {"idle", "ended"}
         /\ proc[p].pc \in {"cut", "repair", "trim0", "first", "top", "call", "edit", "trim"}
              => /\ Linked(proc[p].mem) /\ OneBy(proc[p].mem, proc[p].by) /\ Begun(proc[p]) = proc[p].mem
         /\ proc[p].pc = "tools"
              => /\ Begun(proc[p]) = proc[p].mem \o proc[p].reply
                 /\ Linked(Begun(proc[p])) /\ OneBy(proc[p].mem, proc[p].by)
<1> DEFINE q == proc[p]
<1>1. PICK g : Holds(q, file, nl, g, Hasty)
  BY ProcOf DEF OfRun
<1>2. p = "run" /\ q.degraded \in BOOLEAN
  BY ProcOf
<1>3. q.pc \notin {"off", "load"} => Linked(Begun(q)) /\ OneBy(q.mem, q.by)
  <2>1. ASSUME q.pc \notin {"off", "load"} PROVE Linked(Begun(q)) /\ OneBy(q.mem, q.by)
    <3>1. g \in Seq(Msgs) /\ Linked(g) /\ Recalls(Begun(q), g, q.degraded) /\ OneBy(q.mem, q.by)
      BY <1>1, <2>1 DEF Holds, Whole
    <3>2. Linked(Begun(q)) <=> Linked(g)
      BY <1>2, <3>1, RecallsIs
    <3> QED BY <3>1, <3>2
  <2> QED BY <2>1
<1> QED BY <1>1, <1>2, <1>3 DEF Holds, Begun

\* ... and, unless it has been killed before a newline, finds in the file.
LEMMA AloneRun ==
  ASSUME RunsAlone, SessionInv, NEW p \in world.procs, Alone,
         proc[p].pc \in {"repair", "trim0", "first", "top", "call", "tools", "edit", "trim"}
  PROVE  /\ file \in Seq(Msgs) /\ nl = TRUE /\ Linked(file) /\ OneBy(file, proc[p].by)
         /\ Recalls(Begun(proc[p]), file, proc[p].degraded)
<1>1. PICK g : Holds(proc[p], file, nl, g, Hasty)
  BY ProcOf, HastyIs DEF OfRun
<1>2. nl \in BOOLEAN /\ ~Hasty
  BY Typed, HastyIs
<1> QED BY <1>1, <1>2 DEF Holds, FileSays, Whole

LEMMA PairsAt ==
  ASSUME RunsAlone, SessionInv, NEW p \in world.procs, Lone \/ proc[p].fresh,
         proc[p].pc \in {"trim0", "first", "idle", "top", "call", "tools", "ended", "edit", "trim"}
  PROVE  pairs_intact(proc[p].mem)
BY ProcOf DEF Paired

LEMMA CutTornKeeps ==
  ASSUME RunsAlone, SessionInv, world' = world, NEW p \in world.procs, CutTorn(p)
  PROVE  SessionInv'
<1>1. proc[p].pc = "cut" /\ Rewrite(p, proc[p].mem, "repair") /\ ids' = ids
  BY DEF CutTorn, At, Rewrite
<1>2. proc[p].mem \in Seq(Msgs) /\ ~proc[p].fresh
  BY <1>1, ProcOf DEF Sane
<1>3. Lone => Linked(proc[p].mem) /\ OneBy(proc[p].mem, proc[p].by)
  BY <1>1, LoneRun
<1> QED BY <1>1, <1>2, <1>3, RewriteKeeps

LEMMA RepairKeeps ==
  ASSUME RunsAlone, SessionInv, world' = world, NEW p \in world.procs, repair_interrupted_tools(p)
  PROVE  SessionInv'
<1> DEFINE q == proc[p]
<1>0. q.pc = "repair" /\ ~q.fresh /\ q.mem \in Seq(Msgs) /\ q.by \in Sessions
  BY ProcOf DEF repair_interrupted_tools, At, Sane
<1>1. CASE Unanswered(q.mem) = {} /\ Goto(p, "trim0") /\ UNCHANGED <<file, nl, archived, starts, ids>>
  <2>1. ASSUME Lone PROVE pairs_intact(q.mem)
    BY <1>0, <1>1, <2>1, LoneRun, UnansweredIsLast, PairedIsLinked
  <2> QED BY <1>0, <1>1, <2>1, GotoKeeps
<1>2. ASSUME NEW id \in Unanswered(q.mem), NEW m, m = Result(q.by, id), AppendLine(p, m, <<m>>, "trim0"), ids' = ids
      PROVE  SessionInv'
  <2>1. m \in Msgs /\ m.kind = "result" /\ m.id = id /\ m.by = q.by /\ ~m.image
    <3>1. id \in 0..MaxIds
      <4>1. PICK i \in 1..Len(q.mem) : id = q.mem[i].id
        BY DEF Unanswered
      <4>2. q.mem[i] \in Msgs
        BY <1>0, <4>1
      <4> QED BY <4>1, <4>2, MsgsAre
    <3> QED BY <1>0, <1>2, <3>1, MsgsAre DEF Result
  <2>2. ASSUME Lone
        PROVE  /\ pairs_intact(q.mem \o <<m>>) /\ q.mem \o <<m>> = Append(Begun(q), m)
               /\ Linked(Append(Begun(q), m))
    <3>1. Linked(q.mem) /\ Begun(q) = q.mem
      BY <1>0, <2>2, LoneRun
    <3>2. Waits(q.mem) /\ id = q.mem[Len(q.mem)].id
      BY <1>0, <3>1, UnansweredIsLast
    <3>3. Answers(m, q.mem[Len(q.mem)])
      BY <2>1, <3>2 DEF Answers, Waits
    <3> QED BY <1>0, <2>1, <3>1, <3>2, <3>3, Answered
  <2>3. <<m>> \in Seq(Msgs) /\ "trim0" \in Nexts \ {"tools"}
    BY <2>1 DEF Nexts
  <2> HIDE DEF q
  <2>4. /\ AppendLine(p, m, <<m>>, "trim0") /\ ids' = ids /\ ~q.fresh /\ q.pc = "repair"
        /\ Lone => /\ pairs_intact(q.mem \o <<m>>) /\ q.mem \o <<m>> = Append(Begun(q), m)
                   /\ Linked(Append(Begun(q), m)) /\ m.by = q.by /\ (q.degraded => ~m.image)
    BY <1>0, <1>2, <2>1, <2>2
  <2> QED BY <2>1, <2>3, <2>4, AppendKeeps DEF q
<1> QED BY <1>1, <1>2 DEF repair_interrupted_tools

\* What a trim cuts out, and what is left.
Trimmed(p, gone, heads) == Spliced(proc[p].mem, gone, heads, Marker(proc[p].by))

LEMMA TrimsAre ==
  ASSUME RunsAlone, SessionInv, NEW p \in world.procs, NEW next, Trims(p, next)
  PROVE  \E gone \in SUBSET (2..Len(proc[p].mem)) : \E heads \in SUBSET gone :
            /\ gone # {} /\ Runs(gone, heads)
            /\ Trimmed(p, gone, heads) \in Seq(Msgs) /\ Rewrite(p, Trimmed(p, gone, heads), next)
            /\ OneBy(proc[p].mem, proc[p].by) => OneBy(Trimmed(p, gone, heads), proc[p].by)
            /\ pairs_intact(proc[p].mem) => pairs_intact(Trimmed(p, gone, heads))
<1> DEFINE ms == proc[p].mem  s == proc[p].by
<1>0. ms \in Seq(Msgs) /\ Len(ms) \in Nat /\ s \in Sessions /\ Keep \in Nat /\ Keep # 0
  BY ProcOf, Constants
<1>1. PICK gone \in SUBSET (2..Len(ms) - Keep) : \E heads \in SUBSET gone :
        /\ gone # {} /\ Runs(gone, heads) /\ PairingSafe(ms, gone, heads)
        /\ Rewrite(p, Trimmed(p, gone, heads), next)
  BY DEF Trims, Trimmed
<1>7. PICK heads \in SUBSET gone :
        /\ gone # {} /\ Runs(gone, heads) /\ PairingSafe(ms, gone, heads)
        /\ Rewrite(p, Trimmed(p, gone, heads), next)
  BY <1>1
<1>2. gone \subseteq 2..Len(ms) /\ Len(ms) \notin gone
  <2> HIDE DEF ms
  <2>1. \A i \in 2..Len(ms) - Keep : i \in 2..Len(ms) /\ i # Len(ms)
    BY <1>0
  <2> QED BY <2>1
<1>3. Marker(s) \in Msgs /\ Marker(s).by = s
  BY <1>0, MsgsAre DEF Marker
<1>4. Trimmed(p, gone, heads) = Spliced(ms, gone, heads, Marker(s))
  BY DEF Trimmed
<1> HIDE DEF ms, s
<1>5. /\ Spliced(ms, gone, heads, Marker(s)) \in Seq(Msgs)
      /\ OneBy(ms, s) => OneBy(Spliced(ms, gone, heads, Marker(s)), s)
  BY <1>0, <1>2, <1>3, SplicedTypes
<1>6. ASSUME pairs_intact(ms) PROVE pairs_intact(Spliced(ms, gone, heads, Marker(s)))
  BY <1>0, <1>7, <1>2, <1>6, SplicedPairs
<1> QED BY <1>7, <1>2, <1>4, <1>5, <1>6 DEF ms, s

LEMMA TrimsKeeps ==
  ASSUME RunsAlone, SessionInv, world' = world, NEW p \in world.procs,
         NEW next \in {"first", "idle", "top", "trim"}, Lone => next # "idle",
         proc[p].pc \in {"trim0", "trim"}, Trims(p, next) \/ NoTrim(p, next), ids' = ids
  PROVE  SessionInv'
<1> DEFINE q == proc[p]
<1>0. /\ Lone \/ q.fresh => pairs_intact(q.mem)
      /\ Lone => OneBy(q.mem, q.by)
  BY PairsAt, LoneRun
<1>1. CASE NoTrim(p, next)
  BY <1>0, <1>1, GotoKeeps DEF NoTrim
<1>2. CASE Trims(p, next)
  <2>1. PICK c \in Seq(Msgs) : /\ Rewrite(p, c, next) /\ (OneBy(q.mem, q.by) => OneBy(c, q.by))
                               /\ pairs_intact(q.mem) => pairs_intact(c)
    BY <1>2, TrimsAre
  <2>2. pairs_intact(c) => Linked(c)
    BY PairedIsLinked
  <2> QED BY <1>0, <2>1, <2>2, RewriteKeeps
<1> QED BY <1>1, <1>2

LEMMA ResumeTrimKeeps ==
  ASSUME RunsAlone, SessionInv, world' = world, NEW p \in world.procs, ResumeTrim(p), ids' = ids
  PROVE  SessionInv'
<1> DEFINE next == IF p = "chat" THEN "idle" ELSE IF proc[p].mem = <<>> THEN "first" ELSE "top"
<1>1. proc[p].pc = "trim0" /\ (Trims(p, next) \/ NoTrim(p, next))
  BY DEF ResumeTrim, At
<1>2. next \in {"first", "idle", "top", "trim"} /\ (Lone => next # "idle")
  BY LoneRun
<1> HIDE DEF next
<1> QED BY <1>1, <1>2, TrimsKeeps

LEMMA LoopTrimKeeps ==
  ASSUME RunsAlone, SessionInv, world' = world, NEW p \in world.procs, LoopTrim(p), ids' = ids
  PROVE  SessionInv'
<1>1. proc[p].pc = "trim" /\ (Trims(p, "top") \/ NoTrim(p, "top"))
  BY DEF LoopTrim, At
<1> QED BY <1>1, TrimsKeeps

\* A message of plain text.
LEMMA TextKeeps ==
  ASSUME RunsAlone, SessionInv, world' = world, NEW p \in world.procs,
         NEW next \in {"top", "idle", "trim"}, Lone => next # "idle",
         proc[p].pc \in {"first", "idle", "top", "ended", "edit"},
         NEW m, m = Text(proc[p].by), AppendLine(p, m, <<m>>, next), ids' = ids
  PROVE  SessionInv'
<1> DEFINE q == proc[p]
<1>1. q.mem \in Seq(Msgs) /\ m \in Msgs /\ m.kind # "result" /\ ~Asks(m) /\ m.by = q.by /\ ~m.image
  BY ProcOf, MsgsAre DEF Text, Asks
<1>2. Lone \/ q.fresh => pairs_intact(q.mem)
  BY PairsAt
<1>3. /\ Lone \/ q.fresh => pairs_intact(q.mem \o <<m>>)
      /\ Lone => q.mem \o <<m>> = Append(q.mem, m) /\ Linked(Append(q.mem, m))
  BY <1>1, <1>2, OneMessageMore
<1>4. Lone => Begun(q) = q.mem
  BY LoneRun
<1>5. <<m>> \in Seq(Msgs) /\ next \in Nexts \ {"tools"} /\ next # "edit"
  BY <1>1 DEF Nexts
<1> HIDE DEF q
<1>6. /\ AppendLine(p, m, <<m>>, next) /\ ids' = ids
      /\ Lone \/ q.fresh => pairs_intact(q.mem \o <<m>>)
      /\ Lone => /\ next # "idle" /\ q.mem \o <<m>> = Append(Begun(q), m)
                 /\ Linked(Append(Begun(q), m)) /\ m.by = q.by /\ (q.degraded => ~m.image)
  BY <1>1, <1>3, <1>4
<1> QED BY <1>1, <1>5, <1>6, AppendKeeps DEF q

LEMMA SayKeeps ==
  ASSUME RunsAlone, SessionInv, world' = world, NEW p \in world.procs,
         First(p) \/ Objective(p) \/ Note(p) \/ Advise(p)
  PROVE  SessionInv'
<1>1. PICK from \in {"first", "idle", "top", "ended"}, next \in {"top", "idle"} :
        Say(p, from, next) /\ (next = "idle" => from = "ended")
  BY DEF First, Objective, Note, Advise
<1>2. proc[p].pc = from /\ ids' = ids
  BY <1>1 DEF Say, At
<1>3. PICK m : m = Text(proc[p].by) /\ AppendLine(p, m, <<m>>, next)
  BY <1>1 DEF Say
<1>4. Lone => next # "idle"
  BY <1>1, <1>2, LoneRun
<1> QED BY <1>2, <1>3, <1>4, TextKeeps

\* An edit of the mirror, and what it leaves.
Legal(q, gone, turned, body) ==
    /\ gone \subseteq 2..Len(q.mirror) /\ turned \subseteq 2..Len(q.mirror) /\ gone \cup turned # {}
    /\ body \in [turned -> Bodies] /\ \A i \in turned : Role(body[i]) = Role(q.mirror[i])
    /\ q.mirror # <<>> => q.mirror[1] = q.mem[1]

Candidate(q, kept, gone) == Spliced(kept, gone, Firsts(gone), Marker(q.by))

EditOf(p, gone, turned, body) ==
    LET c == Candidate(proc[p], Edited(proc[p], turned, body), gone)
    IN  Legal(proc[p], gone, turned, body) /\ pairs_intact(c) /\ Rewrite(p, c, "trim")

Legally(p) == \E gone, turned, body : EditOf(p, gone, turned, body)

Noted(p) == \E m : m = Text(proc[p].by) /\ AppendLine(p, m, <<m>>, "trim") /\ ids' = ids

LEMMA CtxEditIs ==
  ASSUME RunsAlone, SessionInv, NEW p \in world.procs, CtxEdit(p)
  PROVE  NoTrim(p, "trim") \/ Legally(p) \/ Noted(p)
<1> DEFINE q == proc[p]  shown == 1..Len(q.mirror)  free == {i \in shown : ~pinned(q.mem, i)}
<1>0. q.mirror \in Seq(Msgs) /\ Len(q.mirror) \in Nat /\ (q.mirror = <<>> <=> Len(q.mirror) = 0)
  BY ProcOf, EmptyIs
<1>1. free \subseteq 2..Len(q.mirror) /\ 1 \notin free
  BY <1>0 DEF pinned
<1>2. ASSUME \A i \in shown \ free : q.mirror[i] = q.mem[i],
             NEW gone \in SUBSET free, NEW turned \in SUBSET (free \ gone), NEW body \in [turned -> Bodies],
             gone \cup turned # {}, \A i \in turned : Role(body[i]) = Role(q.mirror[i])
      PROVE  Legal(q, gone, turned, body)
  <2>1. q.mirror # <<>> => 1 \in shown
    BY <1>0
  <2> QED BY <1>1, <1>2, <2>1 DEF Legal
<1> DEFINE Edit(gone, turned, body) ==
             /\ gone \cup turned # {} /\ \A i \in turned : Role(body[i]) = Role(q.mirror[i])
             /\ pairs_intact(Candidate(q, Edited(q, turned, body), gone))
             /\ Rewrite(p, Candidate(q, Edited(q, turned, body), gone), "trim")
           OneOf == /\ \A i \in shown \ free : q.mirror[i] = q.mem[i]
                    /\ \E gone \in SUBSET free : \E turned \in SUBSET (free \ gone) :
                         \E body \in [turned -> Bodies] : Edit(gone, turned, body)
<1>3. NoTrim(p, "trim") \/ OneOf \/ (AppendLine(p, Text(q.by), <<Text(q.by)>>, "trim") /\ ids' = ids)
  BY DEF CtxEdit, EditPairs, Candidate
<1>4. AppendLine(p, Text(q.by), <<Text(q.by)>>, "trim") /\ ids' = ids => Noted(p)
  BY DEF Noted
<1>5. OneOf => Legally(p)
  <2>0. SUFFICES ASSUME OneOf PROVE Legally(p)
    OBVIOUS
  <2> HIDE DEF Edit, free, shown
  <2>1. PICK gone \in SUBSET free : \E turned \in SUBSET (free \ gone) :
                         \E body \in [turned -> Bodies] : Edit(gone, turned, body)
    BY <2>0
  <2>2. PICK turned \in SUBSET (free \ gone) : \E body \in [turned -> Bodies] : Edit(gone, turned, body)
    BY <2>1
  <2>3. PICK body \in [turned -> Bodies] : Edit(gone, turned, body)
    BY <2>2
  <2>4. Legal(q, gone, turned, body)
    BY <1>2, <2>0, <2>3 DEF Edit
  <2>5. EditOf(p, gone, turned, body)
    BY <2>3, <2>4 DEF Edit, EditOf
  <2> QED BY <2>5 DEF Legally
<1> HIDE DEF OneOf
<1> QED BY <1>3, <1>4, <1>5

LEMMA ByIs ==
  ASSUME NEW m \in Msgs, NEW s \in Sessions
  PROVE  [m EXCEPT !.by = s] \in Msgs /\ [m EXCEPT !.by = s].by = s /\ Role([m EXCEPT !.by = s]) = Role(m)
BY DEF Msgs, Message, Role

\* Whose they are and what role they have an edit does not touch.
LEMMA EditedIs ==
  ASSUME NEW q \in Processes, Mirrors(q.mirror, q.mem), NEW gone, NEW turned, NEW body,
         Legal(q, gone, turned, body)
  PROVE  /\ Edited(q, turned, body) \in Seq(Msgs) /\ Twins(Edited(q, turned, body), q.mem)
         /\ gone \subseteq 2..Len(q.mem) /\ q.mem # <<>>
         /\ Edited(q, turned, body)[1] = q.mem[1] /\ Edited(q, turned, body) # <<>>
<1> DEFINE ms == q.mem  mi == q.mirror  k == Edited(q, turned, body)
<1>0. /\ ms \in Seq(Msgs) /\ mi \in Seq(Msgs) /\ Len(ms) \in Nat /\ Len(mi) \in Nat /\ Len(mi) <= Len(ms)
      /\ \A i \in 1..Len(ms) : ms[i] \in Msgs
      /\ \A i \in 1..Len(mi) : mi[i] \in Msgs /\ Bare(mi[i]) = Bare(ms[i])
  BY DEF Processes, Mirrors
<1>1. /\ gone \subseteq 2..Len(mi) /\ turned \subseteq 2..Len(mi) /\ gone \cup turned # {}
      /\ body \in [turned -> Bodies] /\ \A i \in turned : Role(body[i]) = Role(mi[i])
      /\ mi # <<>> => mi[1] = ms[1]
  BY DEF Legal
<1>2. \A i \in 1..Len(ms) : k[i] = IF i \in turned THEN [body[i] EXCEPT !.by = mi[i].by]
                                   ELSE IF i <= Len(mi) THEN mi[i] ELSE ms[i]
  BY DEF Edited
<1>3. k = [i \in 1..Len(ms) |-> k[i]]
  BY DEF Edited
<1> HIDE DEF k, ms, mi
<1>4. \A i \in 1..Len(mi) : i \in 1..Len(ms)
  BY <1>0
<1>5. \A i \in 1..Len(mi) : mi[i].by = ms[i].by /\ Role(mi[i]) = Role(ms[i]) /\ mi[i].by \in Sessions
  <2>1. ASSUME NEW i \in 1..Len(mi) PROVE mi[i].by = ms[i].by /\ mi[i].kind = ms[i].kind /\ mi[i].by \in Sessions
    <3>1. mi[i] \in Msgs /\ ms[i] \in Msgs /\ Bare(mi[i]) = Bare(ms[i])
      BY <1>0, <1>4
    <3> QED BY <3>1, MsgsAre
  <2> QED BY <2>1 DEF Role
<1>6. ASSUME NEW i \in 1..Len(ms) PROVE k[i] \in Msgs /\ k[i].by = ms[i].by /\ Role(k[i]) = Role(ms[i])
  <2>1. CASE i \in turned
    <3>1. i \in 1..Len(mi) /\ body[i] \in Msgs
      BY <1>0, <1>1, <2>1, Constants
    <3>2. /\ [body[i] EXCEPT !.by = mi[i].by] \in Msgs /\ [body[i] EXCEPT !.by = mi[i].by].by = mi[i].by
          /\ Role([body[i] EXCEPT !.by = mi[i].by]) = Role(body[i])
      BY <1>5, <3>1, ByIs
    <3> QED BY <1>1, <1>2, <1>5, <2>1, <3>1, <3>2
  <2>2. CASE i \notin turned /\ i <= Len(mi)
    <3>1. i \in 1..Len(mi)
      BY <1>0, <2>2
    <3> QED BY <1>0, <1>2, <1>5, <2>2, <3>1
  <2>3. CASE i \notin turned /\ ~(i <= Len(mi))
    BY <1>0, <1>2, <2>3
  <2> QED BY <2>1, <2>2, <2>3
<1>7. k \in [1..Len(ms) -> Msgs]
  BY <1>3, <1>6
<1>8. k \in Seq(Msgs) /\ Len(k) = Len(ms)
  BY <1>0, <1>7
<1>9. Twins(k, ms)
  BY <1>6, <1>8 DEF Twins
<1>10. Len(mi) >= 2 /\ mi # <<>> /\ 1 \in 1..Len(ms) /\ 1 \notin turned /\ 1 <= Len(mi)
  <2>1. PICK i : i \in 2..Len(mi)
    BY <1>1
  <2>2. Len(mi) >= 2
    BY <1>0, <2>1
  <2> QED BY <1>0, <1>1, <2>2, EmptyIs
<1>11. k[1] = ms[1]
  BY <1>1, <1>2, <1>10
<1>12. ms # <<>> /\ k # <<>>
  BY <1>0, <1>8, <1>10, EmptyIs
<1>13. \A i \in 2..Len(mi) : i \in 2..Len(ms)
  BY <1>0
<1> QED BY <1>1, <1>8, <1>9, <1>11, <1>12, <1>13 DEF k, ms

LEMMA CtxEditKeeps ==
  ASSUME RunsAlone, SessionInv, world' = world, NEW p \in world.procs, CtxEdit(p)
  PROVE  SessionInv'
<1> DEFINE q == proc[p]
<1>0. /\ q \in Processes /\ q.mem \in Seq(Msgs) /\ q.by \in Sessions /\ q.pc = "edit" /\ Mirrors(q.mirror, q.mem)
      /\ Lone \/ q.fresh => pairs_intact(q.mem)
      /\ Lone => OneBy(q.mem, q.by)
  BY ProcOf, PairsAt, LoneRun DEF CtxEdit, At, Sane
<1>1. CASE NoTrim(p, "trim")
  BY <1>0, <1>1, GotoKeeps DEF NoTrim
<1>2. ASSUME NEW gone, NEW turned, NEW body, Legal(q, gone, turned, body),
             NEW c, c = Candidate(q, Edited(q, turned, body), gone), pairs_intact(c), Rewrite(p, c, "trim")
      PROVE  SessionInv'
  <2>1. PICK k \in Seq(Msgs) : k = Edited(q, turned, body)
    BY <1>0, <1>2, EditedIs
  <2>2. Twins(k, q.mem) /\ gone \subseteq 2..Len(k)
    BY <1>0, <1>2, <2>1, EditedIs DEF Twins
  <2>3. Lone => OneBy(k, q.by)
    BY <1>0, <2>2 DEF Twins, OneBy
  <2>4. Marker(q.by) \in Msgs /\ Marker(q.by).by = q.by
    BY <1>0, MsgsAre DEF Marker
  <2>5. c \in Seq(Msgs) /\ (OneBy(k, q.by) => OneBy(c, q.by))
    <3>1. c = Spliced(k, gone, Firsts(gone), Marker(q.by))
      BY <1>2, <2>1 DEF Candidate
    <3>2. PICK heads : heads = Firsts(gone)
      OBVIOUS
    <3>3. PICK m, s : m \in Msgs /\ m = Marker(q.by) /\ s = q.by
      BY <2>4
    <3>4. /\ Spliced(k, gone, heads, m) \in Seq(Msgs)
          /\ OneBy(k, s) /\ m.by = s => OneBy(Spliced(k, gone, heads, m), s)
      BY <2>2, <3>3, SplicedTypes
    <3> QED BY <2>4, <3>1, <3>2, <3>3, <3>4
  <2>6. Linked(c)
    BY <1>2, <2>5, PairedIsLinked
  <2>7. ids' = ids
    BY <1>2 DEF Rewrite
  <2> QED BY <1>2, <2>3, <2>5, <2>6, <2>7, RewriteKeeps
<1>3. ASSUME NEW m, m = Text(q.by), AppendLine(p, m, <<m>>, "trim"), ids' = ids
      PROVE  SessionInv'
  BY <1>0, <1>3, TextKeeps
<1>4. CASE Legally(p)
  <2>1. PICK gone, turned, body : EditOf(p, gone, turned, body)
    BY <1>4 DEF Legally
  <2>2. PICK c : c = Candidate(q, Edited(q, turned, body), gone)
    OBVIOUS
  <2>3. Legal(q, gone, turned, body) /\ pairs_intact(c) /\ Rewrite(p, c, "trim")
    BY <2>1, <2>2 DEF EditOf
  <2> QED BY <1>2, <2>2, <2>3
<1>5. CASE Noted(p)
  <2>1. PICK m : m = Text(q.by) /\ AppendLine(p, m, <<m>>, "trim") /\ ids' = ids
    BY <1>5 DEF Noted
  <2> QED BY <1>3, <2>1
<1> QED BY <1>1, <1>4, <1>5, CtxEditIs

LEMMA StopKeeps ==
  ASSUME RunsAlone, SessionInv, world' = world, NEW p \in world.procs, Stop(p)
  PROVE  SessionInv'
<1>1. proc[p].pc \in {"top", "idle"} /\ UNCHANGED <<file, nl, starts, ids>>
  BY DEF Stop, At
<1>2. CASE p = "chat" /\ proc[p].pc = "top"
  <2>1. Goto(p, "idle")
    <3>1. proc' = [proc EXCEPT ![p] = [proc[p] EXCEPT !.pc = "idle"]]
      BY <1>2 DEF Stop, At
    <3> QED BY <3>1 DEF Goto
  <2>2. (Lone \/ proc[p].fresh => pairs_intact(proc[p].mem)) /\ ~Lone
    BY <1>1, <1>2, PairsAt, LoneRun
  <2>3. PICK l \in {"trim0", "first", "idle", "top", "trim"} : l = "idle"
    OBVIOUS
  <2> QED BY <1>1, <1>2, <2>1, <2>2, <2>3, GotoKeeps
<1>3. CASE ~(p = "chat" /\ proc[p].pc = "top")
  <2>1. proc' = [proc EXCEPT ![p] = Off]
    BY <1>3 DEF Stop, At
  <2> QED BY <1>1, <2>1, EndsKeeps
<1> QED BY <1>2, <1>3

LEMMA RefusedKeeps ==
  ASSUME RunsAlone, SessionInv, world' = world, NEW p \in world.procs, Refused(p) \/ Dies(p)
  PROVE  SessionInv'
<1>1. proc' = [proc EXCEPT ![p] = Off] /\ UNCHANGED <<file, nl, starts, ids>>
  BY DEF Refused, Dies
<1>2. proc[p].pc = "newline" => Hasty
  BY DEF Refused, Dies, At, Hasty
<1> QED BY <1>1, <1>2, EndsKeeps

LEMMA DiesWritingKeeps ==
  ASSUME RunsAlone, SessionInv, world' = world, NEW p \in world.procs, DiesWriting(p)
  PROVE  SessionInv'
<1>1. /\ proc' = [proc EXCEPT ![p] = Off] /\ UNCHANGED <<starts, ids>>
      /\ nl' = FALSE /\ \E x \in {Garbage, Cut} : file' = Written(x)
      /\ proc[p].pc \in {"first", "idle", "top", "tools", "ended", "edit", "call", "repair"}
  BY DEF DiesWriting, At
<1> QED BY <1>1, EndsKeeps

\* Without its images a history pairs as before.
LEMMA RecallsPairs ==
  ASSUME NEW g \in Seq(Msgs), NEW d \in BOOLEAN, NEW h, Recalls(h, g, d)
  PROVE  pairs_intact(h) <=> pairs_intact(g)
<1>1. /\ h \in Seq(Msgs) /\ Len(h) = Len(g) /\ (Linked(h) <=> Linked(g))
      /\ \A i \in 1..Len(g) : h[i].kind = g[i].kind /\ h[i].id = g[i].id
  BY RecallsIs
<1>2. Waits(h) <=> Waits(g)
  <2>1. (h = <<>> <=> Len(h) = 0) /\ (g = <<>> <=> Len(g) = 0) /\ Len(g) \in Nat
    BY <1>1, EmptyIs
  <2>2. Len(g) # 0 => Len(g) \in 1..Len(g)
    BY <2>1
  <2> QED BY <1>1, <2>1, <2>2 DEF Waits, Asks
<1> QED BY <1>1, <1>2, PairedIsLinked

LEMMA AskKeeps ==
  ASSUME RunsAlone, SessionInv, world' = world, NEW p \in world.procs, Ask(p)
  PROVE  SessionInv'
<1> DEFINE q == proc[p]
<1>0. q \in Processes /\ q.mem \in Seq(Msgs) /\ q.pc = "top" /\ p \in Procs /\ proc \in [Procs -> Processes]
  BY ProcOf, Typed DEF Ask, At
<1>1. PICK l \in Places, b \in Seq(Msgs) : l = "call" /\ b = q.mem
  BY <1>0 DEF Places
<1>3. PICK r : r = [q EXCEPT !.pc = l, !.mirror = b]
  OBVIOUS
<1>4. Fields(r, l, q.mem, q.reply, q.push, q.then, b, q.degraded, q.by, q.fresh)
  <2>1. PICK z \in Processes : z = q
    BY <1>0
  <2>2. Fields([z EXCEPT !.pc = l, !.mirror = b], l, z.mem, z.reply, z.push, z.then, b, z.degraded, z.by, z.fresh)
    BY DEF Processes, Fields
  <2> QED BY <1>3, <2>1, <2>2
<1>5. proc' = [proc EXCEPT ![p] = r] /\ UNCHANGED <<file, nl, starts, ids>>
  BY <1>0, <1>1, <1>3 DEF Ask
<1>6. Sane(r) /\ r \in Processes
  <2>1. Mirrors(b, b)
    BY DEF Mirrors
  <2> QED BY <1>1, <1>4, <2>1 DEF Sane, Fields
<1>7. Lone \/ r.fresh => Paired(r)
  <2>1. Lone \/ q.fresh => pairs_intact(q.mem)
    BY <1>0, PairsAt
  <2> QED BY <1>1, <1>4, <2>1 DEF Paired, Fields
<1>8. ASSUME Lone, p = "run" PROVE OfRun(r, file', nl', Hasty)
  <2>1. PICK g : Holds(q, file, nl, g, Hasty)
    BY <1>8, ProcOf DEF OfRun
  <2>2. FileSays(l, file, nl, g, Hasty)
    BY <1>0, <1>1, <2>1 DEF Holds, FileSays
  <2>3. Begun(r) = q.mem /\ Begun(q) = q.mem
    BY <1>0, <1>1, <1>4 DEF Begun, Fields
  <2>4. Holds(r, file, nl, g, Hasty)
    BY <1>0, <1>1, <1>4, <2>1, <2>2, <2>3 DEF Holds, Fields
  <2> QED BY <1>5, <2>4 DEF OfRun
<1>9. file' \in Lines /\ nl' \in BOOLEAN /\ starts' \in 0..MaxStarts /\ ids' \in Nat
  BY <1>5, Typed
<1> QED BY <1>5, <1>6, <1>7, <1>8, <1>9, StepDone

LEMMA ImagesRefusedKeeps ==
  ASSUME RunsAlone, SessionInv, world' = world, NEW p \in world.procs, ImagesRefused(p)
  PROVE  SessionInv'
<1> DEFINE q == proc[p]
<1>0. /\ q \in Processes /\ q.mem \in Seq(Msgs) /\ q.pc = "call" /\ p \in Procs /\ proc \in [Procs -> Processes]
      /\ pairs_intact(q.mem) /\ Mirrors(q.mirror, q.mem) /\ q.degraded \in BOOLEAN
      /\ UNCHANGED <<file, nl, starts, ids>>
  BY ProcOf, Typed DEF ImagesRefused, At, Sane
<1>1. CASE q.degraded
  <2>1. proc' = [proc EXCEPT ![p] = Off]
    BY <1>1 DEF ImagesRefused
  <2> QED BY <1>0, <2>1, EndsKeeps
<1>2. CASE ~q.degraded
  <2>1. PICK b \in Seq(Msgs), d \in BOOLEAN : b = Bared(q.mem) /\ d = TRUE
    BY <1>0, BaredIs
  <2>2. PICK r : r = [q EXCEPT !.mem = b, !.degraded = d]
    OBVIOUS
  <2>3. Fields(r, q.pc, b, q.reply, q.push, q.then, q.mirror, d, q.by, q.fresh)
    <3>1. PICK z \in Processes : z = q
      BY <1>0
    <3>2. Fields([z EXCEPT !.mem = b, !.degraded = d], z.pc, b, z.reply, z.push, z.then, z.mirror, d, z.by, z.fresh)
      BY DEF Processes, Fields
    <3> QED BY <2>2, <3>1, <3>2
  <2>4. proc' = [proc EXCEPT ![p] = r]
    <3>0. proc' = [proc EXCEPT ![p] = [proc[p] EXCEPT !.mem = Bared(@), !.degraded = TRUE]]
      BY <1>2 DEF ImagesRefused
    <3>2. [proc[p] EXCEPT !.mem = Bared(@), !.degraded = TRUE]
          = [proc[p] EXCEPT !.mem = Bared(proc[p].mem), !.degraded = TRUE]
      BY <1>0 DEF Processes
    <3>1. proc' = [proc EXCEPT ![p] = [proc[p] EXCEPT !.mem = Bared(proc[p].mem), !.degraded = TRUE]]
      BY <3>0, <3>2
    <3> QED BY <1>0, <2>1, <2>2, <3>1 DEF Processes
  <2>5. Recalls(b, q.mem, d)
    BY <2>1 DEF Recalls
  <2>6. Len(b) = Len(q.mem) /\ Len(b) \in Nat /\ \A i \in 1..Len(b) : Bare(b[i]) = Bare(q.mem[i])
    <3>1. /\ Len(b) = Len(q.mem) /\ Len(b) \in Nat
          /\ \A i \in 1..Len(b) : b[i] = Bare(q.mem[i]) /\ q.mem[i] \in Msgs
      BY <1>0, <2>1, BaredIs
    <3> QED BY <3>1, MsgsAre
  <2>7. Mirrors(q.mirror, b)
    <3>1. q.mirror \in Seq(Msgs)
      BY ProcOf
    <3>2. PICK mi \in Seq(Msgs), ms \in Seq(Msgs) : mi = q.mirror /\ ms = q.mem
      BY <1>0, <3>1
    <3>3. Len(mi) \in Nat /\ Len(mi) <= Len(b) /\ \A i \in 1..Len(mi) : i \in 1..Len(b)
      BY <1>0, <2>6, <3>2 DEF Mirrors
    <3> QED BY <1>0, <2>6, <3>2, <3>3 DEF Mirrors
  <2>8. pairs_intact(b)
    BY <1>0, <2>5, RecallsPairs
  <2>9. Sane(r) /\ Paired(r) /\ r \in Processes
    BY <1>0, <2>3, <2>7, <2>8 DEF Sane, Paired, Fields
  <2>10. ASSUME Lone, p = "run" PROVE OfRun(r, file', nl', Hasty)
    <3>1. PICK g : Holds(q, file, nl, g, Hasty)
      BY <2>10, ProcOf DEF OfRun
    <3>2. q.mem = g /\ OneBy(g, q.by) /\ Begun(r) = b
      BY <1>0, <1>2, <2>3, <3>1 DEF Holds, Recalls, Begun, Fields
    <3>3. OneBy(b, q.by)
      BY <1>0, <2>5, <3>2, RecallsIs
    <3>4. Recalls(b, g, d)
      BY <2>5, <3>2
    <3>5. Holds(r, file, nl, g, Hasty)
      BY <1>0, <2>1, <2>3, <3>1, <3>2, <3>3, <3>4 DEF Holds, Fields
    <3> QED BY <1>0, <3>5 DEF OfRun
  <2>11. file' \in Lines /\ nl' \in BOOLEAN /\ starts' \in 0..MaxStarts /\ ids' \in Nat
    BY <1>0, Typed
  <2> QED BY <2>4, <2>9, <2>10, <2>11, StepDone
<1> QED BY <1>0, <1>1, <1>2

LEMMA ReplyKeeps ==
  ASSUME RunsAlone, SessionInv, world' = world, NEW p \in world.procs, Reply(p)
  PROVE  SessionInv'
<1> DEFINE q == proc[p]
<1>0. /\ q \in Processes /\ p \in Procs /\ proc \in [Procs -> Processes] /\ q.pc = "call" /\ q.mem \in Seq(Msgs)
      /\ pairs_intact(q.mem) /\ q.by \in Sessions /\ ids \in Nat /\ q.degraded \in BOOLEAN
      /\ Mirrors(q.mirror, q.mem)
  BY ProcOf, Typed DEF Reply, At, Sane
<1>11. PICK id \in {0, ids + 1} :
        /\ id <= MaxIds /\ ids' = (IF id = 0 THEN ids ELSE id)
        /\ LET m == Asst(q.by, id)
           IN  /\ file' = Written(m) /\ nl' = FALSE /\ starts' = starts
               /\ proc' = [proc EXCEPT ![p].pc = "newline", ![p].push = <<>>,
                                       ![p].then = "tools", ![p].reply = <<m>>]
  BY DEF Reply
<1>1. PICK m :
        /\ id <= MaxIds /\ ids' = (IF id = 0 THEN ids ELSE id) /\ m = Asst(q.by, id)
        /\ file' = Written(m) /\ nl' = FALSE /\ starts' = starts
        /\ proc' = [proc EXCEPT ![p].pc = "newline", ![p].push = <<>>,
                                ![p].then = "tools", ![p].reply = <<m>>]
  BY <1>11
<1>2. m \in Msgs /\ m.kind = "asst" /\ m.by = q.by /\ ~m.image /\ ids' \in Nat
  <2>1. id \in 0..MaxIds /\ ids' \in Nat
    BY <1>0, <1>1, Constants
  <2> QED BY <1>0, <1>1, <2>1, MsgsAre DEF Asst
<1>3. PICK l \in Places, t \in Nexts, e \in Seq(Msgs), o \in Seq(Msgs) :
        l = "newline" /\ t = "tools" /\ e = <<>> /\ o = <<m>>
  <2>1. "newline" \in Places /\ "tools" \in Nexts /\ <<>> \in Seq(Msgs) /\ <<m>> \in Seq(Msgs)
    BY <1>2 DEF Places, Nexts
  <2> QED BY <2>1
<1>4. PICK r : r = [q EXCEPT !.pc = l, !.push = e, !.then = t, !.reply = o]
  OBVIOUS
<1>5. Fields(r, l, q.mem, o, e, t, q.mirror, q.degraded, q.by, q.fresh)
  <2>1. PICK z \in Processes : z = q
    BY <1>0
  <2>2. Fields([z EXCEPT !.pc = l, !.push = e, !.then = t, !.reply = o],
               l, z.mem, o, e, t, z.mirror, z.degraded, z.by, z.fresh)
    BY DEF Processes, Fields
  <2> QED BY <1>4, <2>1, <2>2
<1>6. proc' = [proc EXCEPT ![p] = r]
  <2>1. [proc EXCEPT ![p].pc = l, ![p].push = e, ![p].then = t, ![p].reply = o] = [proc EXCEPT ![p] = r]
    BY <1>0, <1>4
  <2> QED BY <1>1, <1>3, <2>1
<1>7. Sane(r) /\ r \in Processes
  <2>1. Len(o) = 1 /\ o[1].kind = "asst"
    BY <1>2, <1>3
  <2> QED BY <1>0, <1>3, <1>5, <2>1 DEF Sane, Fields
<1>8. Lone \/ r.fresh => Paired(r)
  BY <1>0, <1>3, <1>5 DEF Paired, Fields
<1>9. ASSUME Lone, p = "run" PROVE OfRun(r, file', nl', Hasty)
  <2>1. q.mem \o o = Append(q.mem, m) /\ Linked(Append(q.mem, m))
    BY <1>0, <1>2, <1>3, OneMessageMore
  <2>2. PICK g : Holds(q, file, nl, g, Hasty)
    BY <1>9, ProcOf DEF OfRun
  <2>3. Begun(q) = q.mem /\ OneBy(q.mem, q.by)
    BY <1>0, <2>2 DEF Begun, Holds
  <2>4. Ready(q, g, m)
    BY <1>0, <1>2, <2>1, <2>2, <2>3, HastyIs, Typed DEF Ready
  <2>5. Ahead(q, g, m)
    BY <2>4, Wrote
  <2>6. Begun(r) = Append(Begun(q), m)
    BY <1>3, <1>5, <2>1, <2>3 DEF Begun, Fields
  <2> HIDE DEF q
  <2>7. Holds(r, Written(m), FALSE, Append(g, m), Hasty)
    BY <1>3, <1>5, <2>3, <2>5, <2>6 DEF Holds, Ahead, Fields
  <2> QED BY <1>1, <2>7 DEF OfRun
<1>10. file' \in Lines /\ nl' \in BOOLEAN /\ starts' \in 0..MaxStarts
  BY <1>1, <1>2, WrittenIs, Typed
<1> QED BY <1>2, <1>6, <1>7, <1>8, <1>9, <1>10, StepDone

\* The reply, before it is in memory.
LEMMA ReplyIs ==
  ASSUME RunsAlone, SessionInv, NEW p \in world.procs, proc[p].pc = "tools"
  PROVE  \E a \in Msgs : /\ proc[p].reply = <<a>> /\ proc[p].reply[1] = a /\ a.kind = "asst"
                         /\ Lone \/ proc[p].fresh => pairs_intact(proc[p].mem)
                         /\ Mirrors(proc[p].mirror, proc[p].mem)
<1> DEFINE o == proc[p].reply
<1>1. o \in Seq(Msgs) /\ Len(o) = 1 /\ o[1].kind = "asst" /\ Mirrors(proc[p].mirror, proc[p].mem)
  BY ProcOf DEF Sane
<1>2. Lone \/ proc[p].fresh => pairs_intact(proc[p].mem)
  BY PairsAt
<1> HIDE DEF o
<1>3. o[1] \in Msgs
  <2>1. PICK z \in Nat : z = 1
    OBVIOUS
  <2>2. z \in 1..Len(o) /\ o \in Seq(Msgs)
    BY <1>1, <2>1
  <2>3. o[z] \in Msgs
    BY <2>2
  <2> QED BY <2>1, <2>3
<1>4. o = <<o[1]>>
  <2>1. <<o[1]>> \in Seq(Msgs) /\ Len(<<o[1]>>) = 1 /\ <<o[1]>>[1] = o[1]
    BY <1>3
  <2> DEFINE t == <<o[1]>>
  <2>2. Len(o) = Len(t) /\ \A i \in 1..Len(o) : o[i] = t[i]
    BY <1>1, <2>1
  <2> HIDE DEF t
  <2>3. t \in Seq(Msgs)
    BY <2>1 DEF t
  <2>4. o = t
    BY <1>1, <2>2, <2>3, SeqEqual
  <2> QED BY <2>4 DEF t
<1> QED BY <1>1, <1>2, <1>3, <1>4 DEF o

LEMMA NaturalStopKeeps ==
  ASSUME RunsAlone, SessionInv, world' = world, NEW p \in world.procs, NaturalStop(p)
  PROVE  SessionInv'
<1> DEFINE q == proc[p]
<1>0. /\ q \in Processes /\ p \in Procs /\ proc \in [Procs -> Processes] /\ q.pc = "tools" /\ q.mem \in Seq(Msgs)
      /\ ~Lone
  BY ProcOf, LoneRun, Typed DEF NaturalStop, At
<1>1. PICK a \in Msgs : /\ q.reply = <<a>> /\ a.kind = "asst" /\ ~Asks(a)
                        /\ Lone \/ q.fresh => pairs_intact(q.mem)
  BY <1>0, ReplyIs DEF NaturalStop
<1>2. PICK l \in Places, e \in Seq(Msgs), n \in Seq(Msgs) :
        /\ l \in {"ended", "idle"} /\ e = <<>> /\ n = q.mem \o q.reply
        /\ proc' = [proc EXCEPT ![p].pc = l, ![p].mem = @ \o proc[p].reply, ![p].reply = <<>>, ![p].mirror = <<>>]
  <2>1. "ended" \in Places /\ "idle" \in Places /\ <<>> \in Seq(Msgs) /\ q.mem \o q.reply \in Seq(Msgs)
    BY <1>0, <1>1 DEF Places
  <2>2. PICK cut \in BOOLEAN :
          proc' = [proc EXCEPT ![p].pc = IF cut THEN "ended" ELSE "idle",
                               ![p].mem = @ \o proc[p].reply, ![p].reply = <<>>, ![p].mirror = <<>>]
    BY DEF NaturalStop
  <2> QED BY <2>1, <2>2
<1>3. PICK r : r = [q EXCEPT !.pc = l, !.mem = n, !.reply = e, !.mirror = e]
  OBVIOUS
<1>4. Fields(r, l, n, e, q.push, q.then, e, q.degraded, q.by, q.fresh)
  <2>1. PICK z \in Processes : z = q
    BY <1>0
  <2>2. Fields([z EXCEPT !.pc = l, !.mem = n, !.reply = e, !.mirror = e],
               l, n, e, z.push, z.then, e, z.degraded, z.by, z.fresh)
    BY DEF Processes, Fields
  <2> QED BY <1>3, <2>1, <2>2
<1>5. proc' = [proc EXCEPT ![p] = r]
  <2>1. [proc EXCEPT ![p].pc = l, ![p].mem = @ \o proc[p].reply, ![p].reply = <<>>, ![p].mirror = <<>>]
        = [proc EXCEPT ![p] = [proc[p] EXCEPT !.pc = l, !.mem = proc[p].mem \o proc[p].reply,
                                              !.reply = <<>>, !.mirror = <<>>]]
    BY <1>0
  <2> QED BY <1>2, <1>3, <2>1
<1>6. Sane(r) /\ r \in Processes
  BY <1>2, <1>4 DEF Sane, Fields
<1>7. Lone \/ r.fresh => Paired(r)
  <2>1. pairs_intact(q.mem) => pairs_intact(n)
    BY <1>0, <1>1, <1>2, OneMessageMore, ZenonT(60)
  <2> QED BY <1>0, <1>1, <1>2, <1>4, <2>1 DEF Paired, Fields
<1>8. file' \in Lines /\ nl' \in BOOLEAN /\ starts' \in 0..MaxStarts /\ ids' \in Nat
  BY Typed DEF NaturalStop
<1> QED BY <1>0, <1>5, <1>6, <1>7, <1>8, StepDone

LEMMA TurnDoneKeeps ==
  ASSUME RunsAlone, SessionInv, world' = world, NEW p \in world.procs, TurnDone(p)
  PROVE  SessionInv'
<1> DEFINE q == proc[p]
<1>0. q.pc = "tools" /\ q.mem \in Seq(Msgs) /\ q.by \in Sessions /\ ids' = ids /\ q.degraded \in BOOLEAN
  BY ProcOf DEF TurnDone, At
<1>1. PICK a \in Msgs : /\ q.reply = <<a>> /\ q.reply[1] = a /\ a.kind = "asst"
                        /\ Lone \/ q.fresh => pairs_intact(q.mem)
                        /\ Mirrors(q.mirror, q.mem)
  BY <1>0, ReplyIs
<1>2. \E next \in {"edit"} \cup (IF ~Asks(a) THEN {} ELSE IF p = "run" THEN {"off"} ELSE {"idle"}) :
      \E image \in {FALSE, Asks(a) /\ world.images /\ ~q.degraded} :
         \E m : /\ m = (IF Asks(a) THEN [Result(q.by, a.id) EXCEPT !.image = image] ELSE Text(q.by))
                /\ AppendLine(p, m, <<a>> \o <<m>>, next)
  BY <1>1 DEF TurnDone
<1>9. PICK next, image, m : next \in {"edit", "off", "idle"}
        /\ image \in BOOLEAN /\ (image => ~q.degraded) /\ (next = "idle" => p # "run")
        /\ m = (IF Asks(a) THEN [Result(q.by, a.id) EXCEPT !.image = image] ELSE Text(q.by))
        /\ AppendLine(p, m, <<a>> \o <<m>>, next)
  <2>1. PICK x \in {"edit"} \cup (IF ~Asks(a) THEN {} ELSE IF p = "run" THEN {"off"} ELSE {"idle"}) :
      \E image \in {FALSE, Asks(a) /\ world.images /\ ~q.degraded} :
         \E m : /\ m = (IF Asks(a) THEN [Result(q.by, a.id) EXCEPT !.image = image] ELSE Text(q.by))
                /\ AppendLine(p, m, <<a>> \o <<m>>, x)
    BY <1>2
  <2>2. PICK image \in {FALSE, Asks(a) /\ world.images /\ ~q.degraded} :
         \E m : /\ m = (IF Asks(a) THEN [Result(q.by, a.id) EXCEPT !.image = image] ELSE Text(q.by))
                /\ AppendLine(p, m, <<a>> \o <<m>>, x)
    BY <2>1
  <2>3. PICK m : /\ m = (IF Asks(a) THEN [Result(q.by, a.id) EXCEPT !.image = image] ELSE Text(q.by))
                 /\ AppendLine(p, m, <<a>> \o <<m>>, x)
    BY <2>2
  <2>4. x \in {"edit", "off", "idle"} /\ (x = "idle" => p # "run")
    BY <2>1
  <2>5. image \in BOOLEAN /\ (image => ~q.degraded)
    BY <2>2
  <2> QED BY <2>3, <2>4, <2>5
<1>3. /\ m \in Msgs /\ m.by = q.by /\ ~Asks(m) /\ (Asks(a) => Answers(m, a)) /\ (~Asks(a) => m.kind # "result")
      /\ q.degraded => ~m.image
  <2>1. a.id \in 0..MaxIds
    BY MsgsAre
  <2>2. PICK x \in Msgs : x = Result(q.by, a.id) /\ x.kind = "result" /\ x.id = a.id /\ x.by = q.by
    BY <1>0, <2>1, MsgsAre DEF Result
  <2>3. /\ [x EXCEPT !.image = image] \in Msgs /\ [x EXCEPT !.image = image].kind = x.kind
        /\ [x EXCEPT !.image = image].id = x.id /\ [x EXCEPT !.image = image].by = x.by
        /\ [x EXCEPT !.image = image].image = image
    BY <1>9 DEF Msgs, Message
  <2>4. CASE Asks(a)
    <3>1. m = [x EXCEPT !.image = image]
      BY <1>9, <2>2, <2>4
    <3>2. m \in Msgs /\ m.kind = "result" /\ m.id = a.id /\ m.by = q.by /\ m.image = image
      BY <2>2, <2>3, <3>1
    <3> QED BY <1>9, <2>4, <3>2 DEF Answers, Asks
  <2>5. CASE ~Asks(a)
    <3>1. m = Text(q.by) /\ m.kind = "text" /\ ~m.image /\ m.by = q.by
      BY <1>9, <2>5 DEF Text
    <3>2. m \in Msgs
      BY <1>0, <3>1, MsgsAre
    <3> QED BY <2>5, <3>1, <3>2 DEF Asks
  <2> QED BY <2>4, <2>5
<1> DEFINE b == Append(q.mem, a)  push == <<a>> \o <<m>>
<1>4. b \in Seq(Msgs) /\ push \in Seq(Msgs) /\ q.mem \o push = Append(b, m) /\ q.mem \o <<a>> = b /\ Append(b, m) \in Seq(Msgs)
  <2>1. b \in Seq(Msgs) /\ q.mem \o <<a>> = b
    BY <1>0
  <2>3. <<a>> \in Seq(Msgs) /\ <<m>> \in Seq(Msgs)
    BY <1>3
  <2>2. push \in Seq(Msgs)
    BY <2>3
  <2>6. PICK u \in Seq(Msgs), v \in Seq(Msgs), w \in Seq(Msgs) : u = <<a>> /\ v = <<m>> /\ w = q.mem
    BY <1>0, <2>3
  <2>7. (w \o u) \o v = w \o (u \o v)
    BY ConcatAssociative
  <2>4. q.mem \o push = b \o <<m>>
    BY <2>1, <2>6, <2>7
  <2> HIDE DEF b, push
  <2>5. b \o <<m>> = Append(b, m) /\ Append(b, m) \in Seq(Msgs)
    BY <1>3, <2>1
  <2> QED BY <2>1, <2>2, <2>4, <2>5
<1>5. ASSUME Lone \/ q.fresh
      PROVE  pairs_intact(q.mem \o push) /\ Linked(Append(b, m))
  <2>1. Linked(b) /\ (~Asks(a) => pairs_intact(b)) /\ (Waits(b) <=> Asks(a))
    BY <1>0, <1>1, <1>5, OneMessageMore, WaitsAfter
  <2>2. CASE Asks(a)
    <3>1. b[Len(b)] = a
      BY <1>0
    <3> HIDE DEF b
    <3> QED BY <1>3, <1>4, <2>1, <2>2, <3>1, Answered
  <2>3. CASE ~Asks(a)
    BY <1>3, <1>4, <2>1, <2>3, OneMessageMore
  <2> QED BY <2>2, <2>3
<1>6. Lone => Begun(q) = b /\ p = "run"
  BY <1>0, <1>1, <1>4, LoneRun
<1>7. next \in Nexts \ {"tools"}
  BY <1>9 DEF Nexts
<1> HIDE DEF q, b, push
<1>8. /\ AppendLine(p, m, push, next) /\ ids' = ids /\ Mirrors(q.mirror, q.mem)
      /\ Lone \/ q.fresh => pairs_intact(q.mem \o push)
      /\ Lone => /\ next # "idle" /\ q.mem \o push = Append(Begun(q), m)
                 /\ Linked(Append(Begun(q), m)) /\ m.by = q.by /\ (q.degraded => ~m.image)
  BY <1>0, <1>1, <1>3, <1>4, <1>5, <1>6, <1>9 DEF push
<1> QED BY <1>0, <1>3, <1>4, <1>7, <1>8, AppendKeeps DEF q

LEMMA LoadedIs ==
  ASSUME file \in Lines, ~Corrupt
  PROVE  Loaded \in Seq(Msgs)
<1> DEFINE L == Msgs \cup {Garbage, Cut}  c == Loaded
<1>1. file \in Seq(L) /\ Len(file) \in Nat /\ (file = <<>> <=> Len(file) = 0) /\ \A i \in 1..Len(file) : file[i] \in L
  <2>1. file \in Seq(L)
    BY DEF Lines
  <2> HIDE DEF L
  <2> QED BY <2>1
<1>2. \A i \in 1..Len(file) : file[i] # Cut /\ (i < Len(file) => file[i] # Garbage)
  BY DEF Corrupt
<1>6. ~EndsIn(Cut)
  <2>1. file # <<>> => Len(file) \in 1..Len(file)
    BY <1>1
  <2> QED BY <1>2, <2>1 DEF EndsIn
<1>3. /\ c \in Seq(L) /\ Len(c) \in Nat
      /\ \A i \in 1..Len(c) : i \in 1..Len(file) /\ c[i] = file[i] /\ file[i] # Garbage
  <2>1. CASE Torn
    <3>1. c = SubSeq(file, 1, Len(file) - 1) /\ Len(file) # 0
      BY <1>1, <2>1 DEF Loaded, Torn, EndsIn
    <3> HIDE DEF L, c
    <3>4. PICK n \in Nat : n = Len(file) - 1 /\ n <= Len(file)
      BY <1>1, <3>1
    <3>5. SubSeq(file, 1, n) \in Seq(L) /\ Len(SubSeq(file, 1, n)) = n /\ \A i \in 1..n : SubSeq(file, 1, n)[i] = file[i]
      BY <1>1, <3>4
    <3>2. c \in Seq(L) /\ Len(c) = Len(file) - 1 /\ \A i \in 1..Len(file) - 1 : c[i] = file[i]
      BY <3>1, <3>4, <3>5
    <3>3. \A i \in 1..Len(file) - 1 : i \in 1..Len(file) /\ i < Len(file)
      BY <1>1
    <3> QED BY <1>1, <1>2, <3>1, <3>2, <3>3
  <2>2. CASE ~Torn
    <3>1. c = file /\ (file = <<>> \/ file[Len(file)] # Garbage)
      BY <1>6, <2>2 DEF Loaded, Torn, EndsIn
    <3> HIDE DEF L, c
    <3>2. ASSUME NEW i \in 1..Len(file) PROVE file[i] # Garbage
      <4>1. CASE i = Len(file)
        BY <1>1, <3>1, <4>1
      <4>2. CASE i # Len(file)
        BY <1>1, <1>2, <4>2
      <4> QED BY <4>1, <4>2
    <3> QED BY <1>1, <3>1, <3>2
  <2> QED BY <2>1, <2>2
<1>4. \A i \in 1..Len(c) : c[i] \in Msgs
  BY <1>1, <1>2, <1>3
<1>5. c \in [1..Len(c) -> Msgs]
  <2> HIDE DEF L, c
  <2>1. c \in [1..Len(c) -> L]
    BY <1>3, LenProperties
  <2> QED BY <1>4, <2>1
<1> HIDE DEF c
<1> QED BY <1>3, <1>5, SeqDef DEF c

\* What a lone run finds when it loads.
LEMMA LoneLoad ==
  ASSUME NEW q, NEW g, Holds(q, file, nl, g, Hasty), q.pc = "load", ~Corrupt
  PROVE  /\ Whole(g) /\ Loaded = g
         /\ Torn => FileSays("cut", file, nl, g, Hasty)
         /\ ~Torn => FileSays("repair", file, nl, g, Hasty)
<1>1. g \in Seq(Msgs) /\ Whole(g) /\ FileSays("load", file, nl, g, Hasty)
  BY DEF Holds, Whole
<1>2. ~Broken(file)
  BY DEF Broken, Corrupt
<1>3. file # Append(g, Cut)
  BY <1>1, WholeIsLoaded
<1>4. CASE file = g
  <2>1. Loaded = g /\ ~Torn
    BY <1>1, <1>4, WholeIsLoaded
  <2>2. (g = <<>> => nl) /\ (Hasty \/ nl)
    BY <1>1, <1>2, <1>3, <1>4 DEF FileSays
  <2>3. FileSays("repair", file, nl, g, Hasty)
    BY <1>4, <2>2 DEF FileSays
  <2> QED BY <1>1, <2>1, <2>3
<1>5. CASE file = Append(g, Garbage)
  <2>1. Loaded = g /\ Torn
    BY <1>1, <1>5, WholeIsLoaded
  <2>2. FileSays("cut", file, nl, g, Hasty)
    BY <1>5 DEF FileSays
  <2> QED BY <1>1, <2>1, <2>2
<1>6. file = g \/ file = Append(g, Garbage)
  BY <1>1, <1>2, <1>3 DEF FileSays
<1> QED BY <1>4, <1>5, <1>6

LEMMA LoadKeeps ==
  ASSUME RunsAlone, SessionInv, world' = world, NEW p \in world.procs, Load(p)
  PROVE  SessionInv'
<1> DEFINE q == proc[p]
<1>0. /\ q \in Processes /\ p \in Procs /\ proc \in [Procs -> Processes] /\ q.pc = "load" /\ ~q.fresh
      /\ q.by \in Sessions /\ UNCHANGED <<file, nl, starts, ids>> /\ file \in Lines /\ ~q.degraded
  BY ProcOf, Typed DEF Load, At, Sane
<1>1. CASE Corrupt
  <2>1. proc' = [proc EXCEPT ![p] = Off]
    BY <1>1 DEF Load
  <2> QED BY <1>0, <2>1, EndsKeeps
<1>2. CASE ~Corrupt
  <2>1. PICK c \in Seq(Msgs) : c = Loaded
    BY <1>0, <1>2, LoadedIs
  <2>2. PICK s \in Sessions : s = (IF Loaded = <<>> THEN q.by ELSE Loaded[Len(Loaded)].by)
    <3>1. c # <<>> => c[Len(c)].by \in Sessions
      BY LastIs, MsgsAre
    <3> QED BY <1>0, <2>1, <3>1
  <2>3. PICK l \in Places : l = (IF Torn THEN "cut" ELSE "repair")
    BY DEF Places
  <2>4. PICK r : r = [q EXCEPT !.mem = c, !.pc = l, !.by = s]
    OBVIOUS
  <2>5. Fields(r, l, c, q.reply, q.push, q.then, q.mirror, q.degraded, s, q.fresh)
    <3>1. PICK z \in Processes : z = q
      BY <1>0
    <3>2. Fields([z EXCEPT !.mem = c, !.pc = l, !.by = s],
                 l, c, z.reply, z.push, z.then, z.mirror, z.degraded, s, z.fresh)
      BY DEF Processes, Fields
    <3> QED BY <2>4, <3>1, <3>2
  <2>6. proc' = [proc EXCEPT ![p] = r]
    <3>1. proc' = [proc EXCEPT ![p] =
                     [proc[p] EXCEPT !.mem = Loaded, !.pc = IF Torn THEN "cut" ELSE "repair",
                                     !.by = IF Loaded = <<>> THEN proc[p].by
                                            ELSE Loaded[Len(Loaded)].by]]
      BY <1>0, <1>2 DEF Load
    <3> QED BY <2>1, <2>2, <2>3, <2>4, <3>1
  <2>7. Sane(r) /\ r \in Processes
    BY <1>0, <2>3, <2>5 DEF Sane, Fields
  <2>8. ASSUME Lone
        PROVE  Paired(r) /\ OfRun(r, file, nl, Hasty)
    <3>1. PICK g : Holds(q, file, nl, g, Hasty)
      BY <2>8, ProcOf DEF OfRun
    <3>2. /\ Whole(g) /\ Loaded = g /\ (Torn => FileSays("cut", file, nl, g, Hasty))
          /\ ~Torn => FileSays("repair", file, nl, g, Hasty)
      BY <1>0, <1>2, <3>1, LoneLoad
    <3>3. Linked(g) /\ g \in Seq(Msgs) /\ OneBy(g, s)
      <4>1. CASE g = <<>>
        BY <3>2, <4>1, NothingPairs DEF Whole
      <4>2. CASE g # <<>>
        <5>1. PICK o \in Sessions : OneBy(g, o)
          BY <3>2 DEF Whole
        <5>2. s = g[Len(g)].by /\ Len(g) \in 1..Len(g)
          BY <2>2, <3>2, <4>2, LastIs DEF Whole
        <5> QED BY <3>2, <5>1, <5>2 DEF OneBy, Whole
      <4> QED BY <4>1, <4>2
    <3>4. FileSays(l, file, nl, g, Hasty)
      BY <2>3, <3>2
    <3>5. c = g /\ Begun(r) = g
      BY <2>1, <2>3, <2>5, <3>2 DEF Begun, Fields
    <3>6. Paired(r)
      BY <2>3, <2>5, <3>3, <3>5 DEF Paired, Fields
    <3>7. Holds(r, file, nl, g, Hasty)
      BY <2>3, <2>5, <3>2, <3>3, <3>4, <3>5 DEF Holds, Fields, Recalls
    <3> QED BY <3>6, <3>7 DEF OfRun
  <2>9. ~r.fresh
    BY <1>0, <2>5 DEF Fields
  <2>10. file' \in Lines /\ nl' \in BOOLEAN /\ starts' \in 0..MaxStarts /\ ids' \in Nat /\ file' = file /\ nl' = nl
    BY <1>0, Typed
  <2>11. Hasty \in BOOLEAN
    BY HastyIs
  <2> QED BY <2>6, <2>7, <2>8, <2>9, <2>10, StepDone
<1> QED BY <1>1, <1>2

\* What is between a line and its newline becomes a line.
LEMMA FileEnded ==
  ASSUME NEW l, l \notin {"off", "load", "cut", "newline"}, NEW g, NEW hasty \in BOOLEAN,
         nl \in BOOLEAN, FileSays("newline", file, nl, g, hasty)
  PROVE  FileSays(l, file, TRUE, g, hasty)
<1>1. \/ file = g
      \/ hasty /\ nl = FALSE /\ \E i \in 1..Len(g) - 1 : file = Merged(g, i)
  BY DEF FileSays
<1>2. CASE file = g
  BY <1>2 DEF FileSays
<1>3. CASE hasty /\ \E i \in 1..Len(g) - 1 : file = Merged(g, i)
  <2>1. hasty /\ l \notin {"off", "load", "cut"} /\ (TRUE <=> l # "newline")
    BY <1>3
  <2> QED BY <1>3, <2>1 DEF FileSays
<1> QED BY <1>1, <1>2, <1>3

\* ... when the process ends with it.
LEMMA FileEnds ==
  ASSUME NEW g, Whole(g), NEW hasty \in BOOLEAN, nl \in BOOLEAN, FileSays("newline", file, nl, g, hasty)
  PROVE  \E w : Whole(w) /\ FileSays("off", file, TRUE, w, hasty)
<1>1. CASE file = g
  BY <1>1 DEF FileSays
<1>2. CASE hasty
  <2>1. PICK l : l = "newline"
    OBVIOUS
  <2>2. PICK w : Whole(w) /\ FileSays("off", file, nl, w, hasty)
    BY <1>2, <2>1, FileLeft
  <2>3. FileSays("off", file, TRUE, w, hasty)
    BY <1>2, <2>2 DEF FileSays
  <2> QED BY <2>2, <2>3
<1> QED BY <1>1, <1>2 DEF FileSays

LEMMA NewlineKeeps ==
  ASSUME RunsAlone, SessionInv, world' = world, NEW p \in world.procs, Newline(p)
  PROVE  SessionInv'
<1> DEFINE q == proc[p]
<1>0. /\ q \in Processes /\ p \in Procs /\ proc \in [Procs -> Processes] /\ q.pc = "newline"
      /\ q.then \in Nexts /\ q.mem \in Seq(Msgs) /\ q.push \in Seq(Msgs) /\ q.reply \in Seq(Msgs)
      /\ q.mirror \in Seq(Msgs) /\ q.degraded \in BOOLEAN
      /\ q.by \in Sessions /\ UNCHANGED <<file, starts, ids>> /\ file \in Lines /\ nl' = TRUE
  BY ProcOf, Typed DEF Newline, At
<1>10. file' \in Lines /\ nl' \in BOOLEAN /\ starts' \in 0..MaxStarts /\ ids' \in Nat
  BY <1>0, Typed
<1>11. nl \in BOOLEAN /\ Hasty \in BOOLEAN
  BY Typed, HastyIs
<1>1. CASE q.then = "off"
  <2>1. proc' = [proc EXCEPT ![p] = Off]
    BY <1>1 DEF Newline
  <2>2. ASSUME Lone, p = "run" PROVE OfRun(Off, file', nl', Hasty)
    <3>1. PICK g : Holds(q, file, nl, g, Hasty)
      BY <2>2, ProcOf DEF OfRun
    <3>2. Whole(g) /\ FileSays("newline", file, nl, g, Hasty)
      BY <1>0, <3>1 DEF Holds
    <3>3. PICK w : Whole(w) /\ FileSays("off", file, TRUE, w, Hasty)
      BY <1>11, <3>2, FileEnds
    <3>4. Holds(Off, file, TRUE, w, Hasty)
      BY <3>3 DEF Holds, Off
    <3> QED BY <1>0, <3>4 DEF OfRun
  <2> QED BY <1>10, <2>1, <2>2, OffIs, StepDone
<1>2. CASE q.then # "off"
  <2>1. PICK l \in Places, t \in Nexts, e \in Seq(Msgs), n \in Seq(Msgs), o \in Seq(Msgs), i \in Seq(Msgs) :
          /\ l = q.then /\ t = "off" /\ e = <<>> /\ n = q.mem \o q.push
          /\ o = (IF q.then = "tools" THEN q.reply ELSE <<>>)
          /\ i = (IF q.then \in {"tools", "edit"} THEN q.mirror ELSE <<>>)
    <3>1. q.then \in Places /\ "off" \in Nexts /\ <<>> \in Seq(Msgs) /\ q.mem \o q.push \in Seq(Msgs)
      BY <1>0 DEF Places, Nexts
    <3> QED BY <1>0, <3>1
  <2>2. PICK r : r = [q EXCEPT !.pc = l, !.push = e, !.then = t, !.reply = o, !.mirror = i, !.mem = n]
    OBVIOUS
  <2>3. Fields(r, l, n, o, e, t, i, q.degraded, q.by, q.fresh)
    <3>1. PICK z \in Processes : z = q
      BY <1>0
    <3>2. Fields([z EXCEPT !.pc = l, !.push = e, !.then = t, !.reply = o, !.mirror = i, !.mem = n],
                 l, n, o, e, t, i, z.degraded, z.by, z.fresh)
      BY DEF Processes, Fields
    <3> QED BY <2>2, <3>1, <3>2
  <2>4. proc' = [proc EXCEPT ![p] = r]
    <3>1. proc' = [proc EXCEPT ![p] =
                     [proc[p] EXCEPT !.pc = proc[p].then, !.push = <<>>, !.then = "off",
                                     !.reply = IF proc[p].then = "tools" THEN @ ELSE <<>>,
                                     !.mirror = IF proc[p].then \in {"tools", "edit"} THEN @ ELSE <<>>,
                                     !.mem = @ \o proc[p].push]]
      BY <1>2 DEF Newline
    <3>2. [proc[p] EXCEPT !.pc = proc[p].then, !.push = <<>>, !.then = "off",
                          !.reply = IF proc[p].then = "tools" THEN @ ELSE <<>>,
                          !.mirror = IF proc[p].then \in {"tools", "edit"} THEN @ ELSE <<>>,
                          !.mem = @ \o proc[p].push]
          = [proc[p] EXCEPT !.pc = proc[p].then, !.push = <<>>, !.then = "off",
                            !.reply = IF proc[p].then = "tools" THEN proc[p].reply ELSE <<>>,
                            !.mirror = IF proc[p].then \in {"tools", "edit"} THEN proc[p].mirror ELSE <<>>,
                            !.mem = proc[p].mem \o proc[p].push]
      BY <1>0 DEF Processes
    <3> QED BY <2>1, <2>2, <3>1, <3>2
  <2>5. q.push = <<>> => n = q.mem
    <3>1. q.mem \o <<>> = q.mem
      BY <1>0
    <3> QED BY <2>1, <3>1
  <2>6. Sane(q)
    BY ProcOf
  <2>7. q.then \in {"tools", "edit"} => Mirrors(i, n)
    <3>1. q.then \in {"tools", "edit"} => Mirrors(i, q.mem)
      BY <1>0, <2>1, <2>6 DEF Sane
    <3>2. PICK u \in Seq(Msgs), v \in Seq(Msgs) : u = q.mem /\ v = q.push
      BY <1>0
    <3>3. /\ Len(u) \in Nat /\ Len(v) \in Nat /\ Len(u \o v) = Len(u) + Len(v)
          /\ \A k \in 1..Len(u) : (u \o v)[k] = u[k]
      OBVIOUS
    <3>4. n = u \o v
      BY <2>1, <3>2
    <3>5. Len(u) <= Len(n) /\ Len(n) \in Nat /\ Len(i) \in Nat /\ \A k \in 1..Len(u) : n[k] = u[k]
      <4> HIDE DEF q
      <4> QED BY <3>3, <3>4
    <3>6. ASSUME Mirrors(i, u) PROVE Mirrors(i, n)
      <4>1. Len(i) <= Len(u) /\ \A k \in 1..Len(i) : Bare(i[k]) = Bare(u[k])
        BY <3>6 DEF Mirrors
      <4>2. \A k \in 1..Len(i) : k \in 1..Len(u)
        BY <3>3, <3>5, <4>1
      <4> QED BY <3>3, <3>5, <4>1, <4>2 DEF Mirrors
    <3> QED BY <3>1, <3>2, <3>6
  <2>8. Sane(r) /\ r \in Processes
    <3>1. r \in Processes /\ r.pc = q.then /\ r.pc \in Nexts \ {"off"} /\ r.mem = n /\ r.mirror = i
          /\ (q.then = "tools" => r.reply = q.reply)
      BY <1>0, <1>2, <2>1, <2>3 DEF Fields
    <3>2. q.then = "tools" => Len(q.reply) = 1 /\ q.reply[1].kind = "asst"
      BY <1>0, <2>6 DEF Sane
    <3> HIDE DEF q
    <3> QED BY <2>7, <3>1, <3>2 DEF Sane, Nexts
  <2>9. Lone \/ r.fresh => Paired(r)
    <3>1. ASSUME Lone \/ q.fresh PROVE pairs_intact(n)
      <4>1. Paired(q)
        BY <3>1, ProcOf
      <4> QED BY <1>0, <1>2, <2>1, <2>5, <2>6, <4>1 DEF Paired, Sane
    <3> QED BY <1>0, <1>2, <2>1, <2>3, <3>1 DEF Paired, Fields, Nexts
  <2>10. ASSUME Lone, p = "run" PROVE OfRun(r, file', nl', Hasty)
    <3>1. PICK g : Holds(q, file, nl, g, Hasty)
      BY <2>10, ProcOf DEF OfRun
    <3>2. /\ Whole(g) /\ g \in Seq(Msgs) /\ FileSays("newline", file, nl, g, Hasty) /\ Recalls(Begun(q), g, q.degraded)
          /\ OneBy(q.mem, q.by) /\ OneBy(g, q.by) /\ q.then \notin {"idle", "ended"}
      BY <1>0, <3>1 DEF Holds, Whole
    <3>3. Begun(r) = Begun(q)
      <4>1. CASE q.then = "tools"
        <5>1. q.push = <<>>
          BY <1>0, <2>6, <4>1 DEF Sane
        <5> QED BY <1>0, <2>1, <2>3, <2>5, <4>1, <5>1 DEF Begun, Fields
      <4>2. CASE q.then # "tools"
        BY <1>0, <2>1, <2>3, <4>2 DEF Begun, Fields, Nexts
      <4> QED BY <4>1, <4>2
    <3>4. OneBy(n, q.by)
      <4>1. CASE q.then = "tools"
        <5>1. q.push = <<>>
          BY <1>0, <2>6, <4>1 DEF Sane
        <5> QED BY <2>5, <3>2, <5>1
      <4>2. CASE q.then # "tools"
        <5>1. Recalls(n, g, q.degraded)
          BY <1>0, <2>1, <3>2, <4>2 DEF Begun
        <5> QED BY <1>0, <3>2, <5>1, RecallsIs
      <4> QED BY <4>1, <4>2
    <3>5. l \in {"trim0", "top", "trim", "edit", "tools"}
      BY <1>0, <1>2, <2>1, <3>2 DEF Nexts
    <3>6. FileSays(l, file, TRUE, g, Hasty)
      BY <1>11, <3>2, <3>5, FileEnded
    <3> HIDE DEF q
    <3>7. Holds(r, file, TRUE, g, Hasty)
      BY <2>3, <3>2, <3>3, <3>4, <3>5, <3>6 DEF Holds, Fields
    <3> QED BY <1>0, <3>7 DEF OfRun
  <2> QED BY <1>10, <2>4, <2>8, <2>9, <2>10, StepDone
<1> QED BY <1>1, <1>2

LEMMA SessionInitially == ASSUME RunsAlone, Init PROVE SessionInv
<1>1. world \in Worlds /\ file \in world.left /\ file \in Seq(Msgs) /\ nl = TRUE /\ starts = 0 /\ MaxStarts \in Nat
  BY Constants DEF Init
<1>2. ids \in Nat
  <2>1. Len(file) \in Int /\ 1 \in Int
    BY <1>1
  <2>2. IsFiniteSet(1..Len(file))
    BY <2>1, FS_Interval
  <2>3. {i \in 1..Len(file) : Asks(file[i])} \subseteq 1..Len(file)
    OBVIOUS
  <2> QED BY <2>2, <2>3, FS_Subset, FS_CardinalityType DEF Init
<1>3. proc \in [Procs -> Processes] /\ \A p \in Procs : proc[p] = Off
  BY OffIs DEF Init
<1>4. file \in Lines
  BY <1>1, LinesAre
<1>5. SessionTyped
  BY <1>1, <1>2, <1>3, <1>4 DEF SessionTyped
<1>6. ASSUME Lone PROVE OfRun(Off, file, nl, Hasty)
  <2>1. Whole(file)
    BY <1>1, <1>6 DEF Lone, RunsAlone, Whole
  <2>2. FileSays("off", file, nl, file, Hasty)
    BY <1>1, HastyIs DEF FileSays
  <2>3. Holds(Off, file, nl, file, Hasty)
    BY <2>1, <2>2 DEF Holds, Off
  <2> QED BY <2>3 DEF OfRun
<1>7. "run" \in Procs
  BY DEF Procs
<1> QED BY <1>3, <1>5, <1>6, <1>7, OffIs DEF SessionInv

LEMMA SessionStep == ASSUME RunsAlone, SessionInv, [Next]_vars PROVE SessionInv'
<1>1. CASE UNCHANGED vars
  BY <1>1 DEF vars, SessionInv, SessionTyped, Lone, Hasty
<1>2. ASSUME world' = world, NEW p \in world.procs, Step(p) PROVE SessionInv'
  <2>1. CASE StartFresh(p) \/ StartResume(p) \/ Load(p) \/ CutTorn(p)
    BY <1>2, <2>1, StartFreshKeeps, StartResumeKeeps, LoadKeeps, CutTornKeeps
  <2>2. CASE repair_interrupted_tools(p) \/ Newline(p) \/ Dies(p) \/ Refused(p) \/ DiesWriting(p)
    BY <1>2, <2>2, RepairKeeps, NewlineKeeps, RefusedKeeps, DiesWritingKeeps
  <2>3. CASE ResumeTrim(p) \/ LoopTrim(p)
    <3>1. ids' = ids
      BY <2>3 DEF ResumeTrim, LoopTrim, Trims, NoTrim, Rewrite
    <3> QED BY <1>2, <2>3, <3>1, ResumeTrimKeeps, LoopTrimKeeps
  <2>4. CASE First(p) \/ Objective(p) \/ Note(p) \/ Advise(p)
    BY <1>2, <2>4, SayKeeps
  <2>5. CASE Ask(p) \/ Stop(p) \/ Reply(p) \/ NaturalStop(p) \/ TurnDone(p) \/ CtxEdit(p) \/ ImagesRefused(p)
    BY <1>2, <2>5, AskKeeps, StopKeeps, ReplyKeeps, NaturalStopKeeps, TurnDoneKeeps, CtxEditKeeps, ImagesRefusedKeeps
  <2> QED BY <1>2, <2>1, <2>2, <2>3, <2>4, <2>5 DEF Step
<1> QED BY <1>1, <1>2 DEF Next

-----------------------------------------------------------------------------
(* What the invariant says.                                                *)

LEMMA PairsRequests == ASSUME SessionInv PROVE RequestsPaired
BY DEF SessionInv, RequestsPaired, At, Paired

LEMMA BaredMerged ==
  ASSUME NEW g \in Seq(Msgs), NEW i \in 1..Len(g) - 1
  PROVE  Bared(Merged(g, i)) = Merged(Bared(g), i) /\ i \in 1..Len(Bared(g)) - 1
<1>1. /\ Len(Merged(g, i)) = Len(g) - 1
      /\ \A k \in 1..Len(g) - 1 :
           Merged(g, i)[k] = IF k < i THEN g[k] ELSE IF k = i THEN Garbage ELSE g[k + 1]
  BY MergedIs
<1>2. Len(Bared(g)) = Len(g) /\ Len(g) \in Nat /\ \A k \in 1..Len(g) : Bared(g)[k] = Bare(g[k])
  BY BaredIs
<1>3. Bare(Garbage) = Garbage
  <2>1. PICK x \in [kind : {"garbage"}, id : {0}, by : {0}, image : BOOLEAN] : x = Garbage
    <3>1. Garbage \in [kind : {"garbage"}, id : {0}, by : {0}, image : BOOLEAN]
      BY DEF Garbage
    <3> QED BY <3>1
  <2>3. x.image = FALSE
    BY <2>1 DEF Garbage
  <2>2. [x EXCEPT !.image = FALSE] = x
    BY <2>1, <2>3
  <2> QED BY <2>1, <2>2 DEF Bare
<1>4. \A k \in 1..Len(g) - 1 :
        Bare(Merged(g, i)[k]) = IF k < i THEN Bared(g)[k] ELSE IF k = i THEN Garbage ELSE Bared(g)[k + 1]
  <2>1. \A k \in 1..Len(g) - 1 : k \in 1..Len(g) /\ k + 1 \in 1..Len(g)
    BY <1>2
  <2> QED BY <1>1, <1>2, <1>3, <2>1
<1> QED BY <1>1, <1>2, <1>4 DEF Bared, Merged

LEMMA DerivesMemory == ASSUME RunsAlone, SessionInv PROVE ResumeDerivesMemory
<1> SUFFICES ASSUME Lone
             PROVE  /\ Corrupt => \/ Hasty
                                  \/ EndsIn(Cut) /\ \A p \in Procs : At(p, "off") \/ At(p, "load")
                    /\ \A p \in Procs : At(p, "top") =>
                         \/ Says(file, proc[p].mem)
                         \/ proc[p].degraded /\ Says(Bared(file), proc[p].mem)
                    /\ \A p \in Procs : \A i, j \in 1..Len(proc[p].mem) : proc[p].mem[i].by = proc[p].mem[j].by
  BY DEF ResumeDerivesMemory, Hasty
<1> DEFINE q == proc["run"]
<1>1. PICK g : Holds(q, file, nl, g, Hasty)
  BY DEF SessionInv, OfRun
<1>2. /\ g \in Seq(Msgs) /\ FileSays(q.pc, file, nl, g, Hasty) /\ q.degraded \in BOOLEAN
      /\ q.pc \notin {"off", "load"} => Recalls(Begun(q), g, q.degraded) /\ OneBy(q.mem, q.by)
  BY <1>1, Typed DEF Holds, Whole, Processes, Procs
<1>3. \A p \in Procs : p = "run" \/ (proc[p].mem = <<>> /\ proc[p].pc = "off")
  BY DEF SessionInv, SessionTyped, Lone, RunsAlone, Off, Procs
<1>4. ASSUME Corrupt, ~Hasty PROVE EndsIn(Cut) /\ \A p \in Procs : At(p, "off") \/ At(p, "load")
  <2>1. file # g /\ file # Append(g, Garbage)
    BY <1>2, <1>4, WholeIsLoaded
  <2>2. file = Append(g, Cut) /\ q.pc \in {"off", "load"}
    BY <1>2, <1>4, <2>1 DEF FileSays
  <2>3. EndsIn(Cut)
    BY <1>2, <2>2, WholeIsLoaded
  <2> QED BY <1>3, <2>2, <2>3 DEF At
<1>5. ASSUME NEW p \in Procs, At(p, "top")
      PROVE  Says(file, proc[p].mem) \/ (proc[p].degraded /\ Says(Bared(file), proc[p].mem))
  <2>1. p = "run" /\ q.pc = "top"
    BY <1>3, <1>5 DEF At
  <2>2. q.mem = g \/ (q.degraded /\ q.mem = Bared(g))
    BY <1>2, <2>1 DEF Begun, Recalls
  <2>3. CASE file = g
    BY <2>1, <2>2, <2>3 DEF Says
  <2>4. CASE Hasty /\ \E i \in 1..Len(g) - 1 : file = Merged(g, i)
    <3>1. PICK i \in 1..Len(g) - 1 : file = Merged(g, i)
      BY <2>4
    <3>2. Bared(file) = Merged(Bared(g), i) /\ i \in 1..Len(Bared(g)) - 1
      BY <1>2, <3>1, BaredMerged
    <3>3. \A lines, ms : i \in 1..Len(ms) - 1 /\ lines = Merged(ms, i) => Says(lines, ms)
      BY <2>4 DEF Says, Hasty
    <3>4. Says(file, g) /\ Says(Bared(file), Bared(g))
      BY <3>1, <3>2, <3>3
    <3> QED BY <2>1, <2>2, <3>4
  <2>5. file = g \/ (Hasty /\ \E i \in 1..Len(g) - 1 : file = Merged(g, i))
    BY <1>2, <2>1 DEF FileSays
  <2> QED BY <2>3, <2>4, <2>5
<1>6. ASSUME NEW p \in Procs, NEW i \in 1..Len(proc[p].mem), NEW j \in 1..Len(proc[p].mem)
      PROVE  proc[p].mem[i].by = proc[p].mem[j].by
  <2>1. CASE p # "run" \/ q.pc \in {"off", "load"}
    <3>1. proc[p].mem = <<>>
      BY <1>3, <2>1 DEF SessionInv, Sane
    <3> QED BY <3>1
  <2>2. CASE p = "run" /\ q.pc \notin {"off", "load"}
    BY <1>2, <2>2 DEF OneBy
  <2> QED BY <2>1, <2>2
<1> QED BY <1>4, <1>5, <1>6

-----------------------------------------------------------------------------
(* How the file of a run alone may change.                                 *)

Compacted(f, h) ==
    \E gone \in SUBSET (2..Len(f)) : \E heads \in SUBSET gone : \E s \in {f[k].by : k \in 1..Len(f)} :
        Runs(gone, heads) /\ Twins(h, Spliced(f, gone, heads, Marker(s))) /\ Bare(h[1]) = Bare(f[1])

Started  == file' = <<>> /\ MessagesOf(file) \subseteq archived'
Appended == file \in Seq(Msgs) /\ \E m \in Msgs : Follows(file, m) /\ file' = Append(file, m)
Tore     == file \in Seq(Msgs) /\ \E x \in {Garbage, Cut} : file' = Append(file, x)
Mended   == /\ file' = Loaded /\ Loaded \in Seq(Msgs) /\ MessagesOf(file) \subseteq MessagesOf(Loaded)
            /\ \E p \in Procs : proc[p].mem = Loaded /\ proc'[p].pc # "off"
Shrunk   == /\ file \in Seq(Msgs) /\ file' \in Seq(Msgs) /\ pairs_intact(file) /\ pairs_intact(file')
            /\ \E p \in Procs : Recalls(proc[p].mem, file, TRUE) /\ proc'[p].pc # "off"
            /\ Compacted(file, file')
Changed  == file' = file \/ Started \/ Appended \/ Tore \/ Mended \/ Shrunk

\* What may come next does not depend on images.
LEMMA RecallsFollows ==
  ASSUME NEW g \in Seq(Msgs), NEW d \in BOOLEAN, NEW h, Recalls(h, g, d), NEW m, Follows(h, m)
  PROVE  Follows(g, m)
<1>1. /\ h \in Seq(Msgs) /\ Len(h) = Len(g)
      /\ \A i \in 1..Len(g) : h[i].kind = g[i].kind /\ h[i].id = g[i].id
  BY RecallsIs
<1>2. (h = <<>> <=> Len(h) = 0) /\ (g = <<>> <=> Len(g) = 0) /\ Len(g) \in Nat
  BY <1>1, EmptyIs
<1>3. Len(g) # 0 => Len(g) \in 1..Len(g)
  BY <1>2
<1> QED BY <1>1, <1>2, <1>3 DEF Follows, Waits, Asks, Answers

LEMMA AppendedIs ==
  ASSUME RunsAlone, SessionInv, NEW p \in world.procs, Alone,
         proc[p].pc \in {"repair", "first", "top", "call", "tools", "edit"},
         NEW m \in Msgs, Follows(Begun(proc[p]), m), file' = Written(m)
  PROVE  Appended
<1>1. file \in Seq(Msgs) /\ nl = TRUE /\ Recalls(Begun(proc[p]), file, proc[p].degraded) /\ proc[p].degraded \in BOOLEAN
  BY AloneRun, ProcOf
<1>2. Follows(file, m)
  BY <1>1, RecallsFollows
<1> QED BY <1>1, <1>2 DEF Appended, Written

LEMMA PairedFollows ==
  ASSUME NEW ms \in Seq(Msgs), pairs_intact(ms), NEW m, m.kind # "result"
  PROVE  Follows(ms, m)
BY PairedIsLinked DEF Follows

LEMMA ReplyChanges == ASSUME RunsAlone, SessionInv, NEW p \in world.procs, Alone, Reply(p) PROVE Appended
<1>1. proc[p].pc = "call" /\ pairs_intact(proc[p].mem) /\ proc[p].mem \in Seq(Msgs) /\ proc[p].by \in Sessions
  BY ProcOf DEF Reply, At
<1>2. PICK id \in {0, ids + 1} : id <= MaxIds /\ file' = Written(Asst(proc[p].by, id))
  BY DEF Reply
<1>3. id \in 0..MaxIds
  BY <1>2, Constants, Typed
<1>4. PICK m : m = Asst(proc[p].by, id) /\ m \in Msgs /\ m.kind # "result"
  BY <1>1, <1>3, MsgsAre DEF Asst
<1>5. Begun(proc[p]) = proc[p].mem
  BY <1>1 DEF Begun
<1>6. Follows(Begun(proc[p]), m)
  BY <1>1, <1>4, <1>5, PairedFollows
<1> QED BY <1>1, <1>2, <1>4, <1>6, AppendedIs

LEMMA TextChanges ==
  ASSUME RunsAlone, SessionInv, NEW p \in world.procs, Alone, proc[p].pc \in {"first", "top", "edit"},
         file' = Written(Text(proc[p].by))
  PROVE  Appended
<1>1. proc[p].mem \in Seq(Msgs) /\ pairs_intact(proc[p].mem) /\ proc[p].by \in Sessions /\ Begun(proc[p]) = proc[p].mem
  BY ProcOf, PairsAt DEF Alone, Begun
<1>2. PICK m : m = Text(proc[p].by) /\ m \in Msgs /\ m.kind # "result"
  BY <1>1, MsgsAre DEF Text
<1>3. Follows(Begun(proc[p]), m)
  BY <1>1, <1>2, PairedFollows
<1> QED BY <1>2, <1>3, AppendedIs

LEMMA RepairChanges ==
  ASSUME RunsAlone, SessionInv, NEW p \in world.procs, Alone, repair_interrupted_tools(p)
  PROVE  Changed
<1> DEFINE q == proc[p]
<1>1. /\ q.pc = "repair" /\ Linked(q.mem) /\ q.mem \in Seq(Msgs) /\ q.by \in Sessions /\ Begun(q) = q.mem
  BY LoneRun, ProcOf DEF Alone, repair_interrupted_tools, At
<1>2. ASSUME NEW id \in Unanswered(q.mem), NEW m, m = Result(q.by, id), file' = Written(m)
      PROVE  Appended
  <2>1. Waits(q.mem) /\ id = q.mem[Len(q.mem)].id
    BY <1>1, UnansweredIsLast
  <2>2. id \in 0..MaxIds
    BY <1>1, <2>1, LastIs, MsgsAre DEF Waits
  <2>3. m \in Msgs /\ Answers(m, q.mem[Len(q.mem)])
    BY <1>1, <1>2, <2>1, <2>2, MsgsAre DEF Result, Answers, Waits
  <2>4. Follows(Begun(q), m)
    BY <1>1, <2>1, <2>3 DEF Follows
  <2> QED BY <1>1, <1>2, <2>3, <2>4, AppendedIs
<1>3. \/ file' = file
      \/ \E id \in Unanswered(q.mem) : file' = Written(Result(q.by, id))
  BY DEF repair_interrupted_tools, AppendLine
<1> QED BY <1>2, <1>3 DEF Changed

LEMMA TurnChanges ==
  ASSUME RunsAlone, SessionInv, NEW p \in world.procs, Alone, TurnDone(p)
  PROVE  Appended
<1> DEFINE q == proc[p]
<1>0. q.pc = "tools" /\ q.mem \in Seq(Msgs) /\ q.by \in Sessions
  BY ProcOf DEF TurnDone, At
<1>1. PICK a \in Msgs : q.reply = <<a>> /\ q.reply[1] = a /\ a.kind = "asst" /\ pairs_intact(q.mem)
  BY <1>0, ReplyIs DEF Alone
<1>2. PICK image, m : /\ image \in BOOLEAN
                      /\ m = (IF Asks(a) THEN [Result(q.by, a.id) EXCEPT !.image = image] ELSE Text(q.by))
                      /\ file' = Written(m)
  <2>1. PICK next \in {"edit"} \cup (IF ~Asks(a) THEN {} ELSE IF p = "run" THEN {"off"} ELSE {"idle"}) :
      \E image \in {FALSE, Asks(a) /\ world.images /\ ~q.degraded} :
         file' = Written(IF Asks(a) THEN [Result(q.by, a.id) EXCEPT !.image = image] ELSE Text(q.by))
    BY <1>1 DEF TurnDone, AppendLine
  <2>2. PICK image \in {FALSE, Asks(a) /\ world.images /\ ~q.degraded} :
         file' = Written(IF Asks(a) THEN [Result(q.by, a.id) EXCEPT !.image = image] ELSE Text(q.by))
    BY <2>1
  <2>3. image \in BOOLEAN
    BY <2>2
  <2> QED BY <2>2, <2>3
<1>3. m \in Msgs /\ (Asks(a) => Answers(m, a)) /\ (~Asks(a) => m.kind # "result")
  <2>1. a.id \in 0..MaxIds
    BY MsgsAre
  <2>2. PICK x \in Msgs : x = Result(q.by, a.id) /\ x.kind = "result" /\ x.id = a.id
    BY <1>0, <2>1, MsgsAre DEF Result
  <2>3. /\ [x EXCEPT !.image = image] \in Msgs /\ [x EXCEPT !.image = image].kind = x.kind
        /\ [x EXCEPT !.image = image].id = x.id
    BY <1>2 DEF Msgs, Message
  <2>4. CASE Asks(a)
    <3>1. m = [x EXCEPT !.image = image]
      BY <1>2, <2>2, <2>4
    <3>2. m \in Msgs /\ m.kind = "result" /\ m.id = a.id
      BY <2>2, <2>3, <3>1
    <3> QED BY <2>4, <3>2 DEF Answers
  <2>5. CASE ~Asks(a)
    <3>1. m = Text(q.by) /\ m.kind = "text"
      BY <1>2, <2>5 DEF Text
    <3>2. m \in Msgs
      BY <1>0, <3>1, MsgsAre
    <3> QED BY <2>5, <3>1, <3>2
  <2> QED BY <2>4, <2>5
<1>4. Begun(q) = Append(q.mem, a) /\ Begun(q) \in Seq(Msgs) /\ Begun(q)[Len(Begun(q))] = a
  <2>1. Begun(q) = q.mem \o <<a>>
    BY <1>0, <1>1 DEF Begun
  <2>2. q.mem \o <<a>> = Append(q.mem, a) /\ Append(q.mem, a) \in Seq(Msgs)
        /\ Append(q.mem, a)[Len(Append(q.mem, a))] = a
    BY <1>0
  <2> QED BY <2>1, <2>2
<1>5. Waits(Begun(q)) <=> Asks(a)
  BY <1>0, <1>4, WaitsAfter
<1>6. Follows(Begun(q), m)
  BY <1>3, <1>4, <1>5 DEF Follows
<1> QED BY <1>0, <1>2, <1>3, <1>6, AppendedIs

\* A rewrite that keeps whose the messages are and what role they have.
LEMMA ShrunkIs ==
  ASSUME RunsAlone, SessionInv, NEW p \in world.procs, Alone, proc[p].pc \in {"trim0", "trim", "edit"},
         NEW k \in Seq(Msgs), Twins(k, proc[p].mem), k # <<>>, k[1] = proc[p].mem[1],
         NEW gone \in SUBSET (2..Len(proc[p].mem)), NEW heads \in SUBSET gone, Runs(gone, heads),
         NEW next \in {"idle", "first", "top", "trim"},
         NEW c \in Seq(Msgs), c = Spliced(k, gone, heads, Marker(proc[p].by)), Rewrite(p, c, next), pairs_intact(c)
  PROVE  Shrunk
<1> DEFINE q == proc[p]
<1>0. /\ q.mem \in Seq(Msgs) /\ q.by \in Sessions /\ q.degraded \in BOOLEAN /\ p \in Procs
      /\ proc \in [Procs -> Processes] /\ pairs_intact(q.mem) /\ Begun(q) = q.mem
  BY ProcOf, PairsAt, Typed DEF Begun, Alone
<1>1. file \in Seq(Msgs) /\ OneBy(file, q.by) /\ Recalls(q.mem, file, q.degraded)
  BY <1>0, AloneRun
<1>2. pairs_intact(file)
  BY <1>0, <1>1, RecallsPairs
<1>3. file' = c /\ proc'[p].pc # "off"
  <2>1. proc' = [proc EXCEPT ![p].pc = next, ![p].mem = c, ![p].mirror = <<>>]
    BY DEF Rewrite
  <2>2. PICK r \in Processes :
          /\ [proc EXCEPT ![p].pc = next, ![p].mem = c, ![p].mirror = <<>>] = [proc EXCEPT ![p] = r]
          /\ Fields(r, next, c, q.reply, q.push, q.then, <<>>, q.degraded, q.by, q.fresh)
    <3>1. next \in Places
      BY DEF Places
    <3> QED BY <1>0, <3>1, RewrittenIs
  <2>3. proc'[p].pc = next
    BY <1>0, <2>1, <2>2 DEF Fields
  <2> QED BY <2>3 DEF Rewrite
<1>4. /\ Len(q.mem) = Len(file) /\ Len(file) \in Nat
      /\ \A i \in 1..Len(file) : /\ q.mem[i].by = file[i].by /\ q.mem[i].kind = file[i].kind
                                 /\ file[i] \in Msgs /\ (q.mem[i] = file[i] \/ q.mem[i] = Bare(file[i]))
  <2> DEFINE h == q.mem
             d == q.degraded
  <2>1. d \in BOOLEAN /\ Recalls(h, file, d) /\ file \in Seq(Msgs)
    BY <1>0, <1>1
  <2> HIDE DEF h, d
  <2>2. /\ Len(h) = Len(file) /\ Len(file) \in Nat
        /\ \A i \in 1..Len(file) : /\ h[i].by = file[i].by /\ h[i].kind = file[i].kind
                                   /\ file[i] \in Msgs /\ (h[i] = file[i] \/ h[i] = Bare(file[i]))
    BY <2>1, RecallsIs
  <2> QED BY <2>2 DEF h
<1>5. Len(k) = Len(file) /\ Twins(k, file)
  <2>1. Len(k) = Len(q.mem)
    BY DEF Twins
  <2> HIDE DEF q
  <2>2. \A i \in 1..Len(file) : k[i].by = file[i].by /\ Role(k[i]) = Role(file[i])
    BY <1>4, <2>1 DEF Twins, Role, q
  <2> QED BY <1>4, <2>1, <2>2 DEF Twins
<1>6. 1 \in 1..Len(file)
  BY <1>1, <1>4, <1>5, EmptyIs
<1>7. PICK s \in Sessions, m \in Msgs : s = q.by /\ m = Marker(s)
  BY <1>0, MsgsAre
<1>8. Twins(c, Spliced(file, gone, heads, m))
  <2>1. gone \in SUBSET (2..Len(k))
    BY <1>4, <1>5
  <2>2. c = Spliced(k, gone, heads, m)
    BY <1>7
  <2> QED BY <1>1, <1>5, <2>1, <2>2, SplicedTwins
<1>9. Bare(c[1]) = Bare(file[1])
  <2>1. gone \in SUBSET (2..Len(k))
    BY <1>4, <1>5
  <2>2. Spliced(k, gone, heads, m)[1] = k[1]
    BY <2>1, SplicedTypes
  <2>3. c[1] = q.mem[1]
    BY <1>7, <2>2
  <2>4. q.mem[1] = file[1] \/ q.mem[1] = Bare(file[1])
    BY <1>4, <1>6
  <2>5. Bare(Bare(file[1])) = Bare(file[1])
    BY <1>4, <1>6, MsgsAre
  <2> QED BY <2>3, <2>4, <2>5
<1>10. s \in {file[i].by : i \in 1..Len(file)}
  BY <1>1, <1>6, <1>7 DEF OneBy
<1>11. gone \in SUBSET (2..Len(file)) /\ heads \in SUBSET gone
  BY <1>4
<1>12. Recalls(q.mem, file, TRUE)
  BY <1>1 DEF Recalls
<1>13. Compacted(file, c)
  <2> HIDE DEF q
  <2>1. Runs(gone, heads) /\ Twins(c, Spliced(file, gone, heads, Marker(s))) /\ Bare(c[1]) = Bare(file[1])
    BY <1>7, <1>8, <1>9
  <2> QED BY <1>10, <1>11, <2>1 DEF Compacted
<1> QED BY <1>0, <1>1, <1>2, <1>3, <1>12, <1>13 DEF Shrunk

LEMMA TrimChanges ==
  ASSUME RunsAlone, SessionInv, NEW p \in world.procs, Alone, ResumeTrim(p) \/ LoopTrim(p)
  PROVE  Changed
<1> DEFINE q == proc[p]
<1>1. PICK next \in {"idle", "first", "top", "trim"} :
        q.pc \in {"trim0", "trim", "edit"} /\ (Trims(p, next) \/ NoTrim(p, next))
  BY DEF ResumeTrim, LoopTrim, At
<1>2. q.mem \in Seq(Msgs) /\ Len(q.mem) \in Nat /\ pairs_intact(q.mem)
  BY <1>1, ProcOf, PairsAt DEF Alone
<1>3. CASE NoTrim(p, next)
  BY <1>3 DEF NoTrim, Changed
<1>4. CASE Trims(p, next)
  <2>1. PICK gone \in SUBSET (2..Len(q.mem)) : \E heads \in SUBSET gone :
          /\ gone # {} /\ Runs(gone, heads)
          /\ Trimmed(p, gone, heads) \in Seq(Msgs) /\ Rewrite(p, Trimmed(p, gone, heads), next)
          /\ pairs_intact(Trimmed(p, gone, heads))
    BY <1>2, <1>4, TrimsAre
  <2>2. PICK heads \in SUBSET gone :
          /\ gone # {} /\ Runs(gone, heads)
          /\ Trimmed(p, gone, heads) \in Seq(Msgs) /\ Rewrite(p, Trimmed(p, gone, heads), next)
          /\ pairs_intact(Trimmed(p, gone, heads))
    BY <2>1
  <2>3. PICK k : k = q.mem /\ k \in Seq(Msgs) /\ Twins(k, q.mem) /\ k # <<>> /\ k[1] = q.mem[1]
    <3>1. q.mem # <<>>
      <4>1. PICK i \in 2..Len(q.mem) : i \in gone
        BY <2>1
      <4> QED BY <1>2, <4>1, EmptyIs
    <3> QED BY <1>2, <3>1 DEF Twins
  <2>4. PICK c : c = Trimmed(p, gone, heads)
    OBVIOUS
  <2>5. c \in Seq(Msgs) /\ c = Spliced(k, gone, heads, Marker(q.by)) /\ Rewrite(p, c, next) /\ pairs_intact(c)
    BY <2>2, <2>3, <2>4 DEF Trimmed
  <2>6. Shrunk
    <3> HIDE DEF q
    <3> QED BY <1>1, <2>1, <2>2, <2>3, <2>5, ShrunkIs DEF q
  <2> QED BY <2>6 DEF Changed
<1> QED BY <1>1, <1>3, <1>4

LEMMA EditChanges ==
  ASSUME RunsAlone, SessionInv, NEW p \in world.procs, Alone, CtxEdit(p)
  PROVE  Changed
<1> DEFINE q == proc[p]
<1>0. q.pc = "edit" /\ q \in Processes /\ Mirrors(q.mirror, q.mem)
  BY ProcOf DEF CtxEdit, At, Sane
<1>1. CASE NoTrim(p, "trim")
  BY <1>1 DEF NoTrim, Changed
<1>2. ASSUME NEW gone, NEW turned, NEW body, EditOf(p, gone, turned, body) PROVE Shrunk
  <2>1. PICK k, c : k = Edited(q, turned, body) /\ c = Candidate(q, k, gone)
    OBVIOUS
  <2>2. Legal(q, gone, turned, body) /\ pairs_intact(c) /\ Rewrite(p, c, "trim")
    BY <1>2, <2>1 DEF EditOf
  <2>3. /\ k \in Seq(Msgs) /\ Twins(k, q.mem) /\ gone \subseteq 2..Len(q.mem) /\ q.mem # <<>>
        /\ k[1] = q.mem[1] /\ k # <<>>
    BY <1>0, <2>1, <2>2, EditedIs
  <2>4. PICK heads \in SUBSET gone : heads = Firsts(gone) /\ Runs(gone, heads)
    BY DEF Firsts, Runs
  <2>5. c = Spliced(k, gone, heads, Marker(q.by))
    BY <2>1, <2>4 DEF Candidate
  <2>6. c \in Seq(Msgs)
    <3>1. Len(k) = Len(q.mem)
      BY <2>3 DEF Twins
    <3>2. PICK m \in Msgs : m = Marker(q.by)
      BY ProcOf, MsgsAre
    <3> HIDE DEF q
    <3> QED BY <2>3, <2>5, <3>1, <3>2, SplicedTypes
  <2>7. PICK next \in {"idle", "first", "top", "trim"} : next = "trim" /\ Rewrite(p, c, next)
    BY <2>2
  <2> HIDE DEF q
  <2> QED BY <1>0, <2>2, <2>3, <2>4, <2>5, <2>6, <2>7, ShrunkIs DEF q
<1>3. ASSUME Noted(p) PROVE Changed
  <2>1. file' = Written(Text(q.by))
    BY <1>3 DEF Noted, AppendLine
  <2> QED BY <1>0, <2>1, TextChanges DEF Changed
<1>4. ASSUME Legally(p) PROVE Changed
  <2>1. PICK gone, turned, body : EditOf(p, gone, turned, body)
    BY <1>4 DEF Legally
  <2> QED BY <1>2, <2>1 DEF Changed
<1> QED BY <1>1, <1>3, <1>4, CtxEditIs

LEMMA CutChanges ==
  ASSUME RunsAlone, SessionInv, NEW p \in world.procs, Alone, CutTorn(p)
  PROVE  Mended
<1> DEFINE q == proc[p]
<1>1. q.pc = "cut" /\ Rewrite(p, q.mem, "repair") /\ p = "run" /\ ~q.degraded /\ ~Hasty
  BY LoneRun, ProcOf, HastyIs DEF CutTorn, At, Sane
<1>2. PICK g : Holds(q, file, nl, g, Hasty)
  BY ProcOf DEF Alone, OfRun
<1>3. g \in Seq(Msgs) /\ file = Append(g, Garbage) /\ Recalls(Begun(q), g, q.degraded)
  BY <1>1, <1>2 DEF Holds, Whole, FileSays
<1>4. q.mem = g /\ Loaded = g
  BY <1>1, <1>3, WholeIsLoaded DEF Begun, Recalls
<1>5. MessagesOf(file) \subseteq MessagesOf(g)
  <2> DEFINE L == Msgs \cup {Garbage}
  <2>1. g \in Seq(L) /\ Garbage \in L
    <3>1. Msgs \subseteq L /\ Garbage \in L
      OBVIOUS
    <3> QED BY <1>3, <3>1, SeqMonotonic
  <2> HIDE DEF L
  <2>2. ASSUME NEW i \in 1..Len(file), file[i] # Garbage PROVE i \in 1..Len(g) /\ file[i] = g[i]
    BY <1>3, <2>1, <2>2
  <2> QED BY <2>2 DEF MessagesOf
<1>6. /\ p \in Procs /\ proc \in [Procs -> Processes] /\ q.mem \in Seq(Msgs) /\ file' = q.mem
      /\ proc' = [proc EXCEPT ![p].pc = "repair", ![p].mem = q.mem, ![p].mirror = <<>>]
  BY <1>1, ProcOf, Typed DEF Rewrite
<1>7. PICK l \in Places : l = "repair"
  BY DEF Places
<1>8. PICK r \in Processes :
        /\ [proc EXCEPT ![p].pc = l, ![p].mem = q.mem, ![p].mirror = <<>>] = [proc EXCEPT ![p] = r]
        /\ Fields(r, l, q.mem, q.reply, q.push, q.then, <<>>, q.degraded, q.by, q.fresh)
  BY <1>6, RewrittenIs
<1>9. proc'[p].pc # "off"
  BY <1>6, <1>7, <1>8 DEF Fields
<1> QED BY <1>3, <1>4, <1>5, <1>6, <1>9 DEF Mended

LEMMA FileChanges ==
  ASSUME RunsAlone, SessionInv, [Next]_vars, Alone
  PROVE  Changed
<1>1. CASE UNCHANGED vars
  BY <1>1 DEF vars, Changed
<1>2. ASSUME NEW p \in world.procs, Step(p) PROVE Changed
  <2>0. p = "run" /\ ~world.rotateFails
    BY LoneRun DEF Alone, Lone
  <2>1. CASE StartFresh(p)
    <3>1. file' = <<>> /\ archived' = archived \cup MessagesOf(file)
      BY <2>0, <2>1 DEF StartFresh, rotate_fresh
    <3> QED BY <3>1 DEF Changed, Started
  <2>2. CASE StartResume(p) \/ Load(p) \/ Ask(p) \/ Stop(p) \/ Refused(p) \/ NaturalStop(p) \/ Newline(p) \/ Dies(p)
    BY <2>2 DEF Changed, StartResume, Load, Ask, Stop, Refused, NaturalStop, Newline, Dies
  <2>11. CASE ImagesRefused(p)
    BY <2>11 DEF Changed, ImagesRefused
  <2>3. CASE CutTorn(p)
    BY <1>2, <2>3, CutChanges DEF Changed
  <2>4. CASE repair_interrupted_tools(p)
    BY <1>2, <2>4, RepairChanges
  <2>5. CASE ResumeTrim(p) \/ LoopTrim(p)
    BY <1>2, <2>5, TrimChanges
  <2>6. CASE First(p) \/ Objective(p) \/ Note(p) \/ Advise(p)
    <3>1. proc[p].pc \in {"first", "top", "edit"} /\ file' = Written(Text(proc[p].by))
      BY <1>2, <2>6, LoneRun DEF Alone, First, Objective, Note, Advise, Say, At, AppendLine
    <3> QED BY <1>2, <3>1, TextChanges DEF Changed
  <2>7. CASE Reply(p)
    BY <1>2, <2>7, ReplyChanges DEF Changed
  <2>8. CASE TurnDone(p)
    BY <1>2, <2>8, TurnChanges DEF Changed
  <2>9. CASE CtxEdit(p)
    BY <1>2, <2>9, EditChanges
  <2>10. CASE DiesWriting(p)
    <3>1. proc[p].pc \in {"repair", "trim0", "first", "top", "call", "tools", "edit", "trim"}
      BY <1>2, <2>10, LoneRun DEF Alone, DiesWriting, At
    <3>2. file \in Seq(Msgs) /\ nl = TRUE
      BY <1>2, <3>1, AloneRun
    <3>3. \E x \in {Garbage, Cut} : file' = Written(x)
      BY <2>10 DEF DiesWriting
    <3> QED BY <3>2, <3>3 DEF Changed, Tore, Written
  <2> QED BY <1>2, <2>1, <2>2, <2>3, <2>4, <2>5, <2>6, <2>7, <2>8, <2>9, <2>10, <2>11 DEF Step
<1> QED BY <1>1, <1>2 DEF Next

-----------------------------------------------------------------------------
(* What leaves the file.                                                   *)

LEMMA MessagesGrow ==
  ASSUME NEW ms \in Seq(Msgs), NEW x \in Msgs \cup {Garbage, Cut}
  PROVE  MessagesOf(ms) \subseteq MessagesOf(Append(ms, x))
<1> DEFINE L == Msgs \cup {Garbage, Cut}
<1>1. ms \in Seq(L) /\ x \in L
  <2>1. Msgs \subseteq L
    OBVIOUS
  <2> QED BY <2>1, SeqMonotonic
<1> HIDE DEF L
<1>2. Len(Append(ms, x)) = Len(ms) + 1 /\ Len(ms) \in Nat /\ \A i \in 1..Len(ms) : Append(ms, x)[i] = ms[i]
  BY <1>1
<1>3. \A i \in 1..Len(ms) : i \in 1..Len(Append(ms, x))
  BY <1>2
<1> QED BY <1>2, <1>3 DEF MessagesOf

LEMMA RecalledIs ==
  ASSUME NEW g \in Seq(Msgs), NEW h, Recalls(h, g, TRUE), NEW m \in MessagesOf(g)
  PROVE  {m, Bare(m)} \cap MessagesOf(h) # {}
<1>1. PICK i \in 1..Len(g) : m = g[i]
  BY DEF MessagesOf
<1>2. PICK d \in BOOLEAN : d = TRUE
  OBVIOUS
<1>3. h \in Seq(Msgs) /\ Len(h) = Len(g) /\ h[i] \in Msgs /\ (h[i] = m \/ h[i] = Bare(m))
  BY <1>1, <1>2, RecallsIs
<1>4. h[i] \in MessagesOf(h)
  BY <1>3, MsgsAre DEF MessagesOf
<1> QED BY <1>3, <1>4

LEMMA LosesNothing ==
  ASSUME RunsAlone, SessionInv, [Next]_vars
  PROVE  \A m \in MessagesOf(file) \ MessagesOf(file') :
            \/ ~Alone \/ m \in archived'
            \/ \E p \in Procs : proc'[p].pc # "off" /\ {m, Bare(m)} \cap MessagesOf(proc[p].mem) # {}
<1> SUFFICES ASSUME Alone, NEW m \in MessagesOf(file), m \notin MessagesOf(file'), m \notin archived'
             PROVE  \E p \in Procs : proc'[p].pc # "off" /\ {m, Bare(m)} \cap MessagesOf(proc[p].mem) # {}
  OBVIOUS
<1>0. file' # file /\ ~Started
  BY DEF Started
<1>1. ~Appended /\ ~Tore
  <2>1. ASSUME file \in Seq(Msgs), NEW x \in Msgs \cup {Garbage, Cut}, file' = Append(file, x) PROVE FALSE
    BY <2>1, MessagesGrow
  <2> QED BY <2>1 DEF Appended, Tore
<1>2. CASE Shrunk
  <2>1. PICK p \in Procs : Recalls(proc[p].mem, file, TRUE) /\ proc'[p].pc # "off"
    BY <1>2 DEF Shrunk
  <2>2. file \in Seq(Msgs)
    BY <1>2 DEF Shrunk
  <2> QED BY <2>1, <2>2, RecalledIs
<1>3. CASE Mended
  <2>1. PICK p \in Procs : proc[p].mem = Loaded /\ proc'[p].pc # "off"
    BY <1>3 DEF Mended
  <2>2. m \in MessagesOf(Loaded)
    BY <1>3 DEF Mended
  <2> QED BY <2>1, <2>2
<1> QED BY <1>0, <1>1, <1>2, <1>3, FileChanges DEF Changed

-----------------------------------------------------------------------------
(* The refinement.                                                         *)

LEMMA AlwaysLoaded ==
  /\ file \in Seq(Msgs) => Loaded = file
  /\ \A g \in Seq(Msgs) : \A x \in {Garbage, Cut} : file = Append(g, x) => Loaded = g
BY WholeIsLoaded

LEMMA JournalsMessages ==
  /\ \A m : J!Asks(m) <=> Asks(m)
  /\ \A m, n : (J!Answers(n, m) <=> Answers(n, m)) /\ (J!Alike(m, n) <=> m.by = n.by /\ Role(m) = Role(n))
  /\ \A ms : (J!pairs_intact(ms) <=> pairs_intact(ms)) /\ (J!Open(ms) <=> Waits(ms))
  /\ \A ms, gone, heads, m : J!Spliced(ms, gone, heads, m) = Spliced(ms, gone, heads, m)
  /\ \A s : J!Marker(s) = Marker(s)
  /\ \A m : J!Bare(m) = Bare(m)
  /\ \A gone, heads : J!Runs(gone, heads) <=> Runs(gone, heads)
<1>1. (\A m : J!Asks(m) <=> Asks(m)) /\ \A m : J!Role(m) = Role(m)
  BY DEF J!Asks, Asks, J!Role, Role
<1>2. \A m, n : (J!Answers(n, m) <=> Answers(n, m)) /\ (J!Alike(m, n) <=> m.by = n.by /\ Role(m) = Role(n))
  BY <1>1 DEF J!Answers, Answers, J!Alike
<1>3. \A ms : (J!pairs_intact(ms) <=> pairs_intact(ms)) /\ (J!Open(ms) <=> Waits(ms))
  BY <1>1, <1>2 DEF J!pairs_intact, pairs_intact, J!Open, Waits
<1>4. \A ms, gone, heads, m : J!Spliced(ms, gone, heads, m) = Spliced(ms, gone, heads, m)
  BY DEF J!Spliced, Spliced
<1>5. (\A s : J!Marker(s) = Marker(s)) /\ \A m : J!Bare(m) = Bare(m)
  BY DEF J!Marker, Marker, J!Bare, Bare
<1>6. \A gone, heads : J!Runs(gone, heads) <=> Runs(gone, heads)
  BY DEF J!Runs, Runs, J!Firsts, Firsts
<1> QED BY <1>1, <1>2, <1>3, <1>4, <1>5, <1>6

LEMMA JournalStep ==
  ASSUME RunsAlone, SessionInv, [Next]_vars
  PROVE  [J!Next]_(IF Alone THEN Loaded ELSE <<>>)
<1> DEFINE log == IF Alone THEN Loaded ELSE <<>>
<1>0. Alone' <=> Alone
  BY DEF Next, vars, Alone, Lone
<1>1. CASE ~Alone
  BY <1>0, <1>1
<1>2. CASE Alone
  <2>1. log = Loaded /\ log' = Loaded'
    BY <1>0, <1>2
  <2> HIDE DEF log
  <2>2. CASE file' = file
    BY <2>1, <2>2 DEF Loaded, Torn, EndsIn, log
  <2>3. CASE Started
    <3>1. Loaded' = <<>>
      BY <2>3 DEF Started, Loaded, Torn, EndsIn
    <3> QED BY <2>1, <3>1 DEF J!Next, J!Begin, log
  <2>8. /\ (file \in Seq(Msgs) => Loaded = file)'
        /\ (\A g \in Seq(Msgs) : \A x \in {Garbage, Cut} : file = Append(g, x) => Loaded = g)'
    BY AlwaysLoaded, PTL
  <2>4. CASE Appended
    <3>1. PICK m \in Msgs : file \in Seq(Msgs) /\ Follows(file, m) /\ file' = Append(file, m)
      BY <2>4 DEF Appended
    <3>2. Loaded = file /\ Loaded' = file'
      BY <2>8, <3>1, AlwaysLoaded, AppendIs
    <3>3. Len(file') = Len(file) + 1 /\ SubSeq(file', 1, Len(file)) = file /\ file'[Len(file')] = m
      BY <3>1
    <3>4. IF J!Open(file) THEN J!Answers(m, file[Len(file)]) ELSE m.kind # "result"
      BY <3>1, JournalsMessages DEF Follows
    <3>5. J!Grow
      BY <2>1, <3>2, <3>3, <3>4 DEF J!Grow, log
    <3> QED BY <3>5 DEF J!Next
  <2>5. CASE Tore
    <3>1. Loaded = file /\ file \in Seq(Msgs) /\ \E x \in {Garbage, Cut} : file' = Append(file, x)
      BY <2>5, AlwaysLoaded DEF Tore
    <3>2. Loaded' = file
      BY <2>8, <3>1
    <3> QED BY <2>1, <3>1, <3>2 DEF log
  <2>6. CASE Mended
    <3>1. Loaded \in Seq(Msgs) /\ file' = Loaded
      BY <2>6 DEF Mended
    <3>2. Loaded' = Loaded
      BY <2>8, <3>1
    <3> QED BY <2>1, <3>2 DEF log
  <2>7. CASE Shrunk
    <3>1. Loaded = file /\ Loaded' = file' /\ file' \in Seq(Msgs)
      BY <2>7, <2>8, AlwaysLoaded DEF Shrunk
    <3>2. pairs_intact(file) /\ pairs_intact(file') /\ Compacted(file, file')
      BY <2>7 DEF Shrunk
    <3>3. PICK gone \in SUBSET (2..Len(file)) : \E heads \in SUBSET gone :
             \E s \in {file[k].by : k \in 1..Len(file)} :
                /\ Runs(gone, heads) /\ Twins(file', Spliced(file, gone, heads, Marker(s)))
                /\ Bare(file'[1]) = Bare(file[1])
      BY <3>2 DEF Compacted
    <3>4. PICK heads \in SUBSET gone : \E s \in {file[k].by : k \in 1..Len(file)} :
                /\ Runs(gone, heads) /\ Twins(file', Spliced(file, gone, heads, Marker(s)))
                /\ Bare(file'[1]) = Bare(file[1])
      BY <3>3
    <3>5. PICK s \in {file[k].by : k \in 1..Len(file)} :
                /\ Runs(gone, heads) /\ Twins(file', Spliced(file, gone, heads, Marker(s)))
                /\ Bare(file'[1]) = Bare(file[1])
      BY <3>4
    <3>6. PICK c : c = J!Spliced(file, gone, heads, J!Marker(s))
      OBVIOUS
    <3>7. /\ J!Runs(gone, heads) /\ Len(file') = Len(c) /\ \A k \in 1..Len(c) : J!Alike(file'[k], c[k])
          /\ J!Bare(file'[1]) = J!Bare(file[1])
      BY <3>5, <3>6, JournalsMessages DEF Twins
    <3>8. J!pairs_intact(file) /\ J!pairs_intact(file')
      BY <3>2, JournalsMessages
    <3>9. J!Compact
      BY <2>1, <3>1, <3>3, <3>4, <3>5, <3>6, <3>7, <3>8 DEF J!Compact, log
    <3> QED BY <3>9 DEF J!Next
  <2> QED BY <1>2, <2>2, <2>3, <2>4, <2>5, <2>6, <2>7, FileChanges DEF Changed, log
<1> QED BY <1>1, <1>2

-----------------------------------------------------------------------------
(* The fork slots.                                                         *)

\* Messages and versions are somewhere.
MessagesSafe == 1..used.m \subseteq MessagesIn(live.t) \cup archive.t
LedgersSafe  == owed \subseteq {live.l} \cup archive.l

\* Nothing but a restore is under way, and what it has moved out is archived.
Apart == cmd \in Restoring => open = {}
Moved == /\ cmd \in {"rotateLedger", "restore", "restoreLedger"} => 1..used.m \subseteq archive.t
         /\ cmd \in {"restore", "restoreLedger"} => owed \subseteq archive.l /\ live.l \in {Absent, Seed}
         /\ cmd = "restoreLedger" => live.t = slot.t

ForkSafe == MessagesSafe /\ LedgersSafe /\ Apart /\ Moved

Restored == /\ live.t = slot.t
            /\ live.l = slot.l \/ (slot.l = Absent /\ live.l = Seed)

ForkInv == /\ ForkTypeOK /\ owed \subseteq Ledgers \ {Absent, Seed} /\ (restored => cmd = "none")
           /\ ~raced => ForkSafe /\ (restored => Restored)

LEMMA ForkConstants ==
  /\ MaxMessages \in Nat /\ MaxTexts \in Nat /\ MaxCommands \in Nat /\ MaxSessions \in Nat
  /\ Odd \subseteq 1..MaxTexts
BY ForkAssumption

LEMMA LedgersAre ==
  /\ Ledgers \subseteq Nat /\ Absent = 0 /\ Seed = 1 /\ Half = 2
  /\ Absent \in Ledgers /\ Seed \in Ledgers /\ Half \in Ledgers
  /\ \A n \in 1..MaxTexts : Version(n) \in Ledgers /\ Version(n) = n + 2
BY ForkConstants DEF Ledgers, Absent, Seed, Half, Version

LEMMA FieldsOf ==
  ASSUME ForkTypeOK
  PROVE  /\ live = [t |-> live.t, l |-> live.l] /\ live.t \in Seq(1..MaxMessages) /\ live.l \in Ledgers
         /\ archive = [t |-> archive.t, l |-> archive.l]
         /\ archive.t \subseteq 1..MaxMessages /\ archive.l \subseteq Ledgers
         /\ slot = [dir |-> slot.dir, file |-> slot.file, t |-> slot.t, l |-> slot.l]
         /\ slot.dir \in BOOLEAN /\ slot.file \in BOOLEAN
         /\ slot.t \in Seq(1..MaxMessages) /\ slot.l \in Ledgers
         /\ used = [m |-> used.m, v |-> used.v, c |-> used.c, s |-> used.s]
         /\ used.m \in 0..MaxMessages /\ used.v \in 0..MaxTexts
         /\ used.c \in 0..MaxCommands /\ used.s \in 0..MaxSessions
BY DEF ForkTypeOK

LEMMA OneUp ==
  ASSUME NEW b \in Nat, NEW a \in 0..b, a < b
  PROVE  /\ a + 1 \in 1..b /\ a + 1 \in 0..b /\ a \in Nat
         /\ \A i \in 1..a + 1 : i \in 1..a \/ i = a + 1
OBVIOUS

LEMMA UptoIsSeq ==
  ASSUME NEW S, NEW s \in Seq(S), NEW t \in Upto(s)
  PROVE  t \in Seq(S)
<1>1. PICK k \in 0..Len(s) : t = SubSeq(s, 1, k)
  BY DEF Upto
<1>2. k \in Nat /\ k <= Len(s) /\ Len(s) \in Nat
  OBVIOUS
<1> QED BY <1>1, <1>2

LEMMA MessagesOfAppend ==
  ASSUME NEW S, NEW s \in Seq(S), NEW x \in S
  PROVE  MessagesIn(Append(s, x)) = MessagesIn(s) \cup {x}
<1>1. /\ Len(Append(s, x)) = Len(s) + 1 /\ Len(s) \in Nat /\ Append(s, x)[Len(s) + 1] = x
      /\ \A i \in 1..Len(s) : Append(s, x)[i] = s[i]
  OBVIOUS
<1> QED BY <1>1 DEF MessagesIn

LEMMA NoMessages == MessagesIn(<<>>) = {}
  BY DEF MessagesIn

LEMMA MessagesTyped ==
  ASSUME NEW S, NEW s \in Seq(S)
  PROVE  MessagesIn(s) \subseteq S
BY DEF MessagesIn

-----------------------------------------------------------------------------
LEMMA ForkInitially == ForkInit => ForkInv
<1> SUFFICES ASSUME ForkInit PROVE ForkInv
  OBVIOUS
<1>1. ForkTypeOK
  <2>1. <<>> \in Seq(1..MaxMessages) /\ Absent \in Ledgers
    BY LedgersAre
  <2>2. /\ live \in [t : Seq(1..MaxMessages), l : Ledgers]
        /\ slot \in [dir : BOOLEAN, file : BOOLEAN, t : Seq(1..MaxMessages), l : Ledgers]
    BY <2>1 DEF ForkInit, NoSlot
  <2>3. used \in [m : 0..MaxMessages, v : 0..MaxTexts, c : 0..MaxCommands, s : 0..MaxSessions]
    BY ForkConstants DEF ForkInit
  <2> QED BY <2>2, <2>3 DEF ForkInit, ForkTypeOK
<1>2. ForkSafe
  BY DEF ForkInit, ForkSafe, MessagesSafe, LedgersSafe, Apart, Moved, Restoring
<1> QED BY <1>1, <1>2 DEF ForkInit, ForkInv

\* A session that begins.
LEMMA OpenFreshKeeps == ASSUME Odd = {}, ForkInv, OpenFresh PROVE ForkInv'
<1> USE FieldsOf, ForkConstants, LedgersAre DEF ForkInv
<1>1. /\ used.s < MaxSessions /\ "run" \notin open /\ open' = open \cup {"run"} /\ used' = [used EXCEPT !.s = @ + 1]
      /\ restored' = FALSE /\ raced' = (raced \/ cmd \in Restoring) /\ UNCHANGED <<slot, cmd, owed>>
  BY DEF OpenFresh, Begin
<1>2. PICK t \in BOOLEAN, l \in BOOLEAN :
          /\ live' = [t |-> IF t THEN <<>> ELSE live.t,
                      l |-> IF l /\ ~Skipped THEN Seed ELSE Seeded(live.l)]
          /\ archive' = [t |-> IF t THEN archive.t \cup MessagesIn(live.t) ELSE archive.t,
                         l |-> IF l /\ ~Skipped THEN archive.l \cup {live.l} ELSE archive.l]
  BY DEF OpenFresh
<1>3. /\ live'.t = IF t THEN <<>> ELSE live.t
      /\ live'.l = IF l /\ ~Skipped THEN Seed ELSE Seeded(live.l)
      /\ archive'.t = IF t THEN archive.t \cup MessagesIn(live.t) ELSE archive.t
      /\ archive'.l = IF l /\ ~Skipped THEN archive.l \cup {live.l} ELSE archive.l
  BY <1>2
<1>4. used' = [m |-> used.m, v |-> used.v, c |-> used.c, s |-> used.s + 1]
  BY <1>1
<1>5. ForkTypeOK'
  <2>1. MessagesIn(live.t) \subseteq 1..MaxMessages
    BY MessagesTyped
  <2>2. live' \in [t : Seq(1..MaxMessages), l : Ledgers]
    <3>1. live'.t \in Seq(1..MaxMessages) /\ live'.l \in Ledgers
      <4>1. <<>> \in Seq(1..MaxMessages)
        OBVIOUS
      <4> QED BY <1>3, <4>1 DEF Seeded
    <3>2. live' = [t |-> live'.t, l |-> live'.l]
      BY <1>2
    <3> QED BY <3>1, <3>2
  <2>3. archive' \in [t : SUBSET (1..MaxMessages), l : SUBSET Ledgers]
    BY <1>2, <2>1
  <2>4. used' \in [m : 0..MaxMessages, v : 0..MaxTexts, c : 0..MaxCommands, s : 0..MaxSessions]
    <3>1. used.s + 1 \in 0..MaxSessions
      BY <1>1, SMTT(30)
    <3> QED BY <1>4, <3>1
  <2>5. open' \subseteq Openers /\ raced' \in BOOLEAN
    BY <1>1 DEF ForkTypeOK, Openers
  <2> QED BY <1>1, <2>2, <2>3, <2>4, <2>5 DEF ForkTypeOK
<1>6. ASSUME ~raced' PROVE ForkSafe'
  <2>1. ~raced /\ cmd \notin Restoring /\ ForkSafe /\ cmd' = cmd /\ owed' = owed /\ used'.m = used.m
    BY <1>1, <1>4, <1>6
  <2>2. MessagesSafe'
    BY <1>3, <2>1, NoMessages DEF ForkSafe, MessagesSafe
  <2>3. LedgersSafe'
    BY <1>3, <2>1 DEF ForkSafe, LedgersSafe, Seeded
  <2>4. Apart' /\ Moved'
    BY <2>1 DEF Apart, Moved, Restoring
  <2> QED BY <2>2, <2>3, <2>4 DEF ForkSafe
<1> QED BY <1>1, <1>5, <1>6

LEMMA OpenOnKeeps == ASSUME ForkInv, NEW p \in Openers, OpenOn(p) PROVE ForkInv'
<1> USE FieldsOf, ForkConstants, LedgersAre DEF ForkInv
<1>1. /\ used.s < MaxSessions /\ open' = open \cup {p} /\ used' = [used EXCEPT !.s = @ + 1]
      /\ restored' = FALSE /\ raced' = (raced \/ cmd \in Restoring)
      /\ live' = [live EXCEPT !.l = Seeded(live.l)] /\ UNCHANGED <<archive, slot, cmd, owed>>
  BY DEF OpenOn, Begin
<1>2. live' = [t |-> live.t, l |-> Seeded(live.l)] /\ Seeded(live.l) \in Ledgers
      /\ used' = [m |-> used.m, v |-> used.v, c |-> used.c, s |-> used.s + 1]
      /\ used.s + 1 \in 0..MaxSessions
  <2>1. Seeded(live.l) \in Ledgers
    BY DEF Seeded
  <2>2. used.s \in 0..MaxSessions /\ MaxSessions \in Nat
    OBVIOUS
  <2>3. used.s + 1 \in 0..MaxSessions
    BY <1>1, <2>2, SMTT(30)
  <2> QED BY <1>1, <2>1, <2>3
<1>3. ForkTypeOK'
  <2>1. open' \subseteq Openers /\ raced' \in BOOLEAN
    BY <1>1 DEF ForkTypeOK
  <2> QED BY <1>1, <1>2, <2>1 DEF ForkTypeOK
<1>4. ASSUME ~raced' PROVE ForkSafe'
  <2>1. ~raced /\ cmd \notin Restoring /\ ForkSafe /\ cmd' = cmd /\ owed' = owed /\ used'.m = used.m
        /\ live'.t = live.t /\ live'.l = Seeded(live.l) /\ archive' = archive
    BY <1>1, <1>2, <1>4
  <2>2. MessagesSafe' /\ LedgersSafe' /\ Apart' /\ Moved'
    BY <2>1 DEF ForkSafe, MessagesSafe, LedgersSafe, Apart, Moved, Restoring, Seeded
  <2> QED BY <2>2 DEF ForkSafe
<1> QED BY <1>1, <1>3, <1>4

\* A session that writes.  During a restore there is none, unless it raced.
LEMMA SayMoreKeeps == ASSUME ForkInv, NEW p \in Openers, SayMore(p) PROVE ForkInv'
<1> USE FieldsOf, ForkConstants, LedgersAre DEF ForkInv
<1>1. /\ p \in open /\ used.m < MaxMessages /\ used' = [used EXCEPT !.m = @ + 1]
      /\ live' = [live EXCEPT !.t = Append(live.t, used.m + 1)]
      /\ restored' = FALSE /\ UNCHANGED <<archive, slot, open, cmd, owed, raced>>
  BY DEF SayMore
<1> DEFINE t == Append(live.t, used.m + 1)
<1>2. used.m + 1 \in 1..MaxMessages /\ used.m + 1 \in 0..MaxMessages /\ used.m \in Nat
  <2>1. used.m \in 0..MaxMessages /\ MaxMessages \in Nat
    OBVIOUS
  <2> HIDE FieldsOf, ForkConstants, LedgersAre
  <2> QED BY <1>1, <2>1, OneUp
<1>3. t \in Seq(1..MaxMessages) /\ MessagesIn(t) = MessagesIn(live.t) \cup {used.m + 1}
  <2>1. \A S : live.t \in Seq(S) /\ used.m + 1 \in S
           => t \in Seq(S) /\ MessagesIn(t) = MessagesIn(live.t) \cup {used.m + 1}
    BY MessagesOfAppend
  <2> HIDE DEF t
  <2> QED BY <1>2, <2>1
<1> HIDE DEF t
<1>4. live' = [t |-> t, l |-> live.l]
      /\ used' = [m |-> used.m + 1, v |-> used.v, c |-> used.c, s |-> used.s]
  BY <1>1 DEF t
<1>5. ForkTypeOK'
  <2>1. live' \in [t : Seq(1..MaxMessages), l : Ledgers]
    BY <1>3, <1>4
  <2>2. used' \in [m : 0..MaxMessages, v : 0..MaxTexts, c : 0..MaxCommands, s : 0..MaxSessions]
    BY <1>2, <1>4
  <2> QED BY <1>1, <2>1, <2>2 DEF ForkTypeOK
<1>6. ASSUME ~raced' PROVE ForkSafe'
  <2>0. ForkSafe /\ cmd \notin Restoring
    BY <1>1, <1>6 DEF ForkSafe, Apart
  <2>1. ForkSafe /\ cmd' = cmd /\ owed' = owed /\ used'.m = used.m + 1 /\ open' = open
        /\ live'.t = t /\ live'.l = live.l /\ archive' = archive /\ cmd \notin Restoring
    <3> HIDE FieldsOf, ForkConstants, LedgersAre
    <3> QED BY <1>1, <1>4, <2>0
  <2>2. MessagesSafe'
    <3>1. 1..used.m \subseteq MessagesIn(live.t) \cup archive.t
      BY <2>1 DEF ForkSafe, MessagesSafe
    <3>2. \A i \in 1..used.m + 1 : i \in 1..used.m \/ i = used.m + 1
      <4>1. used.m \in 0..MaxMessages /\ MaxMessages \in Nat
        OBVIOUS
      <4> HIDE FieldsOf, ForkConstants, LedgersAre
      <4> QED BY <1>1, <4>1, OneUp
    <3>3. MessagesIn(live'.t) = MessagesIn(live.t) \cup {used.m + 1}
      BY <1>3, <2>1
    <3> HIDE FieldsOf, ForkConstants, LedgersAre
    <3> QED BY <2>1, <3>1, <3>2, <3>3 DEF MessagesSafe
  <2>3. LedgersSafe' /\ Apart' /\ Moved'
    BY <2>1 DEF ForkSafe, LedgersSafe, Apart, Moved, Restoring
  <2> QED BY <2>2, <2>3 DEF ForkSafe
<1> QED BY <1>1, <1>5, <1>6

LEMMA WriteLedgerKeeps == ASSUME ForkInv, NEW p \in Openers, WriteLedger(p) PROVE ForkInv'
<1> USE FieldsOf, ForkConstants, LedgersAre DEF ForkInv
<1> DEFINE l == Version(used.v + 1)
<1>1. /\ p \in open /\ used.v < MaxTexts /\ used' = [used EXCEPT !.v = @ + 1]
      /\ live' = [live EXCEPT !.l = l] /\ owed' = (owed \ {live.l}) \cup {l}
      /\ restored' = FALSE /\ UNCHANGED <<archive, slot, open, cmd, raced>>
  BY DEF WriteLedger
<1>2. used.v + 1 \in 1..MaxTexts /\ used.v + 1 \in 0..MaxTexts
  BY <1>1, SMTT(30)
<1>3. l \in Ledgers \ {Absent, Seed}
  <2>1. l \in Ledgers /\ l = (used.v + 1) + 2
    BY <1>2, LedgersAre
  <2>2. l \in Nat /\ l >= 3
    BY <1>2, <2>1
  <2>3. l # 0 /\ l # 1
    <3>1. \A k \in Nat : k >= 3 => k # 0 /\ k # 1
      BY SMTT(30)
    <3> HIDE FieldsOf, ForkConstants, LedgersAre DEF l, ForkInv
    <3> QED BY <2>2, <3>1
  <2> QED BY <2>1, <2>3, LedgersAre
<1> HIDE DEF l
<1>4. live' = [t |-> live.t, l |-> l]
      /\ used' = [m |-> used.m, v |-> used.v + 1, c |-> used.c, s |-> used.s]
  BY <1>1
<1>5. owed' \subseteq Ledgers \ {Absent, Seed}
  BY <1>1, <1>3
<1>6. ForkTypeOK'
  BY <1>1, <1>2, <1>3, <1>4, <1>5 DEF ForkTypeOK
<1>7. ASSUME ~raced' PROVE ForkSafe'
  <2>1. ForkSafe /\ cmd' = cmd /\ used'.m = used.m /\ open' = open
        /\ live'.t = live.t /\ live'.l = l /\ archive' = archive /\ cmd \notin Restoring
    BY <1>1, <1>4, <1>7 DEF ForkSafe, Apart
  <2>2. LedgersSafe'
    BY <1>1, <2>1 DEF ForkSafe, LedgersSafe
  <2>3. MessagesSafe' /\ Apart' /\ Moved'
    BY <2>1 DEF ForkSafe, MessagesSafe, Apart, Moved, Restoring
  <2> QED BY <2>2, <2>3 DEF ForkSafe
<1> QED BY <1>1, <1>5, <1>6, <1>7

LEMMA EndKeeps == ASSUME ForkInv, NEW p \in Openers, End(p) PROVE ForkInv'
BY DEF ForkInv, End, ForkTypeOK, ForkSafe, MessagesSafe, LedgersSafe, Apart, Moved, Restored

-----------------------------------------------------------------------------
\* What a save changes: the slot, and where the command is.
LEMMA SaveSteps ==
  ASSUME ForkInv, UNCHANGED <<live, archive, open, owed, raced>>, restored' = FALSE,
         cmd' \in {"none", "remove", "save", "saveLedger"},
         slot' \in [dir : BOOLEAN, file : BOOLEAN, t : Seq(1..MaxMessages), l : Ledgers],
         used' \in [m : 0..MaxMessages, v : 0..MaxTexts, c : 0..MaxCommands, s : 0..MaxSessions],
         used'.m = used.m
  PROVE  ForkInv'
<1>1. ForkTypeOK'
  BY DEF ForkInv, ForkTypeOK
<1>2. ForkSafe => ForkSafe'
  BY DEF ForkSafe, MessagesSafe, LedgersSafe, Apart, Moved, Restoring
<1> QED BY <1>1, <1>2 DEF ForkInv

LEMMA OneCommandMore ==
  ASSUME ForkTypeOK, used.c < MaxCommands, used' = [used EXCEPT !.c = @ + 1]
  PROVE  /\ used' \in [m : 0..MaxMessages, v : 0..MaxTexts, c : 0..MaxCommands, s : 0..MaxSessions]
         /\ used'.m = used.m
<1>1. used' = [m |-> used.m, v |-> used.v, c |-> used.c + 1, s |-> used.s] /\ used.c + 1 \in 0..MaxCommands
  <2>1. used.c \in 0..MaxCommands /\ MaxCommands \in Nat
    BY FieldsOf, ForkConstants
  <2>2. used = [m |-> used.m, v |-> used.v, c |-> used.c, s |-> used.s]
    BY FieldsOf
  <2> QED BY <2>1, <2>2
<1> QED BY <1>1, FieldsOf

LEMMA SaveKeeps == ASSUME ForkInv, Save \/ RemovePath \/ SaveTranscript \/ SaveLedger PROVE ForkInv'
<1> USE FieldsOf, ForkConstants, LedgersAre
<1> DEFINE Slots == [dir : BOOLEAN, file : BOOLEAN, t : Seq(1..MaxMessages), l : Ledgers]
<1>0. ForkTypeOK /\ slot \in Slots /\ <<>> \in Seq(1..MaxMessages)
      /\ used \in [m : 0..MaxMessages, v : 0..MaxTexts, c : 0..MaxCommands, s : 0..MaxSessions]
  BY DEF ForkInv, ForkTypeOK
<1>1. CASE Save
  <2>1. cmd' \in {"none", "remove", "save", "saveLedger"} /\ slot' = slot /\ restored' = FALSE
        /\ UNCHANGED <<live, archive, open, owed, raced>>
    BY <1>1 DEF Save, Command
  <2>2. /\ used' \in [m : 0..MaxMessages, v : 0..MaxTexts, c : 0..MaxCommands, s : 0..MaxSessions]
        /\ used'.m = used.m
    BY <1>0, <1>1, OneCommandMore DEF Save, Command
  <2> QED BY <1>0, <2>1, <2>2, SaveSteps
<1>2. CASE RemovePath
  <2>1. /\ cmd' \in {"none", "save"} /\ restored' = FALSE
        /\ slot' \in {NoSlot, slot, [slot EXCEPT !.file = FALSE, !.t = <<>>], [slot EXCEPT !.l = Absent]}
        /\ UNCHANGED <<live, archive, open, used, owed, raced>>
    BY <1>2 DEF RemovePath, Goes
  <2>2. slot' \in Slots
    <3>1. /\ [slot EXCEPT !.file = FALSE, !.t = <<>>] \in Slots
          /\ [slot EXCEPT !.l = Absent] \in Slots
      <4>1. slot \in Slots /\ <<>> \in Seq(1..MaxMessages) /\ Absent \in Ledgers
        BY <1>0
      <4>2. \A S, L : slot \in [dir : BOOLEAN, file : BOOLEAN, t : S, l : L] /\ <<>> \in S /\ Absent \in L
              => /\ [slot EXCEPT !.file = FALSE, !.t = <<>>] \in [dir : BOOLEAN, file : BOOLEAN, t : S, l : L]
                 /\ [slot EXCEPT !.l = Absent] \in [dir : BOOLEAN, file : BOOLEAN, t : S, l : L]
        <5> HIDE FieldsOf, ForkConstants, LedgersAre, <1>0
        <5> QED OBVIOUS
      <4> QED BY <4>1, <4>2
    <3>2. NoSlot \in Slots
      <4> HIDE FieldsOf
      <4> QED BY <1>0 DEF NoSlot
    <3> QED BY <1>0, <2>1, <3>1, <3>2
  <2> QED BY <1>0, <2>1, <2>2, SaveSteps
<1>3. CASE SaveTranscript
  <2>1. /\ cmd' \in {"none", "saveLedger"} /\ restored' = FALSE
        /\ UNCHANGED <<live, archive, open, used, owed, raced>>
    BY <1>3 DEF SaveTranscript, Goes
  <2>2. slot' \in Slots
    <3>1. CASE slot' = [dir |-> TRUE, file |-> TRUE, t |-> live.t, l |-> Absent]
      BY <1>0, <3>1
    <3>2. CASE slot' = NoSlot
      BY <1>0, <3>2 DEF NoSlot
    <3>3. CASE slot' = [NoSlot EXCEPT !.dir = TRUE]
      <4>1. slot' = [dir |-> TRUE, file |-> FALSE, t |-> <<>>, l |-> Absent]
        BY <3>3 DEF NoSlot
      <4> QED BY <1>0, <4>1
    <3>4. CASE slot' \in [dir : {TRUE}, file : {TRUE}, t : Upto(live.t), l : {Absent}]
      <4>1. Upto(live.t) \subseteq Seq(1..MaxMessages)
        BY <1>0, UptoIsSeq
      <4>2. [dir : {TRUE}, file : {TRUE}, t : Upto(live.t), l : {Absent}] \subseteq Slots
        BY <4>1
      <4> QED BY <3>4, <4>2
    <3> QED BY <1>3, <3>1, <3>2, <3>3, <3>4 DEF SaveTranscript
  <2> QED BY <1>0, <2>1, <2>2, SaveSteps
<1>4. CASE SaveLedger
  <2>1. PICK l \in {live.l, Absent, Half} : slot' = [slot EXCEPT !.l = l]
    BY <1>4 DEF SaveLedger
  <2>2. l \in Ledgers
    BY <1>0, <2>1
  <2>3. slot' = [dir |-> slot.dir, file |-> slot.file, t |-> slot.t, l |-> l]
    BY <1>0, <2>1
  <2>4. slot' \in Slots
    BY <1>0, <2>2, <2>3
  <2>5. cmd' = "none" /\ restored' = FALSE /\ UNCHANGED <<live, archive, open, used, owed, raced>>
    BY <1>4 DEF SaveLedger, Goes
  <2> QED BY <1>0, <2>4, <2>5, SaveSteps
<1> QED BY <1>1, <1>2, <1>3, <1>4

-----------------------------------------------------------------------------
LEMMA RestoreKeeps == ASSUME ForkInv, Restore PROVE ForkInv'
<1>1. /\ cmd = "none" /\ used.c < MaxCommands /\ used' = [used EXCEPT !.c = @ + 1] /\ restored' = FALSE
      /\ cmd' = "rotate" /\ raced' = (raced \/ open # {}) /\ UNCHANGED <<live, archive, slot, open, owed>>
  BY DEF Restore, Command
<1>2. /\ used' \in [m : 0..MaxMessages, v : 0..MaxTexts, c : 0..MaxCommands, s : 0..MaxSessions]
      /\ used'.m = used.m
  BY <1>1, OneCommandMore DEF ForkInv
<1>3. ForkTypeOK'
  BY <1>1, <1>2 DEF ForkInv, ForkTypeOK, Restoring
<1>4. ASSUME ~raced' PROVE ForkSafe'
  BY <1>1, <1>2, <1>4 DEF ForkInv, ForkSafe, MessagesSafe, LedgersSafe, Apart, Moved
<1> QED BY <1>1, <1>3, <1>4 DEF ForkInv

LEMMA RotateKeeps == ASSUME ForkInv, Rotate PROVE ForkInv'
<1> USE FieldsOf, ForkConstants, LedgersAre DEF ForkInv
<1>1. /\ cmd = "rotate" /\ restored' = FALSE /\ UNCHANGED <<slot, open, used, owed, raced>>
      /\ \/ TranscriptAway /\ cmd' = "rotateLedger"
         \/ UNCHANGED <<live, archive>> /\ cmd' = "none"
  BY DEF Rotate, Goes
<1>2. CASE UNCHANGED <<live, archive>> /\ cmd' = "none"
  BY <1>1, <1>2 DEF ForkTypeOK, ForkSafe, MessagesSafe, LedgersSafe, Apart, Moved, Restoring
<1>3. CASE TranscriptAway /\ cmd' = "rotateLedger"
  <2>1. live' = [t |-> <<>>, l |-> live.l] /\ archive' = [t |-> archive.t \cup MessagesIn(live.t), l |-> archive.l]
    BY <1>3 DEF TranscriptAway
  <2>2. ForkTypeOK'
    <3>1. MessagesIn(live.t) \subseteq 1..MaxMessages /\ <<>> \in Seq(1..MaxMessages)
      BY MessagesTyped, SMTT(30)
    <3>2. live' \in [t : Seq(1..MaxMessages), l : Ledgers]
      BY <2>1, <3>1
    <3>3. archive' \in [t : SUBSET (1..MaxMessages), l : SUBSET Ledgers]
      BY <2>1, <3>1
    <3> QED BY <1>1, <1>3, <3>2, <3>3 DEF ForkTypeOK, Restoring
  <2>3. ASSUME ~raced' PROVE ForkSafe'
    <3>1. ForkSafe /\ used' = used /\ owed' = owed /\ open' = open /\ archive'.t = archive.t \cup MessagesIn(live.t)
          /\ archive'.l = archive.l /\ live'.l = live.l
      BY <1>1, <2>1, <2>3
    <3> QED BY <1>1, <1>3, <3>1 DEF ForkSafe, MessagesSafe, LedgersSafe, Apart, Moved, Restoring
  <2> QED BY <1>1, <2>2, <2>3
<1> QED BY <1>1, <1>2, <1>3

LEMMA RotateLedgerKeeps == ASSUME Odd = {}, ForkInv, RotateLedger PROVE ForkInv'
<1> USE FieldsOf, ForkConstants, LedgersAre DEF ForkInv
<1>1. /\ cmd = "rotateLedger" /\ restored' = FALSE /\ UNCHANGED <<slot, open, used, owed, raced>>
      /\ \/ LedgerAway /\ cmd' = "restore"
         \/ UNCHANGED <<live, archive>> /\ cmd' = "none"
  BY DEF RotateLedger, Goes
<1>2. CASE UNCHANGED <<live, archive>> /\ cmd' = "none"
  BY <1>1, <1>2 DEF ForkTypeOK, ForkSafe, MessagesSafe, LedgersSafe, Apart, Moved, Restoring
<1>3. CASE LedgerAway /\ cmd' = "restore"
  <2>1. CASE live.l \in {Absent, Seed}
    <3>1. UNCHANGED <<live, archive>>
      BY <1>3, <2>1 DEF LedgerAway, Skipped
    <3>2. ForkTypeOK'
      BY <1>1, <1>3, <3>1 DEF ForkTypeOK, Restoring
    <3>3. ASSUME ~raced' PROVE ForkSafe'
      <4>1. MessagesSafe' /\ LedgersSafe' /\ Apart'
        BY <1>1, <1>3, <3>1, <3>3 DEF ForkSafe, MessagesSafe, LedgersSafe, Apart, Restoring
      <4>2. Moved'
        BY <1>1, <1>3, <2>1, <3>1, <3>3 DEF ForkSafe, LedgersSafe, Moved
      <4> QED BY <4>1, <4>2 DEF ForkSafe
    <3> QED BY <1>1, <3>2, <3>3
  <2>2. CASE live.l \notin {Absent, Seed}
    <3>1. live' = [t |-> live.t, l |-> Absent] /\ archive' = [t |-> archive.t, l |-> archive.l \cup {live.l}]
      BY <1>3, <2>2 DEF LedgerAway, Skipped
    <3>2. ForkTypeOK'
      BY <1>1, <1>3, <3>1 DEF ForkTypeOK, Restoring
    <3>3. ASSUME ~raced' PROVE ForkSafe'
      <4>0. ForkSafe /\ used' = used /\ owed' = owed /\ open' = open /\ archive'.t = archive.t
            /\ archive'.l = archive.l \cup {live.l} /\ live'.l = Absent /\ live'.t = live.t
        BY <1>1, <3>1, <3>3
      <4>1. MessagesSafe' /\ LedgersSafe' /\ Apart'
        BY <1>1, <4>0 DEF ForkSafe, MessagesSafe, LedgersSafe, Apart, Restoring
      <4>2. Moved'
        BY <1>1, <1>3, <4>0 DEF ForkSafe, LedgersSafe, Moved
      <4> QED BY <4>1, <4>2 DEF ForkSafe
    <3> QED BY <1>1, <3>2, <3>3
  <2> QED BY <2>1, <2>2
<1> QED BY <1>1, <1>2, <1>3

LEMMA RestoreTranscriptKeeps == ASSUME ForkInv, RestoreTranscript PROVE ForkInv'
<1> USE FieldsOf, ForkConstants, LedgersAre DEF ForkInv
<1>1. cmd = "restore" /\ UNCHANGED <<archive, slot, open, used, owed, raced>>
      /\ \/ live' = [live EXCEPT !.t = slot.t]
            /\ IF slot.l = Absent THEN cmd' = "none" /\ restored' = TRUE
               ELSE cmd' = "restoreLedger" /\ restored' = FALSE
         \/ live' \in {[live EXCEPT !.t = t] : t \in Upto(slot.t)} /\ cmd' = "none" /\ restored' = FALSE
  BY DEF RestoreTranscript, Goes
<1>2. PICK t \in Seq(1..MaxMessages) : live' = [live EXCEPT !.t = t]
                                       /\ (cmd' = "restoreLedger" \/ restored' => t = slot.t)
  <2>1. CASE live' = [live EXCEPT !.t = slot.t]
    BY <2>1
  <2>2. CASE live' \in {[live EXCEPT !.t = t] : t \in Upto(slot.t)} /\ cmd' = "none" /\ restored' = FALSE
    <3>1. PICK t \in Upto(slot.t) : live' = [live EXCEPT !.t = t]
      BY <2>2
    <3>2. t \in Seq(1..MaxMessages)
      BY UptoIsSeq
    <3> QED BY <2>2, <3>1, <3>2
  <2> QED BY <1>1, <2>1, <2>2
<1>3. live' = [t |-> t, l |-> live.l] /\ cmd' \in {"none", "restoreLedger"} /\ restored' \in BOOLEAN
      /\ (restored' => cmd' = "none" /\ slot.l = Absent)
  BY <1>1, <1>2
<1>4. ForkTypeOK'
  <2>1. live' \in [t : Seq(1..MaxMessages), l : Ledgers]
    BY <1>3
  <2> QED BY <1>1, <1>3, <2>1 DEF ForkTypeOK, Restoring
<1>5. ASSUME ~raced' PROVE ForkSafe' /\ (restored' => Restored')
  <2>1. ForkSafe /\ live'.t = t /\ live'.l = live.l
    BY <1>1, <1>3, <1>5
  <2>2. 1..used.m \subseteq archive.t /\ owed \subseteq archive.l /\ live.l \in {Absent, Seed}
    BY <1>1, <2>1 DEF ForkSafe, Moved
  <2>3. MessagesSafe' /\ LedgersSafe' /\ Apart' /\ Moved'
    BY <1>1, <1>2, <1>3, <2>1, <2>2 DEF ForkSafe, MessagesSafe, LedgersSafe, Apart, Moved, Restoring
  <2>4. restored' => Restored'
    BY <1>1, <1>2, <1>3, <2>1, <2>2 DEF Restored
  <2> QED BY <2>3, <2>4 DEF ForkSafe
<1> QED BY <1>1, <1>3, <1>4, <1>5

LEMMA RestoreLedgerKeeps == ASSUME ForkInv, RestoreLedger PROVE ForkInv'
<1> USE FieldsOf, ForkConstants, LedgersAre DEF ForkInv
<1>1. /\ cmd = "restoreLedger" /\ UNCHANGED <<archive, slot, open, used, owed, raced>> /\ cmd' = "none"
      /\ \/ live' = [live EXCEPT !.l = slot.l] /\ restored' = TRUE
         \/ live' \in {[live EXCEPT !.l = Half], live} /\ restored' = FALSE
  BY DEF RestoreLedger, Goes
<1>2. PICK l \in Ledgers : live' = [t |-> live.t, l |-> l] /\ (restored' => l = slot.l)
  <2>1. [live EXCEPT !.l = slot.l] = [t |-> live.t, l |-> slot.l]
        /\ [live EXCEPT !.l = Half] = [t |-> live.t, l |-> Half]
        /\ live = [t |-> live.t, l |-> live.l]
    <3>1. live = [t |-> live.t, l |-> live.l]
      BY FieldsOf
    <3> HIDE FieldsOf, ForkConstants, LedgersAre
    <3> QED BY <3>1
  <2>2. {slot.l, Half, live.l} \subseteq Ledgers /\ restored' \in BOOLEAN
    BY <1>1
  <2> QED BY <1>1, <2>1, <2>2
<1>3. ForkTypeOK'
  <2>1. live' \in [t : Seq(1..MaxMessages), l : Ledgers]
    BY <1>2
  <2> QED BY <1>1, <2>1 DEF ForkTypeOK
<1>4. ASSUME ~raced' PROVE ForkSafe' /\ (restored' => Restored')
  <2>1. ForkSafe /\ live'.t = live.t /\ live'.l = l
    BY <1>1, <1>2, <1>4
  <2>2. 1..used.m \subseteq archive.t /\ owed \subseteq archive.l /\ live.t = slot.t
    BY <1>1, <2>1 DEF ForkSafe, Moved
  <2>3. MessagesSafe' /\ LedgersSafe' /\ Apart' /\ Moved'
    BY <1>1, <2>1, <2>2 DEF ForkSafe, MessagesSafe, LedgersSafe, Apart, Moved, Restoring
  <2>4. restored' => Restored'
    BY <1>1, <1>2, <2>1, <2>2 DEF Restored
  <2> QED BY <2>3, <2>4 DEF ForkSafe
<1> QED BY <1>1, <1>3, <1>4

LEMMA ForkStep == ASSUME Odd = {}, ForkInv, [ForkNext]_forkVars PROVE ForkInv'
<1>1. CASE UNCHANGED forkVars
  BY <1>1 DEF forkVars, ForkInv, ForkTypeOK, ForkSafe, MessagesSafe, LedgersSafe, Apart, Moved, Restored
<1>2. CASE ForkNext
  BY <1>2, OpenFreshKeeps, OpenOnKeeps, SayMoreKeeps, WriteLedgerKeeps, EndKeeps, SaveKeeps, RestoreKeeps,
     RotateKeeps, RotateLedgerKeeps, RestoreTranscriptKeeps, RestoreLedgerKeeps DEF ForkNext
<1> QED BY <1>1, <1>2

-----------------------------------------------------------------------------
(* The list of steps.                                                      *)

\* Positions and ids are the same thing, in the store and in every copy.
Numbered(l) == \A i \in 1..Len(l) : l[i].id = i

ListsNumbered ==
    /\ Numbered(list) /\ Len(list) <= spent.calls
    /\ \A s \in Callers : Numbered(copy[s]) /\ Len(copy[s]) <= spent.calls

\* A call knows where in its copy its todo stands.
PlaceInCopy == \A s \in Callers : busy[s] \in Calling => place[s] \in 1..Len(copy[s])

\* The copy of a call differs from the store at its own todo only.
OnlyItsOwn(s) ==
    /\ 1..Len(list) \subseteq 1..Len(copy[s])
    /\ \A i \in 1..Len(copy[s]) :
          i # place[s] => i \in 1..Len(list) /\ copy[s][i] = list[i]

\* As long as no calls cross, one is under way at most, and the store is what
\* the calls reported.
InTurn ==
    ~crossed =>
        /\ \A s, t \in Callers : busy[s] \in Calling /\ busy[t] \in Calling => s = t
        /\ \A s \in Callers : busy[s] \in Calling => OnlyItsOwn(s)
        /\ DOMAIN told = 1..Len(list)
        /\ \A i \in 1..Len(list) : told[i] = list[i]

TodosInv == TodosTypeOK /\ ListsNumbered /\ PlaceInCopy /\ InTurn

LEMMA TodosBounds == MaxCalls \in Nat /\ MaxOpened \in Nat
  BY TodosAssumption

LEMMA TodosInitially == TodosInit => TodosInv
<1> SUFFICES ASSUME TodosInit PROVE TodosInv
  OBVIOUS
<1>1. Len(list) = 0 /\ \A s \in Callers : Len(copy[s]) = 0 /\ busy[s] = "closed"
  BY DEF TodosInit
<1>2. TodosTypeOK
  <2>1. list \in Seq(Todo) /\ \A s \in Callers : copy[s] \in Seq(Todo)
    BY DEF TodosInit
  <2>2. DOMAIN told = {}
    BY DEF TodosInit
  <2>3. spent \in [calls : 0..MaxCalls, opened : 0..MaxOpened]
    BY TodosBounds DEF TodosInit
  <2>4. copy \in [Callers -> Seq(Todo)]
    BY <2>1 DEF TodosInit
  <2> QED
    BY <2>1, <2>2, <2>3, <2>4 DEF TodosInit, TodosTypeOK, Stages
<1>3. ListsNumbered /\ PlaceInCopy
  BY <1>1, TodosBounds DEF TodosInit, ListsNumbered, Numbered, PlaceInCopy, Calling
<1>4. InTurn
  BY <1>1 DEF TodosInit, InTurn, Calling
<1> QED
  BY <1>2, <1>3, <1>4 DEF TodosInv

\* A call that gives up its copy, or a session that ends.
LEMMA GivesUp ==
  ASSUME TodosInv, NEW s \in Callers, NEW b \in {"closed", "idle"},
         busy' = [busy EXCEPT ![s] = b],
         copy' = [copy EXCEPT ![s] = <<>>], place' = [place EXCEPT ![s] = 0],
         UNCHANGED <<list, told, crossed, spent>>
  PROVE  TodosInv'
<1>1. TodosTypeOK'
  BY DEF TodosInv, TodosTypeOK, Stages
<1>2. /\ Len(copy'[s]) = 0 /\ busy'[s] \notin Calling
      /\ \A t \in Callers \ {s} : copy'[t] = copy[t] /\ busy'[t] = busy[t] /\ place'[t] = place[t]
  BY DEF TodosInv, TodosTypeOK, Calling
<1>3. ListsNumbered' /\ PlaceInCopy'
  BY <1>2, TodosBounds DEF TodosInv, TodosTypeOK, ListsNumbered, Numbered, PlaceInCopy
<1>4. InTurn'
  BY <1>2 DEF TodosInv, InTurn, OnlyItsOwn
<1> QED
  BY <1>1, <1>3, <1>4 DEF TodosInv

\* A call loads the list and changes its copy, at the place of a todo that is
\* there or behind the last.
LEMMA Changes ==
  ASSUME TodosInv, NEW s \in Callers, CanCall(s),
         NEW i \in 1..(Len(list) + 1), NEW todo \in Todo, todo.id = i,
         Change(s, i, todo)
  PROVE  TodosInv'
<1> DEFINE new == IF i > Len(list) THEN Append(list, todo) ELSE [list EXCEPT ![i] = todo]
<1>1. /\ list \in Seq(Todo) /\ Len(list) \in Nat /\ spent.calls \in Nat
      /\ spent.calls + 1 \in 0..MaxCalls /\ Len(list) <= spent.calls
  BY TodosBounds DEF TodosInv, TodosTypeOK, ListsNumbered, CanCall
<1>2. /\ new \in Seq(Todo) /\ Len(new) <= spent.calls + 1
      /\ i \in 1..Len(new) /\ 1..Len(list) \subseteq 1..Len(new)
      /\ new[i] = todo
      /\ \A j \in 1..Len(new) : j # i => j \in 1..Len(list) /\ new[j] = list[j]
  <2>1. CASE i > Len(list)
    BY <1>1, <2>1
  <2>2. CASE i <= Len(list)
    BY <1>1, <2>2
  <2> QED
    BY <1>1, <2>1, <2>2
<1>3. /\ copy' = [copy EXCEPT ![s] = new] /\ place' = [place EXCEPT ![s] = i]
      /\ busy' = [busy EXCEPT ![s] = "changed"] /\ spent'.calls = spent.calls + 1
      /\ spent' \in [calls : 0..MaxCalls, opened : 0..MaxOpened]
      /\ UNCHANGED <<list, told>>
  BY <1>1 DEF Change, TodosInv, TodosTypeOK
<1>4. i \in Ids
  BY <1>1, TodosBounds DEF Ids
<1>5. TodosTypeOK'
  BY <1>2, <1>3, <1>4 DEF TodosInv, TodosTypeOK, Stages, Calling, Change
<1>6. /\ copy'[s] = new /\ place'[s] = i /\ busy'[s] \in Calling
      /\ \A t \in Callers \ {s} : copy'[t] = copy[t] /\ busy'[t] = busy[t] /\ place'[t] = place[t]
  BY <1>3 DEF TodosInv, TodosTypeOK, Calling
<1>7. Numbered(new)
  BY <1>2 DEF TodosInv, ListsNumbered, Numbered
<1>8. ListsNumbered'
  <2>1. \A t \in Callers : Len(copy[t]) \in Nat
    BY DEF TodosInv, TodosTypeOK
  <2> QED
    BY <1>1, <1>2, <1>3, <1>6, <1>7, <2>1 DEF TodosInv, ListsNumbered, Numbered
<1>9. PlaceInCopy'
  BY <1>2, <1>6, ZenonT(60) DEF TodosInv, PlaceInCopy
<1>10. InTurn'
  <2> SUFFICES ASSUME ~crossed' PROVE InTurn'
    BY DEF InTurn
  <2>1. ~crossed /\ \A t \in Callers : busy[t] \notin Calling
    BY DEF Change
  <2>2. \A t \in Callers : busy'[t] \in Calling => t = s
    BY <2>1, <1>6
  <2>3. OnlyItsOwn(s)'
    <3> HIDE DEF new
    <3>1. copy'[s] = new /\ place'[s] = i /\ list' = list
      BY <1>3, <1>6
    <3> QED
      BY <1>2, <3>1 DEF OnlyItsOwn
  <2> QED
    BY <2>1, <2>2, <2>3, <1>3 DEF TodosInv, InTurn
<1> QED
  BY <1>5, <1>8, <1>9, <1>10 DEF TodosInv

\* The rename puts the copy in the place of the store.
LEMMA Renames ==
  ASSUME TodosInv, NEW s \in Callers, Rename(s) PROVE TodosInv'
<1> DEFINE todo == copy[s][place[s]]
<1>1. /\ copy[s] \in Seq(Todo) /\ place[s] \in 1..Len(copy[s]) /\ todo \in Todo
      /\ todo.id = place[s] /\ Numbered(copy[s]) /\ Len(copy[s]) <= spent.calls
  BY DEF Rename, TodosInv, TodosTypeOK, PlaceInCopy, ListsNumbered, Numbered, Calling
<1>2. /\ list' = copy[s] /\ UNCHANGED <<crossed, spent>>
      /\ told' = [i \in DOMAIN told \cup {place[s]} |->
                    IF i = place[s] THEN todo ELSE told[i]]
  BY <1>1 DEF Rename
<1>3. place[s] \in Ids
  BY <1>1 DEF Todo
<1>4. /\ Len(copy'[s]) = 0 /\ busy'[s] \notin Calling
      /\ \A t \in Callers \ {s} : copy'[t] = copy[t] /\ busy'[t] = busy[t] /\ place'[t] = place[t]
  BY DEF Rename, TodosInv, TodosTypeOK, Calling
<1>5. TodosTypeOK'
  <2>1. DOMAIN told' \subseteq Ids /\ \A i \in DOMAIN told' : told'[i] \in Todo
    BY <1>1, <1>2, <1>3 DEF TodosInv, TodosTypeOK
  <2> QED
    BY <1>1, <1>2, <2>1 DEF Rename, TodosInv, TodosTypeOK, Stages
<1>6. ListsNumbered' /\ PlaceInCopy'
  <2>1. Numbered(copy[s])' /\ Len(copy'[s]) <= spent'.calls
    BY <1>2, <1>4, TodosBounds DEF TodosInv, TodosTypeOK, Numbered
  <2>2. Numbered(list)' /\ Len(list') <= spent'.calls
    BY <1>1, <1>2 DEF Numbered
  <2>3. \A t \in Callers \ {s} : Numbered(copy[t])' /\ Len(copy'[t]) <= spent'.calls
    BY <1>2, <1>4 DEF TodosInv, ListsNumbered, Numbered
  <2>4. PlaceInCopy'
    BY <1>4 DEF TodosInv, PlaceInCopy
  <2> QED
    BY <2>1, <2>2, <2>3, <2>4 DEF ListsNumbered
<1>7. InTurn'
  <2> SUFFICES ASSUME ~crossed' PROVE InTurn'
    BY DEF InTurn
  <2>1. /\ ~crossed /\ busy[s] \in Calling /\ OnlyItsOwn(s)
        /\ DOMAIN told = 1..Len(list) /\ \A i \in 1..Len(list) : told[i] = list[i]
        /\ \A t \in Callers : busy[t] \in Calling => t = s
    BY <1>2 DEF Rename, TodosInv, InTurn, Calling
  <2>2. \A t \in Callers : busy'[t] \notin Calling
    BY <2>1, <1>4
  <2>3. DOMAIN told' = 1..Len(list')
    BY <2>1, <1>1, <1>2 DEF OnlyItsOwn
  <2>4. \A i \in 1..Len(list') : told'[i] = list'[i]
    BY <2>1, <2>3, <1>1, <1>2 DEF OnlyItsOwn
  <2> QED
    BY <2>2, <2>3, <2>4 DEF InTurn
<1> QED
  BY <1>5, <1>6, <1>7 DEF TodosInv

LEMMA TodosStep == TodosInv /\ [TodosNext]_todosVars => TodosInv'
<1> SUFFICES ASSUME TodosInv, [TodosNext]_todosVars PROVE TodosInv'
  OBVIOUS
<1>1. ASSUME NEW s \in Callers, OpenSession(s) PROVE TodosInv'
  <2>1. TodosTypeOK'
    BY <1>1, TodosBounds, SMTT(30) DEF OpenSession, TodosInv, TodosTypeOK, Stages
  <2>2. /\ UNCHANGED <<list, copy, place, told, crossed>> /\ spent'.calls = spent.calls
        /\ \A t \in Callers : busy'[t] \in Calling => busy[t] \in Calling
    BY <1>1 DEF OpenSession, TodosInv, TodosTypeOK, Calling
  <2> QED
    BY <2>1, <2>2 DEF TodosInv, ListsNumbered, Numbered, PlaceInCopy, InTurn, OnlyItsOwn
<1>2. ASSUME NEW s \in Callers, CloseSession(s) PROVE TodosInv'
  BY <1>2, GivesUp DEF CloseSession
<1>3. ASSUME NEW s \in Callers, SaveFails(s) PROVE TodosInv'
  BY <1>3, GivesUp DEF SaveFails
<1>4. ASSUME NEW s \in Callers, todo_add(s) PROVE TodosInv'
  <2> DEFINE todo == [id |-> NextId, title |-> spent.calls + 1, status |-> Pending]
  <2>1. /\ Len(list) \in Nat /\ Len(list) <= spent.calls /\ spent.calls \in Nat
        /\ spent.calls < MaxCalls /\ CanCall(s) /\ Change(s, Len(list) + 1, todo)
    BY <1>4 DEF todo_add, CanCall, TodosInv, TodosTypeOK, ListsNumbered
  <2>2. todo \in Todo /\ todo.id = Len(list) + 1
    BY <2>1, TodosBounds DEF Todo, Ids, NextId
  <2> QED
    BY <2>1, <2>2, Changes
<1>5. ASSUME NEW s \in Callers, todo_update(s) PROVE TodosInv'
  <2>1. PICK i \in 1..Len(list) :
          \E title \in {list[i].title, spent.calls + 1}, status \in {Pending, Done} :
             Change(s, i, [list[i] EXCEPT !.title = title, !.status = status])
    BY <1>5 DEF todo_update
  <2>2. PICK title \in {list[i].title, spent.calls + 1}, status \in {Pending, Done} :
          Change(s, i, [list[i] EXCEPT !.title = title, !.status = status])
    BY <2>1
  <2> DEFINE todo == [list[i] EXCEPT !.title = title, !.status = status]
  <2>3. /\ list \in Seq(Todo) /\ list[i] \in Todo /\ list[i].id = i
        /\ spent.calls + 1 \in 0..MaxCalls /\ CanCall(s) /\ i \in 1..(Len(list) + 1)
    BY <1>5, TodosBounds DEF todo_update, CanCall, TodosInv, TodosTypeOK, ListsNumbered, Numbered
  <2>4. title \in 0..MaxCalls
    BY <2>3 DEF Todo
  <2>5. todo \in Todo /\ todo.id = i
    BY <2>3, <2>4 DEF Todo
  <2> QED
    BY <2>2, <2>3, <2>5, Changes
<1>6. ASSUME NEW s \in Callers, Write(s) PROVE TodosInv'
  <2>1. TodosTypeOK'
    BY <1>6 DEF Write, WhileWritten, TodosInv, TodosTypeOK, Stages, Calling
  <2>2. /\ UNCHANGED <<list, copy, place, told, crossed, spent>>
        /\ \A t \in Callers : busy'[t] \in Calling => busy[t] \in Calling
    BY <1>6 DEF Write, WhileWritten, TodosInv, TodosTypeOK, Calling
  <2> QED
    BY <2>1, <2>2 DEF TodosInv, ListsNumbered, Numbered, PlaceInCopy, InTurn, OnlyItsOwn
<1>7. ASSUME NEW s \in Callers, Rename(s) PROVE TodosInv'
  BY <1>7, Renames
<1>8. CASE UNCHANGED todosVars
  BY <1>8 DEF todosVars, TodosInv, TodosTypeOK, ListsNumbered, Numbered, PlaceInCopy, InTurn,
     OnlyItsOwn
<1> QED
  BY <1>1, <1>2, <1>3, <1>4, <1>5, <1>6, <1>7, <1>8 DEF TodosNext

-----------------------------------------------------------------------------
(* The parts in Records.                                                   *)

LEMMA PartsInitially == RecordsInit => Init /\ ForkInit /\ CurationInit /\ TodosInit
BY DEF RecordsInit

LEMMA StepOfPart ==
  [RecordsNext]_recordsVars =>
    /\ [Next]_vars /\ [ForkNext]_forkVars
    /\ [CurationNext]_curationVars /\ [TodosNext]_todosVars
<1>1. CASE UNCHANGED recordsVars
  BY <1>1 DEF recordsVars
<1>2. CASE RecordsNext
  BY <1>2 DEF RecordsNext
<1> QED BY <1>1, <1>2

LEMMA AlwaysSession == ASSUME RunsAlone PROVE RecordsSpec => []SessionInv
<1>1. RecordsInit => SessionInv
  BY PartsInitially, SessionInitially
<1>2. SessionInv /\ [RecordsNext]_recordsVars => SessionInv'
  BY StepOfPart, SessionStep
<1> QED BY <1>1, <1>2, PTL DEF RecordsSpec

LEMMA AlwaysTodos == RecordsSpec => []TodosInv
<1>1. RecordsInit => TodosInv
  BY PartsInitially, TodosInitially
<1>2. TodosInv /\ [RecordsNext]_recordsVars => TodosInv'
  BY StepOfPart, TodosStep
<1> QED BY <1>1, <1>2, PTL DEF RecordsSpec

LEMMA AlwaysCuration == RecordsSpec => []CurationInv
<1>1. RecordsInit => CurationInv
  BY PartsInitially, CurationInitially
<1>2. CurationInv /\ [RecordsNext]_recordsVars => CurationInv'
  BY StepOfPart, CurationStep
<1> QED BY <1>1, <1>2, PTL DEF RecordsSpec

LEMMA AlwaysFork == ASSUME Odd = {} PROVE RecordsSpec => []ForkInv
<1>1. RecordsInit => ForkInv
  BY PartsInitially, ForkInitially
<1>2. ForkInv /\ [RecordsNext]_recordsVars => ForkInv'
  BY StepOfPart, ForkStep
<1> QED BY <1>1, <1>2, PTL DEF RecordsSpec

-----------------------------------------------------------------------------
(* The theorems.                                                           *)

\* However runs die, resume, trim and edit, every request has its calls and
\* results paired; and of a session that was not resumed this is so whatever
\* chats, crashes and failed archives do to the file it shares.
THEOREM RequestsArePaired == ASSUME RunsAlone PROVE RecordsSpec => []RequestsPaired
<1>1. SessionInv => RequestsPaired
  BY PairsRequests
<1> QED BY <1>1, AlwaysSession, PTL

\* Wherever a lone run dies, in a line, in a character or before a newline, and
\* whatever images the endpoint refuses: at every boundary the transcript is what
\* the run remembers but for those images, or that with two messages joined; only
\* a death in a character or before a newline leaves a file that no run can load;
\* and no other session is in it.
THEOREM MemoryIsDerived == ASSUME RunsAlone PROVE RecordsSpec => []ResumeDerivesMemory
<1>1. SessionInv => ResumeDerivesMemory
  BY DerivesMemory
<1> QED BY <1>1, AlwaysSession, PTL

\* A message that a lone run's transcript loses is archived, or was taken out
\* by the run that has it, but for its images, in its context and goes on.
THEOREM MessagesAreKept == ASSUME RunsAlone PROVE RecordsSpec => NothingLost
<1>1. SessionInv /\ [RecordsNext]_recordsVars =>
        [\A m \in MessagesOf(file) \ MessagesOf(file') :
            \/ ~Alone \/ m \in archived'
            \/ \E p \in Procs : /\ proc'[p].pc # "off"
                               /\ {m, Bare(m)} \cap MessagesOf(proc[p].mem) # {}]_vars
  BY StepOfPart, LosesNothing
<1> QED BY <1>1, AlwaysSession, PTL DEF RecordsSpec, NothingLost

\* The transcript of a lone run in a new directory implements Journal: only
\* growth in an order the endpoint accepts, compaction and edits that leave whole
\* exchanges and the first message, and fresh starts show, no crash and no recovery.
THEOREM JournalIsKept == ASSUME RunsAlone, FromScratch PROVE RecordsSpec => KeepsJournal
<1>1. RecordsInit => J!Init
  <2> SUFFICES ASSUME Init PROVE J!Init
    BY PartsInitially
  <2>1. Alone => file = <<>>
    BY DEF Init, Alone, Lone, FromScratch
  <2>2. Alone => Loaded = <<>>
    BY <2>1 DEF Loaded, Torn, EndsIn
  <2> QED BY <2>2 DEF J!Init
<1>2. SessionInv /\ [RecordsNext]_recordsVars => [J!Next]_(IF Alone THEN Loaded ELSE <<>>)
  BY StepOfPart, JournalStep
<1> QED BY <1>1, <1>2, AlwaysSession, PTL DEF RecordsSpec, KeepsJournal, J!Spec

\* Whatever fork commands succeed, fail or stop half way, no message and no
\* version of the ledger is lost, unless a session was open while files were
\* moved.  (A ledger that is not UTF-8 is skipped by the archiving, so there
\* is none.)
THEOREM ForksKeepAll == ASSUME Odd = {} PROVE RecordsSpec => []ForkKeeps
<1>1. ForkInv => ForkKeeps
  BY DEF ForkInv, ForkSafe, MessagesSafe, LedgersSafe, ForkKeeps
<1> QED BY <1>1, AlwaysFork, PTL

\* A restore that reports success leaves what the slot has and nothing else.
THEOREM SlotIsRestored == ASSUME Odd = {} PROVE RecordsSpec => []RestoresSlot
<1>1. ForkInv => RestoresSlot
  BY DEF ForkInv, Restored, RestoresSlot
<1> QED BY <1>1, AlwaysFork, PTL

\* Edits and trims, in any order and each over what the others left, part no
\* call from its results, and a pass that is repeated finds nothing to do.  (As
\* long as what the markers lose by rounding is less than the gap between the
\* thresholds: a pass counts every marker in whole tokens.)
THEOREM CutsStayWhole == ASSUME RoundingIsSmall PROVE RecordsSpec => []CutsAreWhole
<1>1. CurationInv => CutsAreWhole
  BY CutsWhole
<1> QED BY <1>1, AlwaysCuration, PTL

\* No edit, trim, note or turn changes anything before the last marker of a
\* trim, for any sizes and thresholds.
THEOREM PrefixIsFrozen == RecordsSpec => FrozenPrefix
<1>1. CurationInv /\ [RecordsNext]_recordsVars =>
        [\A i \in DOMAIN messages :
            messages[i].kind = "trimmed" =>
               i <= Len(messages') /\ SubSeq(messages', 1, i) = SubSeq(messages, 1, i)
        ]_curationVars
  BY StepOfPart, MarkersStay
<1> QED BY <1>1, AlwaysCuration, PTL DEF RecordsSpec, FrozenPrefix

\* Type correctness of the list of steps, whatever fails, ends or dies.
THEOREM StepsTypeCorrect == RecordsSpec => []TodosTypeOK
<1>1. TodosInv => TodosTypeOK
  BY DEF TodosInv
<1> QED BY <1>1, AlwaysTodos, PTL

\* The list keeps what the todo calls reported, and an id leads to one todo.
THEOREM StepsAreKept == RecordsSpec => []TodosKept
<1>1. TodosInv => TodosKept
  <2> SUFFICES ASSUME TodosInv PROVE TodosKept
    OBVIOUS
  <2>1. \A i, j \in 1..Len(list) : list[i].id = list[j].id => i = j
    BY DEF TodosInv, ListsNumbered, Numbered
  <2>2. ~crossed => {list[i] : i \in 1..Len(list)} = {told[i] : i \in DOMAIN told}
    BY DEF TodosInv, InTurn
  <2> QED
    BY <2>1, <2>2 DEF TodosKept
<1> QED
  BY <1>1, AlwaysTodos, PTL
=============================================================================
