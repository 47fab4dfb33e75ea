-------------------------- MODULE SteerQueueProofs --------------------------
(***************************************************************************)
(* What ExchangesProofs says of the steering queue rests on this: the      *)
(* invariant of SteerQueue.  Files only grow, and a loop that reads a file *)
(* has it to itself; so where two notes stand to each other, in a file or  *)
(* in two, is settled when their lines begin, and a line that is whole and *)
(* has a line after it stays whole.                                        *)
(***************************************************************************)
EXTENDS SteerQueue, SequenceTheorems, WellFoundedInduction, TLAPS

-----------------------------------------------------------------------------
(* What Parsed computes.  The recursion is over the places of a text, and  *)
(* the induction over the set of the numbers it is right for.              *)

LEMMA Smallest ==
  ASSUME NEW T \in SUBSET Nat, T # {}
  PROVE  \E m \in T : \A k \in T : m <= k
<1> DEFINE R == OpToRel(<, Nat)
<1>1. IsWellFoundedOn(R, Nat)
  BY NatLessThanWellFounded
<1>2. \A k, l \in Nat : k < l => <<k, l>> \in R
  BY DEF R, OpToRel
<1> HIDE DEF R
<1>3. PICK m \in T : \A k \in T : ~(<<k, m>> \in R)
  BY WFMin, <1>1
<1>4. ASSUME NEW k \in T PROVE m <= k
  <2>1. m \in Nat /\ k \in Nat /\ ~(k < m)
    BY <1>2, <1>3
  <2> QED BY <2>1
<1> QED BY <1>4

\* Induction, over the numbers a fact holds of.
LEMMA AllNumbers ==
  ASSUME NEW X \in SUBSET Nat, 0 \in X, \A n \in Nat : n \in X => n + 1 \in X
  PROVE  X = Nat
<1>1. SUFFICES ASSUME Nat \ X # {} PROVE FALSE
  OBVIOUS
<1>2. PICK m \in Nat \ X : \A k \in Nat \ X : m <= k
  BY <1>1, Smallest
<1>3. m - 1 \in Nat /\ m - 1 \in X
  BY <1>2
<1> QED BY <1>2, <1>3

Texts == Seq(Notes \X NotePieces)

\* The recursion of Parsed is one: there is such a function.
LEMMA ParsedSteps ==
  ASSUME NEW text \in Texts
  PROVE  \E F : /\ F = [i \in 0..Len(text) |->
                          IF i = 0 THEN <<>>
                          ELSE IF IsNote(text, i) THEN Append(F[i - 1], text[i][1])
                          ELSE F[i - 1]]
                /\ Parsed(text) = F[Len(text)]
<1> DEFINE Body(F, i) == IF i = 0 THEN <<>>
                         ELSE IF IsNote(text, i) THEN Append(F[i - 1], text[i][1])
                         ELSE F[i - 1]
           Upto(n) == \E F : F = [i \in 0..n |-> Body(F, i)]
           X == {n \in Nat : Upto(n)}
<1>1. 0 \in X
  <2>1. [i \in 0..0 |-> <<>>] = [i \in 0..0 |-> Body([j \in 0..0 |-> <<>>], i)]
    OBVIOUS
  <2> QED BY <2>1
<1>2. ASSUME NEW n \in Nat, n \in X PROVE n + 1 \in X
  <2>1. PICK F : F = [i \in 0..n |-> Body(F, i)]
    BY <1>2
  <2> DEFINE G == [i \in 0..n + 1 |-> IF i = n + 1 THEN Body(F, n + 1) ELSE F[i]]
  <2>2. ASSUME NEW i \in 0..n + 1 PROVE G[i] = Body(G, i)
    <3>1. CASE i = 0
      <4>1. F[0] = <<>>
        BY <2>1
      <4> QED BY <3>1, <4>1
    <3>2. CASE i # 0
      <4>1. i - 1 \in 0..n /\ G[i - 1] = F[i - 1]
        BY <3>2
      <4>2. Body(G, i) = Body(F, i)
        BY <3>2, <4>1
      <4>3. CASE i = n + 1
        BY <4>2, <4>3
      <4>4. CASE i # n + 1
        <5>1. i \in 0..n
          BY <4>4
        <5>2. F[i] = Body(F, i)
          BY <2>1, <5>1
        <5> QED BY <4>2, <4>4, <5>2
      <4> QED BY <4>3, <4>4
    <3> QED BY <3>1, <3>2
  <2>3. G = [i \in 0..n + 1 |-> G[i]]
    OBVIOUS
  <2> HIDE DEF G, Body
  <2>4. G = [i \in 0..n + 1 |-> Body(G, i)]
    BY <2>2, <2>3
  <2> QED BY <2>4
<1>3. X = Nat
  <2> HIDE DEF X
  <2>1. X \in SUBSET Nat
    BY DEF X
  <2> QED BY <1>1, <1>2, <2>1, AllNumbers
<1>4. Len(text) \in Nat
  BY DEF Texts
<1>5. Upto(Len(text))
  BY <1>3, <1>4
<1> DEFINE Found[i \in 0..Len(text)] ==
             IF i = 0 THEN <<>>
             ELSE IF IsNote(text, i) THEN Append(Found[i - 1], text[i][1])
             ELSE Found[i - 1]
<1>6. Parsed(text) = Found[Len(text)]
  BY DEF Parsed
<1>7. Found = [i \in 0..Len(text) |-> IF i = 0 THEN <<>>
             ELSE IF IsNote(text, i) THEN Append(Found[i - 1], text[i][1])
             ELSE Found[i - 1]]
  BY <1>5
<1> HIDE DEF Found
<1> QED BY <1>6, <1>7

\* Where a note is, its first piece is.
LEMMA NoteBegins ==
  ASSUME NEW text \in Texts, NEW i \in 1..Len(text), IsNote(text, i)
  PROVE  /\ i < Len(text) /\ text[i] = <<text[i][1], "first">> /\ text[i][1] \in Notes
         /\ text[i + 1] = <<text[i][1], "second">>
<1>1. i < Len(text) /\ SubSeq(text, i, i + 1) = << <<text[i][1], "first">>, <<text[i][1], "second">> >>
  BY DEF IsNote, NoteLine
<1>2. text \in Seq(Notes \X NotePieces) /\ Len(text) \in Nat
  BY DEF Texts
<1>3. SubSeq(text, i, i + 1)[1] = text[i] /\ SubSeq(text, i, i + 1)[2] = text[i + 1]
  BY <1>1, <1>2
<1>4. text[i] \in Notes \X NotePieces
  BY <1>2
<1>5. text[i] = <<text[i][1], "first">> /\ text[i + 1] = <<text[i][1], "second">>
  <2> DEFINE t == SubSeq(text, i, i + 1)
             x == <<text[i][1], "first">>
             y == <<text[i][1], "second">>
  <2>1. t = <<x, y>> /\ t[1] = text[i] /\ t[2] = text[i + 1]
    BY <1>1, <1>3
  <2> HIDE DEF t, x, y
  <2>2. text[i] = x /\ text[i + 1] = y
    BY <2>1
  <2> QED BY <2>2 DEF x, y
<1>6. text[i][1] \in Notes
  BY <1>4
<1> QED BY <1>1, <1>5, <1>6

\* What Parsed returns: the notes of the text, each from a place of its own, in
\* the order of their places, and none is left out.
LEMMA ParsedIsTheNotes ==
  ASSUME NEW text \in Texts
  PROVE  /\ Parsed(text) \in Seq(Notes)
         /\ \E g \in [1..Len(Parsed(text)) -> 1..Len(text)] :
               /\ \A k \in 1..Len(Parsed(text)) : IsNote(text, g[k]) /\ Parsed(text)[k] = text[g[k]][1]
               /\ \A k, l \in 1..Len(Parsed(text)) : k < l => g[k] < g[l]
               /\ \A i \in 1..Len(text) : IsNote(text, i) => \E k \in 1..Len(Parsed(text)) : g[k] = i
<1>0. Len(text) \in Nat /\ text \in Seq(Notes \X NotePieces)
  BY DEF Texts
<1>1. PICK F : /\ F = [i \in 0..Len(text) |->
                         IF i = 0 THEN <<>>
                         ELSE IF IsNote(text, i) THEN Append(F[i - 1], text[i][1])
                         ELSE F[i - 1]]
               /\ Parsed(text) = F[Len(text)]
  BY ParsedSteps
<1> DEFINE Places(s, n) ==
             {g \in [1..Len(s) -> 1..n] :
                /\ \A k \in 1..Len(s) : IsNote(text, g[k]) /\ s[k] = text[g[k]][1]
                /\ \A k, l \in 1..Len(s) : k < l => g[k] < g[l]
                /\ \A i \in 1..n : IsNote(text, i) => \E k \in 1..Len(s) : g[k] = i}
           X == {n \in Nat : n <= Len(text) => F[n] \in Seq(Notes) /\ Places(F[n], n) # {}}
<1>2. 0 \in X
  <2>1. F[0] = <<>>
    BY <1>0, <1>1
  <2>2. <<>> \in [1..0 -> 1..0] /\ Len(<<>>) = 0
    OBVIOUS
  <2>3. <<>> \in Places(<<>>, 0)
    BY <2>2
  <2>4. F[0] \in Seq(Notes) /\ Places(F[0], 0) # {}
    <3> HIDE DEF Places
    <3> QED BY <2>1, <2>3
  <2> QED BY <2>4
<1>3. ASSUME NEW n \in Nat, n \in X PROVE n + 1 \in X
  <2> SUFFICES ASSUME n + 1 <= Len(text)
               PROVE  F[n + 1] \in Seq(Notes) /\ Places(F[n + 1], n + 1) # {}
    OBVIOUS
  <2>1. F[n] \in Seq(Notes) /\ Places(F[n], n) # {}
    BY <1>0, <1>3
  <2>2. PICK g \in Places(F[n], n) : TRUE
    BY <2>1
  <2>3. F[n + 1] = IF IsNote(text, n + 1) THEN Append(F[n], text[n + 1][1]) ELSE F[n]
    <3>1. n + 1 \in 0..Len(text) /\ n + 1 # 0 /\ (n + 1) - 1 = n
      BY <1>0
    <3>2. \A i \in 0..Len(text) : F[i] = IF i = 0 THEN <<>>
                                       ELSE IF IsNote(text, i) THEN Append(F[i - 1], text[i][1])
                                       ELSE F[i - 1]
      BY <1>1
    <3> QED BY <3>1, <3>2
  <2>4. n + 1 \in 1..Len(text)
    BY <1>0
  <2>5. CASE ~IsNote(text, n + 1)
    <3>1. g \in [1..Len(F[n]) -> 1..n + 1]
      BY <2>1, <2>2
    <3>2. ASSUME NEW i \in 1..n + 1, IsNote(text, i) PROVE \E k \in 1..Len(F[n]) : g[k] = i
      <4>1. i \in 1..n
        BY <2>5, <3>2
      <4> QED BY <2>2, <3>2, <4>1
    <3>3. g \in Places(F[n], n + 1)
      BY <2>2, <3>1, <3>2
    <3> QED BY <2>1, <2>3, <2>5, <3>3, SMTT(30)
  <2>6. CASE IsNote(text, n + 1)
    <3> DEFINE s == F[n]  t == Append(s, text[n + 1][1])
               h == [k \in 1..Len(t) |-> IF k = Len(t) THEN n + 1 ELSE g[k]]
    <3>1. text[n + 1][1] \in Notes
      BY <2>4, <2>6, NoteBegins
    <3>2. /\ s \in Seq(Notes) /\ t \in Seq(Notes) /\ Len(t) = Len(s) + 1 /\ Len(s) \in Nat
          /\ t[Len(t)] = text[n + 1][1] /\ \A k \in 1..Len(s) : t[k] = s[k]
      BY <2>1, <3>1
    <3>3. /\ g \in [1..Len(s) -> 1..n]
          /\ \A k \in 1..Len(s) : IsNote(text, g[k]) /\ s[k] = text[g[k]][1]
          /\ \A k, l \in 1..Len(s) : k < l => g[k] < g[l]
          /\ \A i \in 1..n : IsNote(text, i) => \E k \in 1..Len(s) : g[k] = i
      BY <2>2
    <3>4. F[n + 1] = t
      BY <2>3, <2>6
    <3> HIDE DEF s, t
    <3>5. h[Len(t)] = n + 1 /\ \A k \in 1..Len(s) : h[k] = g[k] /\ h[k] \in 1..n
      BY <3>2, <3>3
    <3>6. h \in [1..Len(t) -> 1..n + 1]
      BY <3>2, <3>3
    <3>c. \A k \in 1..Len(t) : k = Len(t) \/ k \in 1..Len(s)
      BY <3>2
    <3> HIDE DEF h
    <3>7. ASSUME NEW k \in 1..Len(t) PROVE IsNote(text, h[k]) /\ t[k] = text[h[k]][1]
      BY <2>6, <3>2, <3>3, <3>5, <3>c
    <3>8. ASSUME NEW k \in 1..Len(t), NEW l \in 1..Len(t), k < l PROVE h[k] < h[l]
      <4>1. k \in 1..Len(s)
        BY <3>2, <3>8, <3>c
      <4> QED BY <3>3, <3>5, <3>8, <3>c, <4>1
    <3>9. ASSUME NEW i \in 1..n + 1, IsNote(text, i) PROVE \E k \in 1..Len(t) : h[k] = i
      <4>1. CASE i = n + 1
        BY <3>2, <3>5, <4>1
      <4>2. CASE i # n + 1
        <5>1. PICK k \in 1..Len(s) : g[k] = i
          BY <3>3, <3>9, <4>2
        <5> QED BY <3>2, <3>5, <5>1
      <4> QED BY <4>1, <4>2
    <3>10. h \in Places(t, n + 1)
      BY <3>6, <3>7, <3>8, <3>9
    <3> HIDE DEF Places
    <3> QED BY <3>2, <3>4, <3>10
  <2> QED BY <2>5, <2>6
<1>4. X = Nat
  <2> HIDE DEF X
  <2>1. X \in SUBSET Nat
    BY DEF X
  <2> QED BY <1>2, <1>3, <2>1, AllNumbers
<1>5. F[Len(text)] \in Seq(Notes) /\ Places(F[Len(text)], Len(text)) # {}
  BY <1>0, <1>4
<1>6. Parsed(text) = F[Len(text)]
  BY <1>1
<1>7. Parsed(text) \in Seq(Notes) /\ Places(Parsed(text), Len(text)) # {}
  <2> HIDE DEF Places
  <2> QED BY <1>5, <1>6
<1> QED BY <1>7

-----------------------------------------------------------------------------
(* The invariant.                                                          *)

Reading(d) == at[d] = "read"

\* The line of note n begins at place i of file f.
Begins(n, f, i) == i \in 1..Len(files[f]) /\ files[f][i] = <<n, "first">>

\* ... and is a line that nothing written later can spoil.
Sealed(n, f, i) ==
    /\ i \in 1..Len(files[f]) - 2 /\ Begins(n, f, i)
    /\ files[f][i + 1] = <<n, "second">> /\ files[f][i + 2][2] = "newline"
    /\ i = 1 \/ files[f][i - 1][2] = "newline"

\* Note n comes before note m: in an older file, or earlier in the same.
Before(n, m) ==
    /\ fd[n] \in 1..Len(files) /\ fd[m] \in 1..Len(files)
    /\ \/ fd[n] < fd[m]
       \/ fd[n] = fd[m] /\ \E i, k \in Nat : i < k /\ Begins(n, fd[n], i) /\ Begins(m, fd[m], k)

QueueIsLast == queue # NoFile => queue = Len(files)

FdOfSteer ==
    \A n \in Notes : /\ steer[n] \in {"new", "open"} => fd[n] = NoFile
                     /\ steer[n] \in NotePieces \cup {"queued"} => fd[n] # NoFile

\* A line is begun once, by its sender, in its file.
BegunOnce ==
    \A n \in Notes, f \in 1..Len(files), i \in Nat :
        Begins(n, f, i) => /\ fd[n] = f /\ steer[n] \notin {"new", "open", "first"}
                           /\ \A k \in Nat : Begins(n, f, k) => k = i

\* What was queued before n opened is not behind it.
EarlierAhead ==
    \A n \in Notes : \A m \in earlier[n] :
        /\ steer[m] = "queued" /\ fd[m] \in 1..Len(files) /\ fd[n] \in 1..Len(files) /\ fd[m] <= fd[n]
        /\ fd[m] = fd[n] => \A i, k \in Nat : Begins(m, fd[m], i) /\ Begins(n, fd[n], k) => i < k

FilesInv == QueueIsLast /\ FdOfSteer /\ BegunOnce /\ EarlierAhead

\* A file that was renamed away is read by one loop.
TakenOnce ==
    /\ \A d \in Drivers : Reading(d) => staging[d] \in 1..Len(files) /\ staging[d] # queue
    /\ \A d, e \in Drivers : Reading(d) /\ Reading(e) /\ staging[d] = staging[e] => d = e

HandsEmpty == \A d \in Drivers : at[d] \in {"off", "boundary", "read"} => hand[d] = <<>>

\* Loop d has note n in hand, or has said it.
Has(d, n) == \/ \E i \in 1..Len(hand[d]) : hand[d][i] = n
             \/ \E i \in 1..Len(heard) : heard[i] = <<d, n>>

\* The file of n is not read any more.
Spent(n) ==
    /\ fd[n] \in 1..Len(files) /\ fd[n] # queue
    /\ \A d \in Drivers : Reading(d) => staging[d] # fd[n]

HeldOnce ==
    /\ \A d \in Drivers, n \in Notes : Has(d, n) => Spent(n)
    /\ \A d, e \in Drivers, n \in Notes : Has(d, n) /\ Has(e, n) => d = e

\* What a loop has said, has in hand and is about to read, is in order.
InOrder ==
    /\ \A d \in Drivers : \A i, j \in 1..Len(hand[d]) : i < j => Before(hand[d][i], hand[d][j])
    /\ \A i, j \in 1..Len(heard) :
          i < j /\ heard[i][1] = heard[j][1] => Before(heard[i][2], heard[j][2])
    /\ \A i \in 1..Len(heard) : \A j \in 1..Len(hand[heard[i][1]]) :
          Before(heard[i][2], hand[heard[i][1]][j])
    /\ \A i \in 1..Len(heard) : Reading(heard[i][1]) => fd[heard[i][2]] < staging[heard[i][1]]

Somewhere(n) ==
    \/ queue # NoFile /\ \E i \in Nat : Sealed(n, queue, i)
    \/ \E d \in Drivers : Reading(d) /\ \E i \in Nat : Sealed(n, staging[d], i)
    \/ \E d \in Drivers : Has(d, n)
    \/ n \in dropped \cup unread

LoopsInv == TakenOnce /\ HandsEmpty /\ HeldOnce /\ InOrder /\ \A n \in whole : Somewhere(n)

SteerInv == SteerTypeOK /\ FilesInv /\ LoopsInv

-----------------------------------------------------------------------------
(* What a growing file leaves as it was.                                   *)

Grown ==
    /\ Len(files) <= Len(files')
    /\ \A f \in 1..Len(files) :
          /\ Len(files[f]) <= Len(files'[f])
          /\ \A i \in 1..Len(files[f]) : files'[f][i] = files[f][i]

FdKept == \A n \in Notes : fd[n] # NoFile => fd'[n] = fd[n]

LEMMA NoFileIsNone == NoFile \notin Nat /\ "run" \in Drivers /\ MaxStarts \in Nat
  BY SteerAssumption

LEMMA FilesTyped ==
  ASSUME SteerTypeOK
  PROVE  /\ files \in Seq(Texts) /\ Len(files) \in Nat
         /\ \A f \in 1..Len(files) : files[f] \in Texts /\ Len(files[f]) \in Nat
BY DEF SteerTypeOK, Texts

LEMMA BeginsStays ==
  ASSUME SteerTypeOK, SteerTypeOK', Grown, NEW n, NEW f \in 1..Len(files), NEW i \in Nat, Begins(n, f, i)
  PROVE  Begins(n, f, i)'
BY FilesTyped DEF Begins, Grown

LEMMA SealedStays ==
  ASSUME SteerTypeOK, SteerTypeOK', Grown, NEW n, NEW f \in 1..Len(files), NEW i \in Nat, Sealed(n, f, i)
  PROVE  Sealed(n, f, i)'
<1>1. f \in 1..Len(files') /\ Len(files[f]) \in Nat /\ Len(files'[f]) \in Nat
      /\ Len(files[f]) <= Len(files'[f])
  BY FilesTyped DEF Grown
<1>2. i \in 1..Len(files[f]) /\ i + 1 \in 1..Len(files[f]) /\ i + 2 \in 1..Len(files[f])
      /\ (i # 1 => i - 1 \in 1..Len(files[f]))
  BY <1>1 DEF Sealed
<1>3. i \in 1..Len(files'[f]) - 2
  BY <1>1 DEF Sealed
<1> QED BY <1>1, <1>2, <1>3, BeginsStays DEF Sealed, Grown

LEMMA OrderStays ==
  ASSUME SteerTypeOK, SteerTypeOK', Grown, FdKept,
         NEW n \in Notes, NEW m \in Notes, Before(n, m)
  PROVE  Before(n, m)'
<1>1. fd'[n] = fd[n] /\ fd'[m] = fd[m] /\ fd[n] \in 1..Len(files) /\ fd[m] \in 1..Len(files)
  BY NoFileIsNone DEF Before, FdKept
<1>2. fd'[n] \in 1..Len(files') /\ fd'[m] \in 1..Len(files')
  BY <1>1, FilesTyped DEF Grown
<1>3. CASE fd[n] < fd[m]
  BY <1>1, <1>2, <1>3 DEF Before
<1>4. CASE ~(fd[n] < fd[m])
  <2>1. PICK i \in Nat, k \in Nat : i < k /\ Begins(n, fd[n], i) /\ Begins(m, fd[m], k) /\ fd[n] = fd[m]
    BY <1>4 DEF Before
  <2>2. Begins(n, fd[n], i)' /\ Begins(m, fd[m], k)'
    <3>1. \A x \in Notes, f \in 1..Len(files), l \in Nat : Begins(x, f, l) => Begins(x, f, l)'
      BY BeginsStays
    <3> QED BY <1>1, <2>1, <3>1, ZenonT(60) DEF Begins
  <2> QED BY <1>1, <1>2, <2>1, <2>2 DEF Before
<1> QED BY <1>3, <1>4

\* A sealed line is a note of its file.
LEMMA SealedIsNote ==
  ASSUME NEW text \in Texts, NEW i \in 1..Len(text) - 2, NEW n \in Notes, text[i] = <<n, "first">>,
         text[i + 1] = <<n, "second">>, text[i + 2][2] = "newline", i = 1 \/ text[i - 1][2] = "newline"
  PROVE  IsNote(text, i) /\ text[i][1] = n
<1>1. Len(text) \in Nat /\ text \in Seq(Notes \X NotePieces)
  BY DEF Texts
<1>2. i < Len(text) /\ LineStarts(text, i) /\ LineEnds(text, i + 1)
  BY <1>1 DEF LineStarts, LineEnds
<1>3. SubSeq(text, i, i + 1) = <<text[i], text[i + 1]>>
  <2> DEFINE t == SubSeq(text, i, i + 1)
             B == Notes \X NotePieces
  <2> HIDE DEF B
  <2>0. text \in Seq(B) /\ i \in 1..Len(text) /\ i + 1 \in 1..Len(text)
    BY <1>1 DEF B
  <2>1. t \in Seq(B) /\ Len(t) = 2 /\ t[1] = text[i] /\ t[2] = text[i + 1]
    BY <2>0
  <2> HIDE DEF t
  <2>2. t = <<t[1], t[2]>>
    BY <2>1
  <2> QED BY <2>1, <2>2 DEF t
<1> QED BY <1>2, <1>3 DEF IsNote, NoteLine

LEMMA NoteIsSealed ==
  ASSUME NEW text \in Texts, NEW i \in 1..Len(text), IsNote(text, i), i + 1 < Len(text)
  PROVE  /\ i \in 1..Len(text) - 2 /\ text[i] = <<text[i][1], "first">>
         /\ text[i + 1] = <<text[i][1], "second">>
         /\ text[i + 2][2] = "newline" /\ (i = 1 \/ text[i - 1][2] = "newline")
<1>1. Len(text) \in Nat
  BY DEF Texts
<1>2. text[i] = <<text[i][1], "first">> /\ text[i + 1] = <<text[i][1], "second">>
  BY NoteBegins
<1>3. text[i + 2][2] = "newline"
  <2>1. i + 1 # Len(text) /\ (i + 1) + 1 = i + 2
    BY <1>1
  <2> QED BY <2>1 DEF IsNote, LineEnds
<1>4. i = 1 \/ text[i - 1][2] = "newline"
  BY DEF IsNote, LineStarts
<1> QED BY <1>1, <1>2, <1>3, <1>4

-----------------------------------------------------------------------------
(* The senders.                                                            *)

\* One more piece at the end of a file.
LEMMA PieceGrows ==
  ASSUME SteerTypeOK, NEW f \in 1..Len(files), NEW x \in Notes \X NotePieces,
         files' = [files EXCEPT ![f] = Append(files[f], x)]
  PROVE  /\ files' \in Seq(Texts) /\ Len(files') = Len(files) /\ Grown
         /\ Len(files'[f]) = Len(files[f]) + 1 /\ files'[f][Len(files[f]) + 1] = x
         /\ \A i \in 1..Len(files[f]) : files'[f][i] = files[f][i]
         /\ \A g \in 1..Len(files) : g # f => files'[g] = files[g]
<1>1. files \in Seq(Texts) /\ files[f] \in Seq(Notes \X NotePieces) /\ Len(files[f]) \in Nat
  BY FilesTyped DEF Texts
<1> DEFINE t == Append(files[f], x)
<1>2. /\ t \in Texts /\ Len(t) = Len(files[f]) + 1 /\ t[Len(files[f]) + 1] = x
      /\ \A i \in 1..Len(files[f]) : t[i] = files[f][i]
  BY <1>1 DEF Texts
<1> HIDE DEF t
<1>3. files' = [files EXCEPT ![f] = t]
  BY DEF t
<1>4. files' \in Seq(Texts) /\ Len(files') = Len(files) /\ files'[f] = t
      /\ \A g \in 1..Len(files) : g # f => files'[g] = files[g]
  <2> DEFINE B == Texts
  <2> HIDE DEF B
  <2>1. files \in Seq(B) /\ t \in B /\ f \in 1..Len(files)
    BY <1>1, <1>2 DEF B
  <2>2. files' \in Seq(B) /\ Len(files') = Len(files) /\ files'[f] = t
        /\ \A g \in 1..Len(files) : g # f => files'[g] = files[g]
    <3>1. /\ [files EXCEPT ![f] = t] \in Seq(B) /\ Len([files EXCEPT ![f] = t]) = Len(files)
          /\ \A j \in 1..Len(files) : [files EXCEPT ![f] = t][j] = IF j = f THEN t ELSE files[j]
      BY <2>1, ExceptSeq
    <3> QED BY <1>3, <2>1, <3>1
  <2> QED BY <2>2 DEF B
<1>5. Grown
  BY <1>1, <1>2, <1>4, FilesTyped DEF Grown
<1> QED BY <1>2, <1>4, <1>5

LEMMA NothingGrows == ASSUME SteerTypeOK, UNCHANGED files PROVE Grown
  BY FilesTyped DEF Grown

\* A new file.
LEMMA FileGrows ==
  ASSUME SteerTypeOK, files' = Append(files, <<>>)
  PROVE  /\ files' \in Seq(Texts) /\ Len(files') = Len(files) + 1 /\ Grown
         /\ files'[Len(files) + 1] = <<>> /\ \A g \in 1..Len(files) : files'[g] = files[g]
<1>1. files \in Seq(Texts) /\ <<>> \in Texts
  BY FilesTyped DEF Texts
<1>2. files' \in Seq(Texts) /\ Len(files') = Len(files) + 1 /\ Len(files) \in Nat
      /\ files'[Len(files) + 1] = <<>> /\ \A g \in 1..Len(files) : files'[g] = files[g]
  BY <1>1
<1> QED BY <1>2, FilesTyped DEF Grown

\* What a step of a sender is to the loops.
SenderDid ==
    /\ SteerTypeOK' /\ FilesInv' /\ Grown /\ FdKept /\ UNCHANGED loop
    /\ queue' = queue \/ (queue = NoFile /\ queue' = Len(files) + 1)
    /\ \A n \in whole' : n \in whole \/ (queue # NoFile /\ \E i \in Nat : Sealed(n, queue, i)')

LEMMA SteerSteps ==
  ASSUME SteerTypeOK, NEW n \in Notes,
         NEW v \in {"new", "open", "first", "second", "newline", "queued", "refused"},
         steer' = [steer EXCEPT ![n] = v]
  PROVE  /\ steer' \in [Notes -> {"new", "open", "first", "second", "newline", "queued", "refused"}]
         /\ steer'[n] = v /\ \A m \in Notes : m # n => steer'[m] = steer[m]
BY DEF SteerTypeOK

LEMMA ProbeRunDid == ASSUME SteerInv, NEW n \in Notes, ProbeRun(n) PROVE SenderDid
<1>1. /\ steer[n] = "new" /\ UNCHANGED <<files, queue, fd, whole, earlier, loop>>
      /\ steer' = [steer EXCEPT ![n] = IF at["run"] = "off" THEN "refused" ELSE "open"]
  BY DEF ProbeRun
<1>2. /\ steer' \in [Notes -> {"new", "open", "first", "second", "newline", "queued", "refused"}]
      /\ steer'[n] \in {"refused", "open"} /\ \A m \in Notes : m # n => steer'[m] = steer[m]
  BY <1>1, SteerSteps DEF SteerInv
<1>3. SteerTypeOK'
  BY <1>1, <1>2 DEF SteerInv, SteerTypeOK, loop
<1>4. FilesInv'
  <2>1. QueueIsLast' /\ FdOfSteer'
    BY <1>1, <1>2 DEF SteerInv, FilesInv, QueueIsLast, FdOfSteer, NotePieces
  <2>2. fd[n] = NoFile
    BY <1>1 DEF SteerInv, FilesInv, FdOfSteer
  <2>3. BegunOnce'
    BY <1>1, <1>2, <2>2, NoFileIsNone DEF SteerInv, FilesInv, BegunOnce, Begins
  <2>4. EarlierAhead'
    <3>1. \A m \in Notes : n \notin earlier[m]
      BY <1>1 DEF SteerInv, FilesInv, EarlierAhead
    <3>2. \A m \in Notes : earlier[m] \subseteq Notes
      BY DEF SteerInv, SteerTypeOK
    <3> QED BY <1>1, <1>2, <3>1, <3>2 DEF SteerInv, FilesInv, EarlierAhead, Begins
  <2> QED BY <2>1, <2>3, <2>4 DEF FilesInv
<1>5. Grown /\ FdKept
  BY <1>1, NothingGrows DEF SteerInv, FdKept
<1> QED BY <1>1, <1>3, <1>4, <1>5 DEF SenderDid

LEMMA WriteNoteFailsDid == ASSUME SteerInv, NEW n \in Notes, WriteNoteFails(n) PROVE SenderDid
<1>1. /\ steer[n] \in NotePieces /\ UNCHANGED <<files, queue, fd, whole, earlier, loop>>
      /\ steer' = [steer EXCEPT ![n] = "refused"]
  BY DEF WriteNoteFails
<1>2. /\ steer' \in [Notes -> {"new", "open", "first", "second", "newline", "queued", "refused"}]
      /\ steer'[n] = "refused" /\ \A m \in Notes : m # n => steer'[m] = steer[m]
  BY <1>1, SteerSteps DEF SteerInv
<1>3. SteerTypeOK'
  BY <1>1, <1>2 DEF SteerInv, SteerTypeOK, loop
<1>4. FilesInv'
  <2>1. QueueIsLast' /\ FdOfSteer'
    BY <1>1, <1>2 DEF SteerInv, FilesInv, QueueIsLast, FdOfSteer, NotePieces
  <2>3. BegunOnce'
    <3>1. \A m \in Notes : steer'[m] \in {"new", "open", "first"} => steer[m] \in {"new", "open", "first"}
      BY <1>2
    <3> QED BY <1>1, <3>1 DEF SteerInv, FilesInv, BegunOnce, Begins
  <2>4. EarlierAhead'
    <3>1. \A m \in Notes : n \notin earlier[m]
      BY <1>1 DEF SteerInv, FilesInv, EarlierAhead, NotePieces
    <3>2. \A m \in Notes : earlier[m] \subseteq Notes
      BY DEF SteerInv, SteerTypeOK
    <3> QED BY <1>1, <1>2, <3>1, <3>2 DEF SteerInv, FilesInv, EarlierAhead, Begins
  <2> QED BY <2>1, <2>3, <2>4 DEF FilesInv
<1>5. Grown /\ FdKept
  BY <1>1, NothingGrows DEF SteerInv, FdKept
<1> QED BY <1>1, <1>3, <1>4, <1>5 DEF SenderDid

LEMMA OpenDid == ASSUME SteerInv, NEW n \in Notes, Open(n) PROVE SenderDid
<1>1. /\ steer[n] = "open" /\ fd' = [fd EXCEPT ![n] = queue'] /\ steer' = [steer EXCEPT ![n] = "first"]
      /\ earlier' = [earlier EXCEPT ![n] = {m \in Notes : steer[m] = "queued"}]
      /\ UNCHANGED <<whole, loop>>
  BY DEF Open
<1>2. \/ queue = NoFile /\ files' = Append(files, <<>>) /\ queue' = Len(files) + 1
      \/ queue # NoFile /\ files' = files /\ queue' = queue
  BY DEF Open
<1>3. /\ files' \in Seq(Texts) /\ Grown /\ Len(files) \in Nat /\ Len(files') \in Nat
      /\ queue' = Len(files') /\ queue' # NoFile /\ queue' \in 1..Len(files')
      /\ \A g \in 1..Len(files) : files'[g] = files[g]
      /\ \A g \in 1..Len(files') : g \in 1..Len(files) \/ (files'[g] = <<>>)
  <2>1. CASE queue = NoFile
    BY <1>2, <2>1, FileGrows, FilesTyped, NoFileIsNone DEF SteerInv
  <2>2. CASE queue # NoFile
    BY <1>2, <2>2, NothingGrows, FilesTyped DEF SteerInv, FilesInv, QueueIsLast, SteerTypeOK
  <2> QED BY <2>1, <2>2
<1>4. /\ steer' \in [Notes -> {"new", "open", "first", "second", "newline", "queued", "refused"}]
      /\ steer'[n] = "first" /\ \A m \in Notes : m # n => steer'[m] = steer[m]
  BY <1>1, SteerSteps DEF SteerInv
<1>5. /\ fd \in [Notes -> (1..Len(files)) \cup {NoFile}] /\ fd[n] = NoFile
      /\ fd'[n] = queue' /\ \A m \in Notes : m # n => fd'[m] = fd[m]
      /\ fd' \in [Notes -> (1..Len(files')) \cup {NoFile}]
  BY <1>1, <1>3 DEF SteerInv, SteerTypeOK, FilesInv, FdOfSteer, Grown
<1>6. /\ earlier' \in [Notes -> SUBSET Notes] /\ earlier'[n] = {m \in Notes : steer[m] = "queued"}
      /\ \A m \in Notes : m # n => earlier'[m] = earlier[m]
  BY <1>1 DEF SteerInv, SteerTypeOK
<1>7. SteerTypeOK'
  <2>1. staging' \in [Drivers -> (1..Len(files')) \cup {NoFile}]
    BY <1>1, <1>3 DEF SteerInv, SteerTypeOK, loop, Grown
  <2> QED BY <1>1, <1>3, <1>4, <1>5, <1>6, <2>1 DEF SteerInv, SteerTypeOK, loop, Texts
<1>8. \A m, g, i : Begins(m, g, i)' /\ g \in 1..Len(files') => g \in 1..Len(files) /\ Begins(m, g, i)
  BY <1>3 DEF Begins
<1>9. QueueIsLast' /\ FdOfSteer'
  BY <1>3, <1>4, <1>5 DEF SteerInv, FilesInv, QueueIsLast, FdOfSteer, NotePieces
<1>10. \A g \in 1..Len(files), i \in Nat : ~Begins(n, g, i)
  BY <1>1 DEF SteerInv, FilesInv, BegunOnce
<1>11. BegunOnce'
  BY <1>3, <1>4, <1>5, <1>8, <1>10 DEF SteerInv, FilesInv, BegunOnce
<1>12. EarlierAhead'
  <2> SUFFICES ASSUME NEW k \in Notes, NEW m \in earlier'[k]
               PROVE  /\ steer'[m] = "queued" /\ fd'[m] \in 1..Len(files') /\ fd'[k] \in 1..Len(files')
                      /\ fd'[m] <= fd'[k]
                      /\ fd'[m] = fd'[k] =>
                            \A i, j \in Nat : Begins(m, fd[m], i)' /\ Begins(k, fd[k], j)' => i < j
    BY DEF EarlierAhead
  <2>0. m \in Notes /\ Len(files) <= Len(files')
    BY <1>3, <1>6 DEF Grown
  <2>1. CASE k = n
    <3>1. m # n /\ steer'[m] = "queued" /\ fd'[m] = fd[m] /\ fd[m] \in 1..Len(files)
      BY <1>1, <1>4, <1>5, <1>6, <2>0, <2>1 DEF SteerInv, FilesInv, FdOfSteer
    <3>2. fd'[m] \in 1..Len(files') /\ fd'[k] \in 1..Len(files') /\ fd'[m] <= fd'[k]
      BY <1>3, <1>5, <2>0, <2>1, <3>1
    <3>3. \A j \in Nat : ~Begins(k, fd[k], j)'
      BY <1>8, <1>10, <2>1, <3>2
    <3> QED BY <3>1, <3>2, <3>3
  <2>2. CASE k # n
    <3>1. m \in earlier[k]
      BY <1>6, <2>2
    <3>2. steer[m] = "queued" /\ fd[m] \in 1..Len(files) /\ fd[k] \in 1..Len(files) /\ fd[m] <= fd[k] /\ m # n
      BY <1>1, <3>1 DEF SteerInv, FilesInv, EarlierAhead
    <3>3. fd'[m] = fd[m] /\ fd'[k] = fd[k] /\ steer'[m] = steer[m]
      BY <1>4, <1>5, <2>0, <2>2, <3>2
    <3>4. fd[m] \in 1..Len(files') /\ fd[k] \in 1..Len(files')
      BY <1>3, <2>0, <3>2
    <3>5. \A i \in Nat : /\ Begins(m, fd[m], i)' => Begins(m, fd[m], i)
                         /\ Begins(k, fd[k], i)' => Begins(k, fd[k], i)
      BY <1>8, <3>3, <3>4
    <3> QED BY <3>1, <3>2, <3>3, <3>4, <3>5 DEF SteerInv, FilesInv, EarlierAhead
  <2> QED BY <2>1, <2>2
<1>13. FdKept
  BY <1>5 DEF FdKept
<1> QED BY <1>1, <1>2, <1>3, <1>7, <1>9, <1>11, <1>12, <1>13 DEF SenderDid, FilesInv

LEMMA WriteNoteDid == ASSUME SteerInv, NEW n \in Notes, WriteNote(n) PROVE SenderDid
<1> DEFINE f == fd[n]  x == <<n, steer[n]>>  l == Len(files[f]) + 1
<1>1. /\ steer[n] \in NotePieces /\ files' = [files EXCEPT ![f] = Append(files[f], x)]
      /\ steer' = [steer EXCEPT ![n] = Following(steer[n])]
      /\ whole' = whole \cup {m \in {n} : steer[n] = "newline" /\ queue = f /\ InText(m, files'[queue])}
      /\ UNCHANGED <<queue, fd, earlier, loop>>
  BY DEF WriteNote
<1>2. f \in 1..Len(files) /\ x \in Notes \X NotePieces /\ Len(files[f]) \in Nat /\ Len(files) \in Nat
  <2>1. fd[n] # NoFile /\ fd[n] \in (1..Len(files)) \cup {NoFile}
    BY <1>1 DEF SteerInv, SteerTypeOK, FilesInv, FdOfSteer
  <2> QED BY <1>1, <2>1, FilesTyped DEF SteerInv
<1>3. /\ files' \in Seq(Texts) /\ Len(files') = Len(files) /\ Grown
      /\ Len(files'[f]) = l /\ files'[f][l] = x
      /\ \A i \in 1..Len(files[f]) : files'[f][i] = files[f][i]
      /\ \A g \in 1..Len(files) : g # f => files'[g] = files[g]
  <2> HIDE DEF x
  <2> QED BY <1>1, <1>2, PieceGrows DEF SteerInv
<1>4. /\ Following(steer[n]) \in {"second", "newline", "queued"}
      /\ steer[n] = "first" => Following(steer[n]) = "second"
      /\ steer[n] = "second" => Following(steer[n]) = "newline"
      /\ steer[n] = "newline" => Following(steer[n]) = "queued"
  BY <1>1 DEF Following, NotePieces
<1>5. /\ steer' \in [Notes -> {"new", "open", "first", "second", "newline", "queued", "refused"}]
      /\ steer'[n] = Following(steer[n]) /\ \A m \in Notes : m # n => steer'[m] = steer[m]
  BY <1>1, <1>4, SteerSteps DEF SteerInv
<1> HIDE DEF f, x, l
<1>6. SteerTypeOK'
  <2>1. whole' \subseteq Notes
    BY <1>1 DEF SteerInv, SteerTypeOK
  <2> QED BY <1>1, <1>3, <1>5, <2>1 DEF SteerInv, SteerTypeOK, loop, Texts
\* What is begun now was begun before, or is the piece just written.
<1>7. ASSUME NEW m \in Notes, NEW g \in 1..Len(files), NEW i \in Nat, Begins(m, g, i)'
      PROVE  Begins(m, g, i) \/ (m = n /\ g = f /\ i = l /\ steer[n] = "first")
  <2>1. CASE g # f
    BY <1>3, <1>7, <2>1 DEF Begins
  <2>2. CASE g = f
    <3>1. i \in 1..l /\ files'[f][i] = <<m, "first">>
      BY <1>3, <1>7, <2>2 DEF Begins
    <3>2. CASE i = l
      <4>1. x = <<m, "first">>
        BY <1>3, <3>1, <3>2
      <4> QED BY <2>2, <3>2, <4>1 DEF x
    <3>3. CASE i # l
      <4>1. i \in 1..Len(files[f])
        BY <1>2, <3>1, <3>3 DEF l
      <4> QED BY <1>3, <2>2, <3>1, <4>1 DEF Begins
    <3> QED BY <3>2, <3>3
  <2> QED BY <2>1, <2>2
<1>8. QueueIsLast' /\ FdOfSteer'
  BY <1>1, <1>2, <1>3, <1>4, <1>5 DEF SteerInv, FilesInv, QueueIsLast, FdOfSteer, NotePieces, f
<1>9. BegunOnce'
  <2>1. steer[n] = "first" => \A g \in 1..Len(files), i \in Nat : ~Begins(n, g, i)
    BY DEF SteerInv, FilesInv, BegunOnce
  <2>2. ASSUME NEW m \in Notes, NEW g \in 1..Len(files), NEW i \in Nat, Begins(m, g, i)'
        PROVE  fd[m] = g /\ steer'[m] \notin {"new", "open", "first"}
    <3>1. CASE Begins(m, g, i)
      BY <1>4, <1>5, <3>1 DEF SteerInv, FilesInv, BegunOnce
    <3>2. CASE m = n /\ g = f
      BY <1>4, <1>5, <3>2 DEF f
    <3> QED BY <1>7, <2>2, <3>1, <3>2
  <2>3. ASSUME NEW m \in Notes, NEW g \in 1..Len(files), NEW i \in Nat, NEW k \in Nat,
               Begins(m, g, i)', Begins(m, g, k)'
        PROVE  k = i
    <3>1. Begins(m, g, i) \/ (m = n /\ g = f /\ i = l /\ steer[n] = "first")
      BY <1>7, <2>3
    <3>2. Begins(m, g, k) \/ (m = n /\ g = f /\ k = l /\ steer[n] = "first")
      BY <1>7, <2>3
    <3> QED BY <2>1, <3>1, <3>2 DEF SteerInv, FilesInv, BegunOnce
  <2>4. Len(files') = Len(files) /\ fd' = fd
    BY <1>1, <1>3
  <2> QED BY <2>2, <2>3, <2>4 DEF BegunOnce
<1>10. EarlierAhead'
  <2> SUFFICES ASSUME NEW k \in Notes, NEW m \in earlier[k]
               PROVE  /\ steer'[m] = "queued" /\ fd[m] \in 1..Len(files) /\ fd[k] \in 1..Len(files)
                      /\ fd[m] <= fd[k]
                      /\ fd[m] = fd[k] =>
                            \A i, j \in Nat : Begins(m, fd[m], i)' /\ Begins(k, fd[k], j)' => i < j
    BY <1>1, <1>3 DEF EarlierAhead
  <2>1. /\ steer[m] = "queued" /\ fd[m] \in 1..Len(files) /\ fd[k] \in 1..Len(files) /\ fd[m] <= fd[k]
        /\ fd[m] = fd[k] => \A i, j \in Nat : Begins(m, fd[m], i) /\ Begins(k, fd[k], j) => i < j
    BY DEF SteerInv, FilesInv, EarlierAhead
  <2>2. m \in Notes /\ m # n
    BY <1>1, <2>1 DEF SteerInv, SteerTypeOK, NotePieces
  <2>3. ASSUME fd[m] = fd[k], NEW i \in Nat, NEW j \in Nat, Begins(m, fd[m], i)', Begins(k, fd[k], j)'
        PROVE  i < j
    <3>1. Begins(m, fd[m], i)
      BY <1>1, <1>7, <2>1, <2>2, <2>3
    <3>2. CASE Begins(k, fd[k], j)
      BY <2>1, <2>3, <3>1, <3>2
    <3>3. CASE fd[k] = f /\ j = l
      BY <1>2, <2>3, <3>1, <3>3 DEF Begins, l
    <3>4. Begins(k, fd[k], j) \/ (k = n /\ fd[k] = f /\ j = l /\ steer[n] = "first")
      BY <1>1, <1>7, <2>1, <2>3
    <3> QED BY <3>2, <3>3, <3>4
  <2>4. steer'[m] = "queued"
    BY <1>5, <2>1, <2>2
  <2>5. \A i, j \in Nat : fd[m] = fd[k] /\ Begins(m, fd[m], i)' /\ Begins(k, fd[k], j)' => i < j
    BY <2>3
  <2> QED BY <2>1, <2>4, <2>5
<1>11. FdKept
  BY <1>1 DEF FdKept
<1>12. ASSUME NEW m \in whole', m \notin whole
       PROVE  queue # NoFile /\ \E i \in Nat : Sealed(m, queue, i)'
  <2>1. m = n /\ steer[n] = "newline" /\ queue = f /\ InText(n, files'[f])
    BY <1>1, <1>12
  <2> DEFINE t == files'[f]
  <2>2. t \in Texts
    BY <1>2, <1>3
  <2>3. PICK i \in 1..Len(t) : IsNote(t, i) /\ t[i][1] = n
    BY <2>1 DEF InText
  <2>4. Len(t) = l /\ t[l] = <<n, "newline">> /\ l \in Nat
    BY <1>2, <1>3, <2>1 DEF x, l
  <2> HIDE DEF t
  <2>5. i < Len(t) /\ t[i + 1] = <<t[i][1], "second">>
    BY <2>2, <2>3, NoteBegins
  <2>6. i + 1 < Len(t)
    <3>1. i + 1 # l
      <4>1. t[i + 1] # <<n, "newline">>
        BY <2>5
      <4> QED BY <2>4, <4>1
    <3> QED BY <2>4, <2>5, <3>1
  <2>7. /\ i \in 1..Len(t) - 2 /\ t[i] = <<n, "first">> /\ t[i + 1] = <<n, "second">>
        /\ t[i + 2][2] = "newline" /\ (i = 1 \/ t[i - 1][2] = "newline")
    BY <2>2, <2>3, <2>6, NoteIsSealed
  <2>8. queue' = f
    BY <1>1, <2>1
  <2>9. Sealed(n, queue, i)' /\ i \in Nat
    BY <2>3, <2>7, <2>8 DEF Sealed, Begins, t
  <2> QED BY <1>2, <2>1, <2>9, NoFileIsNone
<1> QED BY <1>1, <1>3, <1>6, <1>8, <1>9, <1>10, <1>11, <1>12 DEF SenderDid, FilesInv

LEMMA SenderKeeps == ASSUME SteerInv, SenderDid PROVE SteerInv'
<1> USE DEF SenderDid
<1>1. /\ SteerTypeOK /\ SteerTypeOK' /\ Grown /\ FdKept /\ Len(files) \in Nat /\ Len(files') \in Nat
      /\ Len(files) <= Len(files') /\ at' = at /\ staging' = staging /\ hand' = hand /\ heard' = heard
      /\ dropped' = dropped /\ unread' = unread
  BY FilesTyped DEF SteerInv, Grown, loop
<1>2. \A n, m \in Notes : Before(n, m) => Before(n, m)'
  BY <1>1, OrderStays
<1>3. \A d \in Drivers : (Reading(d)' <=> Reading(d)) /\ \A n \in Notes : Has(d, n)' <=> Has(d, n)
  BY <1>1 DEF Reading, Has
<1>4. TakenOnce'
  <2>1. \A d \in Drivers : Reading(d) => /\ staging[d] \in 1..Len(files) /\ staging[d] # queue
    BY DEF SteerInv, LoopsInv, TakenOnce
  <2>2. \A d \in Drivers : Reading(d) => /\ staging[d] \in 1..Len(files') /\ staging[d] # queue'
    BY <1>1, <2>1
  <2> QED BY <1>1, <1>3, <2>2 DEF SteerInv, LoopsInv, TakenOnce
<1>5. HandsEmpty'
  BY <1>1 DEF SteerInv, LoopsInv, HandsEmpty
<1>6. HeldOnce'
  <2>1. ASSUME NEW n \in Notes, Spent(n) PROVE Spent(n)'
    <3>1. fd[n] \in 1..Len(files) /\ fd'[n] = fd[n]
      BY <2>1, NoFileIsNone DEF Spent, FdKept
    <3>2. fd[n] # queue'
      BY <1>1, <2>1, <3>1 DEF Spent
    <3> QED BY <1>1, <1>3, <2>1, <3>1, <3>2 DEF Spent
  <2> QED BY <1>3, <2>1 DEF SteerInv, LoopsInv, HeldOnce
<1>7. InOrder'
  <2>1. /\ heard \in Seq(Drivers \X Notes) /\ hand \in [Drivers -> Seq(Notes)]
    BY DEF SteerInv, SteerTypeOK
  <2>2. \A d \in Drivers : \A i \in 1..Len(hand[d]) : hand[d][i] \in Notes
    BY <2>1
  <2>3. \A i \in 1..Len(heard) : heard[i][1] \in Drivers /\ heard[i][2] \in Notes
    BY <2>1
  <2>4. \A d \in Drivers : \A i, j \in 1..Len(hand[d]) : i < j => Before(hand[d][i], hand[d][j])'
    BY <1>1, <1>2, <2>2 DEF SteerInv, LoopsInv, InOrder
  <2>5. \A i, j \in 1..Len(heard) : i < j /\ heard[i][1] = heard[j][1] => Before(heard[i][2], heard[j][2])'
    BY <1>1, <1>2, <2>3 DEF SteerInv, LoopsInv, InOrder
  <2>6. \A i \in 1..Len(heard) : \A j \in 1..Len(hand[heard[i][1]]) :
          Before(heard[i][2], hand[heard[i][1]][j])'
    BY <1>1, <1>2, <2>2, <2>3 DEF SteerInv, LoopsInv, InOrder
  <2>7. \A i \in 1..Len(heard) : Reading(heard[i][1]) => fd'[heard[i][2]] < staging[heard[i][1]]
    <3> SUFFICES ASSUME NEW i \in 1..Len(heard), Reading(heard[i][1])
                 PROVE  fd'[heard[i][2]] < staging[heard[i][1]]
      OBVIOUS
    <3>1. Has(heard[i][1], heard[i][2])
      <4>1. heard[i] = <<heard[i][1], heard[i][2]>>
        BY <2>1
      <4> QED BY <4>1 DEF Has
    <3>2. fd[heard[i][2]] \in 1..Len(files)
      BY <2>3, <3>1 DEF SteerInv, LoopsInv, HeldOnce, Spent
    <3>3. fd'[heard[i][2]] = fd[heard[i][2]]
      BY <2>3, <3>2, NoFileIsNone DEF FdKept
    <3> QED BY <3>3 DEF SteerInv, LoopsInv, InOrder
  <2> QED BY <1>1, <1>3, <2>3, <2>4, <2>5, <2>6, <2>7 DEF InOrder
<1>8. \A n \in whole' : Somewhere(n)'
  <2> SUFFICES ASSUME NEW n \in whole' PROVE Somewhere(n)'
    OBVIOUS
  <2>0. \A g \in 1..Len(files), i \in Nat : Sealed(n, g, i) => Sealed(n, g, i)'
    BY <1>1, SealedStays
  <2>1. CASE n \notin whole
    <3>1. queue # NoFile /\ queue' = queue /\ \E i \in Nat : Sealed(n, queue, i)'
      BY <2>1
    <3> QED BY <3>1 DEF Somewhere
  <2>2. CASE n \in whole
    <3>1. Somewhere(n) /\ n \in Notes
      BY <2>2 DEF SteerInv, LoopsInv, SteerTypeOK
    <3>2. CASE queue # NoFile /\ \E i \in Nat : Sealed(n, queue, i)
      <4>1. PICK i \in Nat : Sealed(n, queue, i)
        BY <3>2
      <4>2. queue \in 1..Len(files) /\ queue' = queue
        BY <3>2 DEF SteerInv, SteerTypeOK
      <4>3. Sealed(n, queue, i)'
        BY <2>0, <4>1, <4>2 DEF Sealed, Begins
      <4> QED BY <3>2, <4>2, <4>3 DEF Somewhere
    <3>3. CASE \E d \in Drivers : Reading(d) /\ \E i \in Nat : Sealed(n, staging[d], i)
      <4>1. PICK d \in Drivers, i \in Nat : Reading(d) /\ Sealed(n, staging[d], i)
        BY <3>3
      <4>2. staging[d] \in 1..Len(files)
        BY <4>1 DEF SteerInv, LoopsInv, TakenOnce
      <4>3. Sealed(n, staging[d], i)'
        BY <1>1, <2>0, <4>1, <4>2 DEF Sealed, Begins
      <4> QED BY <1>3, <4>1, <4>3 DEF Somewhere
    <3>4. CASE \E d \in Drivers : Has(d, n)
      BY <1>3, <3>1, <3>4 DEF Somewhere
    <3>5. CASE n \in dropped \cup unread
      BY <1>1, <3>5 DEF Somewhere
    <3> QED BY <3>1, <3>2, <3>3, <3>4, <3>5 DEF Somewhere
  <2> QED BY <2>1, <2>2
<1> QED BY <1>1, <1>4, <1>5, <1>6, <1>7, <1>8 DEF SteerInv, LoopsInv

-----------------------------------------------------------------------------
(* The loops.                                                              *)

\* No loop writes a file: what is written, and in which order, stays.
LEMMA LoopsOnlyRead ==
  ASSUME SteerInv, UNCHANGED <<files, sender>>, queue' \in {queue, NoFile}
  PROVE  /\ FilesInv' /\ fd' = fd /\ files' = files /\ whole' = whole
         /\ \A n, m \in Notes : Before(n, m) => Before(n, m)'
         /\ \A n, f, i : Sealed(n, f, i) => Sealed(n, f, i)'
<1>1. fd' = fd /\ files' = files /\ whole' = whole /\ steer' = steer /\ earlier' = earlier
  BY DEF sender
<1>2. QueueIsLast' /\ FdOfSteer' /\ BegunOnce'
  <2>1. QueueIsLast'
    BY <1>1 DEF SteerInv, FilesInv, QueueIsLast
  <2>2. FdOfSteer'
    BY <1>1 DEF SteerInv, FilesInv, FdOfSteer
  <2>3. BegunOnce'
    BY <1>1, SMTT(30) DEF SteerInv, FilesInv, BegunOnce, Begins
  <2> QED BY <2>1, <2>2, <2>3
<1>3. EarlierAhead'
  BY <1>1 DEF SteerInv, FilesInv, EarlierAhead, Begins
<1> QED BY <1>1, <1>2, <1>3 DEF FilesInv, Before, Sealed, Begins

\* A loop's place.
LEMMA AtSteps ==
  ASSUME SteerTypeOK, NEW d \in Drivers, NEW v \in {"off", "boundary", "read", "remove", "say"},
         at' = [at EXCEPT ![d] = v]
  PROVE  /\ at' \in [Drivers -> {"off", "boundary", "read", "remove", "say"}]
         /\ at'[d] = v /\ \A e \in Drivers : e # d => at'[e] = at[e]
BY DEF SteerTypeOK

LEMMA HeardTyped ==
  ASSUME SteerTypeOK
  PROVE  /\ heard \in Seq(Drivers \X Notes) /\ Len(heard) \in Nat /\ hand \in [Drivers -> Seq(Notes)]
         /\ \A d \in Drivers : /\ Len(hand[d]) \in Nat
                               /\ \A i \in 1..Len(hand[d]) : hand[d][i] \in Notes
         /\ \A i \in 1..Len(heard) : /\ heard[i][1] \in Drivers /\ heard[i][2] \in Notes
                                     /\ heard[i] = <<heard[i][1], heard[i][2]>>
                                     /\ Has(heard[i][1], heard[i][2])
<1>1. heard \in Seq(Drivers \X Notes) /\ hand \in [Drivers -> Seq(Notes)]
  BY DEF SteerTypeOK
<1>2. \A i \in 1..Len(heard) : /\ heard[i][1] \in Drivers /\ heard[i][2] \in Notes
                               /\ heard[i] = <<heard[i][1], heard[i][2]>>
  BY <1>1
<1> QED BY <1>1, <1>2 DEF Has

\* A step that changes no hand, and nothing that has been said, and after which
\* no loop reads that did not read before.
LEMMA OrderKept ==
  ASSUME SteerInv, UNCHANGED <<files, sender, hand, heard>>, queue' \in {queue, NoFile},
         \A d \in Drivers : Reading(d)' => Reading(d) /\ staging'[d] = staging[d]
  PROVE  TakenOnce' /\ HeldOnce' /\ InOrder'
<1>1. /\ \A n, m \in Notes : Before(n, m) => Before(n, m)'
      /\ fd' = fd /\ files' = files /\ hand' = hand /\ heard' = heard
  BY LoopsOnlyRead
<1>2. TakenOnce'
  BY <1>1, NoFileIsNone DEF SteerInv, LoopsInv, TakenOnce
<1>3. HeldOnce'
  <2>1. \A d \in Drivers, n \in Notes : Has(d, n)' <=> Has(d, n)
    BY <1>1 DEF Has
  <2>2. \A n \in Notes : Spent(n) => Spent(n)'
    BY <1>1, NoFileIsNone DEF Spent
  <2> QED BY <2>1, <2>2 DEF SteerInv, LoopsInv, HeldOnce
<1>4. InOrder'
  <2>1. SteerTypeOK /\ InOrder
    BY DEF SteerInv, LoopsInv
  <2> QED BY <1>1, <2>1, HeardTyped, ZenonT(60) DEF InOrder
<1> QED BY <1>2, <1>3, <1>4

LEMMA StartKeeps == ASSUME SteerInv, NEW d \in Drivers, Start(d) PROVE SteerInv'
<1>1. /\ at[d] = "off" /\ starts < MaxStarts /\ starts' = starts + 1 /\ at' = [at EXCEPT ![d] = "boundary"]
      /\ staging' = [staging EXCEPT ![d] = NoFile] /\ UNCHANGED <<files, queue, hand, heard, sender, dropped, unread>>
  BY DEF Start
<1>2. /\ at' \in [Drivers -> {"off", "boundary", "read", "remove", "say"}]
      /\ at'[d] = "boundary" /\ \A e \in Drivers : e # d => at'[e] = at[e]
  BY <1>1, AtSteps DEF SteerInv
<1>3. /\ staging' \in [Drivers -> (1..Len(files)) \cup {NoFile}]
      /\ \A e \in Drivers : e # d => staging'[e] = staging[e]
  BY <1>1 DEF SteerInv, SteerTypeOK
<1>4. SteerTypeOK'
  BY <1>1, <1>2, <1>3, NoFileIsNone DEF SteerInv, SteerTypeOK, sender
<1>5. \A e \in Drivers : (Reading(e)' <=> Reading(e)) /\ (Reading(e) => staging'[e] = staging[e])
  BY <1>1, <1>2, <1>3 DEF Reading
<1>6. TakenOnce' /\ HeldOnce' /\ InOrder'
  BY <1>1, <1>5, OrderKept
<1>7. HandsEmpty'
  BY <1>1, <1>2 DEF SteerInv, LoopsInv, HandsEmpty
<1>8. /\ FilesInv' /\ whole' = whole /\ \A n, f, i : Sealed(n, f, i) => Sealed(n, f, i)'
  BY <1>1, LoopsOnlyRead
<1>9. \A n \in Notes : Somewhere(n) => Somewhere(n)'
  <2>1. \A e \in Drivers, n \in Notes : Has(e, n)' <=> Has(e, n)
    BY <1>1 DEF Has
  <2> QED BY <1>1, <1>5, <1>8, <2>1 DEF Somewhere
<1> QED BY <1>4, <1>6, <1>7, <1>8, <1>9 DEF SteerInv, LoopsInv, SteerTypeOK

LEMMA RemoveStagingKeeps == ASSUME SteerInv, NEW d \in Drivers, RemoveStaging(d) PROVE SteerInv'
<1>1. /\ at[d] = "remove" /\ at' = [at EXCEPT ![d] = "say"] /\ staging' = [staging EXCEPT ![d] = NoFile]
      /\ UNCHANGED <<files, queue, hand, starts, heard, sender, dropped, unread>>
  BY DEF RemoveStaging
<1>2. /\ at' \in [Drivers -> {"off", "boundary", "read", "remove", "say"}]
      /\ at'[d] = "say" /\ \A e \in Drivers : e # d => at'[e] = at[e]
  BY <1>1, AtSteps DEF SteerInv
<1>3. /\ staging' \in [Drivers -> (1..Len(files)) \cup {NoFile}]
      /\ \A e \in Drivers : e # d => staging'[e] = staging[e]
  BY <1>1 DEF SteerInv, SteerTypeOK
<1>4. SteerTypeOK'
  BY <1>1, <1>2, <1>3, NoFileIsNone DEF SteerInv, SteerTypeOK, sender
<1>5. \A e \in Drivers : (Reading(e)' <=> Reading(e)) /\ (Reading(e) => staging'[e] = staging[e])
  BY <1>1, <1>2, <1>3 DEF Reading
<1>6. TakenOnce' /\ HeldOnce' /\ InOrder'
  BY <1>1, <1>5, OrderKept
<1>7. HandsEmpty'
  BY <1>1, <1>2 DEF SteerInv, LoopsInv, HandsEmpty
<1>8. /\ FilesInv' /\ whole' = whole /\ \A n, f, i : Sealed(n, f, i) => Sealed(n, f, i)'
  BY <1>1, LoopsOnlyRead
<1>9. \A n \in Notes : Somewhere(n) => Somewhere(n)'
  <2>1. \A e \in Drivers, n \in Notes : Has(e, n)' <=> Has(e, n)
    BY <1>1 DEF Has
  <2> QED BY <1>1, <1>5, <1>8, <2>1 DEF Somewhere
<1> QED BY <1>4, <1>6, <1>7, <1>8, <1>9 DEF SteerInv, LoopsInv, SteerTypeOK

LEMMA TakeKeeps == ASSUME SteerInv, NEW d \in Drivers, Take(d) PROVE SteerInv'
<1>1. /\ at[d] = "boundary" /\ queue # NoFile /\ at' = [at EXCEPT ![d] = "read"] /\ queue' = NoFile
      /\ staging' = [staging EXCEPT ![d] = queue]
      /\ UNCHANGED <<files, hand, starts, heard, sender, dropped, unread>>
  BY DEF Take
<1>2. /\ at' \in [Drivers -> {"off", "boundary", "read", "remove", "say"}]
      /\ at'[d] = "read" /\ \A e \in Drivers : e # d => at'[e] = at[e]
  BY <1>1, AtSteps DEF SteerInv
<1>3. /\ staging' \in [Drivers -> (1..Len(files)) \cup {NoFile}] /\ staging'[d] = queue
      /\ queue \in 1..Len(files) /\ queue = Len(files) /\ Len(files) \in Nat
      /\ \A e \in Drivers : e # d => staging'[e] = staging[e]
  BY <1>1, FilesTyped DEF SteerInv, SteerTypeOK, FilesInv, QueueIsLast
<1>4. SteerTypeOK'
  BY <1>1, <1>2, <1>3 DEF SteerInv, SteerTypeOK, sender
<1>5. /\ Reading(d)' /\ ~Reading(d)
      /\ \A e \in Drivers : e # d => (Reading(e)' <=> Reading(e)) /\ staging'[e] = staging[e]
  BY <1>1, <1>2, <1>3 DEF Reading
<1>6. /\ FilesInv' /\ whole' = whole /\ fd' = fd /\ files' = files
      /\ \A n, m \in Notes : Before(n, m) => Before(n, m)'
      /\ \A n, f, i : Sealed(n, f, i) => Sealed(n, f, i)'
  BY <1>1, LoopsOnlyRead
<1>7. TakenOnce'
  BY <1>1, <1>3, <1>5, <1>6, NoFileIsNone DEF SteerInv, LoopsInv, TakenOnce
<1>8. HandsEmpty'
  BY <1>1, <1>2 DEF SteerInv, LoopsInv, HandsEmpty
<1>9. \A e \in Drivers, n \in Notes : Has(e, n)' <=> Has(e, n)
  BY <1>1 DEF Has
<1>10. HeldOnce'
  <2>1. \A n \in Notes : Spent(n) => Spent(n)'
    BY <1>1, <1>3, <1>5, <1>6, NoFileIsNone DEF Spent
  <2> QED BY <1>9, <2>1 DEF SteerInv, LoopsInv, HeldOnce
<1>11. InOrder'
  <2>1. SteerTypeOK /\ InOrder /\ hand' = hand /\ heard' = heard
    BY <1>1 DEF SteerInv, LoopsInv
  <2>2. ASSUME NEW i \in 1..Len(heard), Reading(heard[i][1])'
        PROVE  fd[heard[i][2]] < staging'[heard[i][1]]
    <3>1. heard[i][1] \in Drivers /\ heard[i][2] \in Notes /\ Has(heard[i][1], heard[i][2])
      BY <2>1, HeardTyped
    <3>2. CASE heard[i][1] = d
      <4>1. fd[heard[i][2]] \in 1..Len(files) /\ fd[heard[i][2]] # queue
        BY <3>1 DEF SteerInv, LoopsInv, HeldOnce, Spent
      <4> QED BY <1>3, <3>2, <4>1
    <3>3. CASE heard[i][1] # d
      <4>1. Reading(heard[i][1])
        BY <1>5, <2>1, <2>2, <3>1, <3>3 DEF Reading
      <4> QED BY <1>5, <2>1, <3>1, <3>3, <4>1 DEF InOrder
    <3> QED BY <3>2, <3>3
  <2> QED BY <1>6, <2>1, <2>2, HeardTyped DEF InOrder
<1>12. \A n \in Notes : Somewhere(n) => Somewhere(n)'
  <2> SUFFICES ASSUME NEW n \in Notes, Somewhere(n) PROVE Somewhere(n)'
    OBVIOUS
  <2>1. CASE \E i \in Nat : Sealed(n, queue, i)
    <3>1. \E i \in Nat : Sealed(n, staging[d], i)'
      BY <1>3, <1>6, <2>1 DEF Sealed, Begins
    <3> QED BY <1>5, <3>1 DEF Somewhere
  <2>2. CASE \E e \in Drivers : Reading(e) /\ \E i \in Nat : Sealed(n, staging[e], i)
    <3>1. PICK e \in Drivers, i \in Nat : Reading(e) /\ Sealed(n, staging[e], i)
      BY <2>2
    <3>2. e # d /\ Reading(e)' /\ staging'[e] = staging[e]
      BY <1>5, <3>1
    <3>3. Sealed(n, staging[e], i)'
      BY <1>6, <3>1, <3>2 DEF Sealed, Begins
    <3> QED BY <3>2, <3>3 DEF Somewhere
  <2>3. CASE \E e \in Drivers : Has(e, n)
    BY <1>9, <2>3 DEF Somewhere
  <2>4. CASE n \in dropped \cup unread
    BY <1>1, <2>4 DEF Somewhere
  <2> QED BY <2>1, <2>2, <2>3, <2>4 DEF Somewhere
<1> QED BY <1>4, <1>6, <1>7, <1>8, <1>10, <1>11, <1>12 DEF SteerInv, LoopsInv, SteerTypeOK

\* A loop comes to an end, or cannot read its file: what it had is lost.
Loses(d, place) ==
    /\ at[d] # "off" /\ at' = [at EXCEPT ![d] = place] /\ hand' = [hand EXCEPT ![d] = <<>>]
    /\ dropped' \subseteq Notes /\ unread' \subseteq Notes
    /\ dropped \cup unread \subseteq dropped' \cup unread'
    /\ {n \in Notes : \/ at[d] = "read" /\ InFile(n, staging[d])
                      \/ \E i \in 1..Len(hand[d]) : hand[d][i] = n} \subseteq dropped' \cup unread'
    /\ UNCHANGED <<files, queue, staging, starts, heard, sender>>

LEMMA LosesKeeps ==
  ASSUME SteerInv, NEW d \in Drivers, NEW place \in {"off", "remove"}, Loses(d, place)
  PROVE  SteerInv'
<1>1. /\ at[d] # "off" /\ at' = [at EXCEPT ![d] = place] /\ hand' = [hand EXCEPT ![d] = <<>>]
      /\ dropped' \subseteq Notes /\ unread' \subseteq Notes
      /\ dropped \cup unread \subseteq dropped' \cup unread'
      /\ {n \in Notes : \/ at[d] = "read" /\ InFile(n, staging[d])
                        \/ \E i \in 1..Len(hand[d]) : hand[d][i] = n} \subseteq dropped' \cup unread'
      /\ UNCHANGED <<files, queue, staging, starts, heard, sender>>
  BY DEF Loses
<1>2. /\ at' \in [Drivers -> {"off", "boundary", "read", "remove", "say"}]
      /\ at'[d] = place /\ \A e \in Drivers : e # d => at'[e] = at[e]
  BY <1>1, AtSteps DEF SteerInv
<1>3. /\ hand' \in [Drivers -> Seq(Notes)] /\ hand'[d] = <<>>
      /\ \A e \in Drivers : e # d => hand'[e] = hand[e]
  BY <1>1 DEF SteerInv, SteerTypeOK
<1>4. SteerTypeOK'
  <2> QED BY <1>1, <1>2, <1>3 DEF SteerInv, SteerTypeOK, sender
<1>5. ~Reading(d)' /\ \A e \in Drivers : e # d => (Reading(e)' <=> Reading(e))
  BY <1>2 DEF Reading
<1>6. /\ FilesInv' /\ whole' = whole /\ fd' = fd /\ files' = files
      /\ \A n, m \in Notes : Before(n, m) => Before(n, m)'
      /\ \A n, f, i : Sealed(n, f, i) => Sealed(n, f, i)'
  BY <1>1, LoopsOnlyRead
<1>7. TakenOnce'
  BY <1>1, <1>5, <1>6 DEF SteerInv, LoopsInv, TakenOnce
<1>8. HandsEmpty'
  BY <1>2, <1>3 DEF SteerInv, LoopsInv, HandsEmpty
<1>9. \A e \in Drivers, n \in Notes : Has(e, n)' => Has(e, n)
  BY <1>1, <1>3 DEF Has
<1>10. HeldOnce'
  <2>1. \A n \in Notes : Spent(n) => Spent(n)'
    BY <1>1, <1>5, <1>6 DEF Spent
  <2> QED BY <1>9, <2>1 DEF SteerInv, LoopsInv, HeldOnce
<1>11. InOrder'
  <2>1. SteerTypeOK /\ InOrder /\ heard' = heard /\ staging' = staging
    BY <1>1 DEF SteerInv, LoopsInv
  <2>2. \A e \in Drivers : hand'[e] = <<>> \/ hand'[e] = hand[e]
    BY <1>3
  <2>3. \A e \in Drivers : \A i, j \in 1..Len(hand'[e]) : i < j => Before(hand[e][i], hand[e][j])
                           /\ hand'[e] = hand[e]
    BY <2>1, <2>2 DEF InOrder
  <2>4. \A i \in 1..Len(heard) : \A j \in 1..Len(hand'[heard[i][1]]) :
           hand'[heard[i][1]] = hand[heard[i][1]] /\ Before(heard[i][2], hand[heard[i][1]][j])
    BY <2>1, <2>2, HeardTyped DEF InOrder
  <2>5. \A e \in Drivers : \A i, j \in 1..Len(hand'[e]) : i < j => Before(hand[e][i], hand[e][j])'
    <3> SUFFICES ASSUME NEW e \in Drivers, NEW i \in 1..Len(hand'[e]), NEW j \in 1..Len(hand'[e]), i < j
                 PROVE  Before(hand[e][i], hand[e][j])'
      OBVIOUS
    <3>1. hand'[e] = hand[e] /\ Before(hand[e][i], hand[e][j])
      BY <2>3
    <3>2. hand[e][i] \in Notes /\ hand[e][j] \in Notes
      BY <2>1, <3>1, HeardTyped
    <3> QED BY <1>6, <3>1, <3>2
  <2>6. \A i, j \in 1..Len(heard) : i < j /\ heard[i][1] = heard[j][1] => Before(heard[i][2], heard[j][2])'
    BY <1>6, <2>1, HeardTyped DEF InOrder
  <2>7. \A i \in 1..Len(heard) : \A j \in 1..Len(hand'[heard[i][1]]) :
           Before(heard[i][2], hand[heard[i][1]][j])'
    <3> SUFFICES ASSUME NEW i \in 1..Len(heard), NEW j \in 1..Len(hand'[heard[i][1]])
                 PROVE  Before(heard[i][2], hand[heard[i][1]][j])'
      BY <2>1
    <3>1. hand'[heard[i][1]] = hand[heard[i][1]] /\ Before(heard[i][2], hand[heard[i][1]][j])
      BY <2>4
    <3>2. heard[i][1] \in Drivers /\ heard[i][2] \in Notes /\ hand[heard[i][1]][j] \in Notes
      BY <2>1, <3>1, HeardTyped
    <3> QED BY <1>6, <2>1, <3>1, <3>2
  <2>8. \A i \in 1..Len(heard) : Reading(heard[i][1])' => fd[heard[i][2]] < staging[heard[i][1]]
    <3> SUFFICES ASSUME NEW i \in 1..Len(heard), Reading(heard[i][1])'
                 PROVE  fd[heard[i][2]] < staging[heard[i][1]]
      BY <2>1
    <3>1. heard[i][1] \in Drivers
      BY <2>1, HeardTyped
    <3>2. Reading(heard[i][1])
      BY <1>2, <2>1, <3>1 DEF Reading
    <3> QED BY <2>1, <3>2 DEF InOrder
  <2> QED BY <1>6, <2>1, <2>5, <2>6, <2>7, <2>8 DEF InOrder
<1>12. \A n \in Notes : Somewhere(n) => Somewhere(n)'
  <2> SUFFICES ASSUME NEW n \in Notes, Somewhere(n) PROVE Somewhere(n)'
    OBVIOUS
  <2>1. CASE queue # NoFile /\ \E i \in Nat : Sealed(n, queue, i)
    BY <1>1, <1>6, <2>1 DEF Somewhere, Sealed, Begins
  <2>2. CASE \E e \in Drivers : Reading(e) /\ \E i \in Nat : Sealed(n, staging[e], i)
    <3>1. PICK e \in Drivers, i \in Nat : Reading(e) /\ Sealed(n, staging[e], i)
      BY <2>2
    <3>2. CASE e # d
      <4>1. Sealed(n, staging[e], i)'
        BY <1>1, <1>6, <3>1 DEF Sealed, Begins
      <4> QED BY <1>5, <3>1, <3>2, <4>1 DEF Somewhere
    <3>3. CASE e = d
      <4>1. staging[d] \in 1..Len(files)
        BY <3>1, <3>3 DEF SteerInv, LoopsInv, TakenOnce
      <4> DEFINE t == files[staging[d]]
      <4>2. t \in Texts
        BY <4>1, FilesTyped DEF SteerInv
      <4>3. /\ i \in 1..Len(t) - 2 /\ i \in 1..Len(t) /\ t[i] = <<n, "first">> /\ t[i + 1] = <<n, "second">>
            /\ t[i + 2][2] = "newline" /\ (i = 1 \/ t[i - 1][2] = "newline")
        BY <3>1, <3>3 DEF Sealed, Begins
      <4> HIDE DEF t
      <4>4. IsNote(t, i) /\ t[i][1] = n
        BY <4>2, <4>3, SealedIsNote
      <4>5. InFile(n, staging[d])
        BY <4>1, <4>3, <4>4, NoFileIsNone DEF InFile, InText, t
      <4>6. n \in dropped' \cup unread'
        BY <1>1, <3>1, <3>3, <4>5 DEF Reading
      <4> QED BY <4>6 DEF Somewhere
    <3> QED BY <3>2, <3>3
  <2>3. CASE \E e \in Drivers : Has(e, n)
    <3>1. PICK e \in Drivers : Has(e, n)
      BY <2>3
    <3>2. CASE \E i \in 1..Len(heard) : heard[i] = <<e, n>>
      BY <1>1, <3>1, <3>2 DEF Somewhere, Has
    <3>3. CASE \E i \in 1..Len(hand[e]) : hand[e][i] = n
      <4>1. CASE e = d
        BY <1>1, <3>3, <4>1 DEF Somewhere
      <4>2. CASE e # d
        <5>1. Has(e, n)'
          BY <1>3, <3>1, <3>3, <4>2 DEF Has
        <5> QED BY <3>1, <5>1 DEF Somewhere
      <4> QED BY <4>1, <4>2
    <3> QED BY <3>1, <3>2, <3>3 DEF Has
  <2>4. CASE n \in dropped \cup unread
    BY <1>1, <2>4 DEF Somewhere
  <2> QED BY <2>1, <2>2, <2>3, <2>4 DEF Somewhere
<1> QED BY <1>4, <1>6, <1>7, <1>8, <1>10, <1>11, <1>12 DEF SteerInv, LoopsInv, SteerTypeOK

LEMMA ExitKeeps == ASSUME SteerInv, NEW d \in Drivers, Exit(d) PROVE SteerInv'
<1> Loses(d, "off")
  BY DEF Exit, Loses, SteerInv, SteerTypeOK
<1> QED BY LosesKeeps

\* The file cannot be read.
LEMMA UnreadKeeps ==
  ASSUME SteerInv, NEW d \in Drivers, at[d] = "read", at' = [at EXCEPT ![d] = "remove"],
         hand' = [hand EXCEPT ![d] = <<>>],
         unread' = unread \cup {n \in Notes : InText(n, files[staging[d]])},
         UNCHANGED <<files, queue, staging, starts, heard, sender, dropped>>
  PROVE  SteerInv'
<1>1. hand[d] = <<>>
  BY DEF SteerInv, LoopsInv, HandsEmpty
<1>2. unread' \subseteq Notes /\ dropped' \subseteq Notes
  BY DEF SteerInv, SteerTypeOK
<1>3. {n \in Notes : \/ at[d] = "read" /\ InFile(n, staging[d])
                     \/ \E i \in 1..Len(hand[d]) : hand[d][i] = n} \subseteq dropped' \cup unread'
  BY <1>1 DEF InFile
<1> Loses(d, "remove")
  BY <1>2, <1>3 DEF Loses
<1> QED BY LosesKeeps

\* The file is read.
LEMMA ReadsKeeps ==
  ASSUME SteerInv, NEW d \in Drivers, at[d] = "read", at' = [at EXCEPT ![d] = "remove"],
         hand' = [hand EXCEPT ![d] = Parsed(files[staging[d]])],
         UNCHANGED <<files, queue, staging, starts, heard, sender, dropped, unread>>
  PROVE  SteerInv'
<1> DEFINE f == staging[d]  t == files[f]  p == Parsed(t)
<1>1. /\ at[d] = "read" /\ at' = [at EXCEPT ![d] = "remove"] /\ hand' = [hand EXCEPT ![d] = p]
      /\ UNCHANGED <<files, queue, staging, starts, heard, sender, dropped, unread>>
  OBVIOUS
<1>2. /\ at' \in [Drivers -> {"off", "boundary", "read", "remove", "say"}]
      /\ at'[d] = "remove" /\ \A e \in Drivers : e # d => at'[e] = at[e]
  BY <1>1, AtSteps DEF SteerInv
<1>3. f \in 1..Len(files) /\ f # queue /\ Reading(d) /\ t \in Texts /\ Len(t) \in Nat
  <2>1. f \in 1..Len(files) /\ f # queue /\ Reading(d)
    BY <1>1 DEF SteerInv, LoopsInv, TakenOnce, Reading
  <2> QED BY <2>1, FilesTyped DEF SteerInv
<1>4. PICK g \in [1..Len(p) -> 1..Len(t)] :
        /\ \A k \in 1..Len(p) : IsNote(t, g[k]) /\ p[k] = t[g[k]][1]
        /\ \A k, l \in 1..Len(p) : k < l => g[k] < g[l]
        /\ \A i \in 1..Len(t) : IsNote(t, i) => \E k \in 1..Len(p) : g[k] = i
  <2> HIDE DEF t
  <2> QED BY <1>3, ParsedIsTheNotes
<1>p. p \in Seq(Notes) /\ Len(p) \in Nat
  <2> HIDE DEF t
  <2>1. p \in Seq(Notes)
    BY <1>3, ParsedIsTheNotes
  <2> HIDE DEF p
  <2> QED BY <2>1
<1> HIDE DEF p
<1>5. /\ hand' \in [Drivers -> Seq(Notes)] /\ hand'[d] = p
      /\ \A e \in Drivers : e # d => hand'[e] = hand[e]
  BY <1>1, <1>p DEF SteerInv, SteerTypeOK
<1>6. SteerTypeOK'
  BY <1>1, <1>2, <1>5 DEF SteerInv, SteerTypeOK, sender
<1>7. ~Reading(d)' /\ \A e \in Drivers : e # d => (Reading(e)' <=> Reading(e))
  BY <1>2 DEF Reading
<1>8. /\ FilesInv' /\ whole' = whole /\ fd' = fd /\ files' = files
      /\ \A n, m \in Notes : Before(n, m) => Before(n, m)'
      /\ \A n, q, i : Sealed(n, q, i) => Sealed(n, q, i)'
  BY <1>1, LoopsOnlyRead
<1> HIDE DEF f
\* What is read was begun in the file, at the places in g.
<1>9. ASSUME NEW k \in 1..Len(p)
      PROVE  g[k] \in Nat /\ p[k] \in Notes /\ Begins(p[k], f, g[k]) /\ fd[p[k]] = f
  <2>1. g[k] \in 1..Len(t) /\ IsNote(t, g[k]) /\ p[k] = t[g[k]][1]
    BY <1>4
  <2> HIDE DEF t
  <2>2. t[g[k]] = <<p[k], "first">> /\ p[k] \in Notes
    BY <1>3, <2>1, NoteBegins
  <2>3. Begins(p[k], f, g[k]) /\ g[k] \in Nat
    BY <2>1, <2>2 DEF Begins, t
  <2>4. fd[p[k]] = f
    BY <1>3, <2>2, <2>3 DEF SteerInv, FilesInv, BegunOnce
  <2> QED BY <2>2, <2>3, <2>4
<1>10. TakenOnce'
  BY <1>1, <1>7, <1>8 DEF SteerInv, LoopsInv, TakenOnce
<1>11. HandsEmpty'
  BY <1>2, <1>5 DEF SteerInv, LoopsInv, HandsEmpty
<1>12. /\ \A e \in Drivers, n \in Notes : e # d => (Has(e, n)' <=> Has(e, n))
       /\ \A n \in Notes : Has(d, n)' => Has(d, n) \/ fd[n] = f
  <2>1. heard' = heard
    BY <1>1
  <2>2. \A e \in Drivers, n \in Notes : e # d => (Has(e, n)' <=> Has(e, n))
    BY <1>5, <2>1 DEF Has
  <2>3. ASSUME NEW n \in Notes, Has(d, n)' PROVE Has(d, n) \/ fd[n] = f
    <3>1. CASE \E i \in 1..Len(heard) : heard[i] = <<d, n>>
      BY <3>1 DEF Has
    <3>2. CASE \E i \in 1..Len(p) : p[i] = n
      BY <1>9, <3>2
    <3> QED BY <1>5, <2>1, <2>3, <3>1, <3>2 DEF Has
  <2> QED BY <2>2, <2>3
<1>13. HeldOnce'
  <2>0. d \in Drivers /\ staging' = staging /\ queue' = queue
    BY <1>1
  <2>1. \A n \in Notes : Spent(n) => Spent(n)'
    BY <1>7, <1>8, <2>0 DEF Spent
  <2>2. \A n \in Notes : fd[n] = f => Spent(n)' /\ ~Spent(n)
    BY <1>3, <1>7, <1>8, <2>0 DEF SteerInv, LoopsInv, TakenOnce, Spent, f
  <2>3. \A e \in Drivers, n \in Notes : Has(e, n)' => Spent(n)'
    BY <1>12, <2>1, <2>2 DEF SteerInv, LoopsInv, HeldOnce
  <2>4. ASSUME NEW e \in Drivers, NEW h \in Drivers, NEW n \in Notes, Has(e, n)', Has(h, n)' PROVE e = h
    <3>1. CASE fd[n] = f
      BY <1>12, <2>2, <2>4, <3>1 DEF SteerInv, LoopsInv, HeldOnce
    <3>2. CASE fd[n] # f
      BY <1>12, <2>4, <3>2 DEF SteerInv, LoopsInv, HeldOnce
    <3> QED BY <3>1, <3>2
  <2> QED BY <2>3, <2>4 DEF HeldOnce
<1>14. InOrder'
  <2>0. SteerTypeOK /\ InOrder /\ heard' = heard /\ staging' = staging
    BY <1>1 DEF SteerInv, LoopsInv
  <2>1. ASSUME NEW e \in Drivers, NEW i \in 1..Len(hand'[e]), NEW j \in 1..Len(hand'[e]), i < j
        PROVE  Before(hand[e][i], hand[e][j])'
    <3>1. CASE e = d
      <4>1. Before(p[i], p[j])
        BY <1>3, <1>4, <1>5, <1>9, <2>1, <3>1 DEF Before
      <4>2. p[i] \in Notes /\ p[j] \in Notes
        BY <1>5, <1>9, <3>1
      <4> QED BY <1>5, <1>8, <3>1, <4>1, <4>2
    <3>2. CASE e # d
      <4>1. hand'[e] = hand[e] /\ Before(hand[e][i], hand[e][j])
        BY <1>5, <2>0, <2>1, <3>2 DEF InOrder
      <4>2. hand[e][i] \in Notes /\ hand[e][j] \in Notes
        BY <2>0, <4>1, HeardTyped
      <4> QED BY <1>8, <4>1, <4>2
    <3> QED BY <3>1, <3>2
  <2>2. \A i, j \in 1..Len(heard) : i < j /\ heard[i][1] = heard[j][1] => Before(heard[i][2], heard[j][2])'
    BY <1>8, <2>0, HeardTyped DEF InOrder
  <2>3. ASSUME NEW i \in 1..Len(heard), NEW j \in 1..Len(hand'[heard[i][1]])
        PROVE  Before(heard[i][2], hand[heard[i][1]][j])'
    <3>0. heard[i][1] \in Drivers /\ heard[i][2] \in Notes /\ Has(heard[i][1], heard[i][2])
      BY <2>0, HeardTyped
    <3>1. CASE heard[i][1] = d
      <4>1. fd[heard[i][2]] < f
        BY <1>3, <2>0, <3>1 DEF InOrder, f
      <4>2. fd[heard[i][2]] \in 1..Len(files)
        BY <3>0 DEF SteerInv, LoopsInv, HeldOnce, Spent
      <4>3. Before(heard[i][2], p[j]) /\ p[j] \in Notes
        BY <1>3, <1>5, <1>9, <3>1, <4>1, <4>2 DEF Before
      <4> QED BY <1>5, <1>8, <2>0, <3>0, <3>1, <4>3
    <3>2. CASE heard[i][1] # d
      <4>1. hand'[heard[i][1]] = hand[heard[i][1]] /\ Before(heard[i][2], hand[heard[i][1]][j])
        BY <1>5, <2>0, <3>0, <3>2 DEF InOrder
      <4>2. hand[heard[i][1]][j] \in Notes
        BY <2>0, <3>0, <4>1, HeardTyped
      <4> QED BY <1>8, <2>0, <3>0, <4>1, <4>2
    <3> QED BY <3>1, <3>2
  <2>4. ASSUME NEW i \in 1..Len(heard), Reading(heard[i][1])'
        PROVE  fd[heard[i][2]] < staging[heard[i][1]]
    <3>1. heard[i][1] \in Drivers
      BY <2>0, HeardTyped
    <3>2. Reading(heard[i][1])
      BY <1>2, <2>0, <2>4, <3>1 DEF Reading
    <3> QED BY <2>0, <3>2 DEF InOrder
  <2> QED BY <1>8, <2>0, <2>1, <2>2, <2>3, <2>4 DEF InOrder
<1>15. \A n \in Notes : Somewhere(n) => Somewhere(n)'
  <2> SUFFICES ASSUME NEW n \in Notes, Somewhere(n) PROVE Somewhere(n)'
    OBVIOUS
  <2>1. CASE queue # NoFile /\ \E i \in Nat : Sealed(n, queue, i)
    BY <1>1, <1>8, <2>1 DEF Somewhere, Sealed, Begins
  <2>2. CASE \E e \in Drivers : Reading(e) /\ \E i \in Nat : Sealed(n, staging[e], i)
    <3>1. PICK e \in Drivers, i \in Nat : Reading(e) /\ Sealed(n, staging[e], i)
      BY <2>2
    <3>2. CASE e # d
      <4>1. Sealed(n, staging[e], i)'
        BY <1>1, <1>8, <3>1 DEF Sealed, Begins
      <4> QED BY <1>7, <3>1, <3>2, <4>1 DEF Somewhere
    <3>3. CASE e = d
      <4>3. /\ i \in 1..Len(t) - 2 /\ i \in 1..Len(t) /\ t[i] = <<n, "first">> /\ t[i + 1] = <<n, "second">>
            /\ t[i + 2][2] = "newline" /\ (i = 1 \/ t[i - 1][2] = "newline")
        BY <3>1, <3>3 DEF Sealed, Begins, f
      <4> HIDE DEF t
      <4>4. IsNote(t, i) /\ t[i][1] = n
        BY <1>3, <4>3, SealedIsNote
      <4>5. PICK k \in 1..Len(p) : g[k] = i
        BY <1>4, <4>3, <4>4
      <4>6. p[k] = n
        BY <1>4, <4>4, <4>5
      <4>7. Has(d, n)'
        BY <1>5, <4>6 DEF Has
      <4> QED BY <4>7 DEF Somewhere
    <3> QED BY <3>2, <3>3
  <2>3. CASE \E e \in Drivers : Has(e, n)
    <3>1. PICK e \in Drivers : Has(e, n)
      BY <2>3
    <3>2. Has(e, n)'
      <4>1. CASE e # d
        BY <1>12, <3>1, <4>1
      <4>2. CASE e = d
        <5>1. hand[d] = <<>>
          BY <1>1 DEF SteerInv, LoopsInv, HandsEmpty
        <5>2. \E i \in 1..Len(heard) : heard[i] = <<d, n>>
          BY <3>1, <4>2, <5>1 DEF Has
        <5> QED BY <1>1, <4>2, <5>2 DEF Has
      <4> QED BY <4>1, <4>2
    <3> QED BY <3>1, <3>2 DEF Somewhere
  <2>4. CASE n \in dropped \cup unread
    BY <1>1, <2>4 DEF Somewhere
  <2> QED BY <2>1, <2>2, <2>3, <2>4 DEF Somewhere
<1> QED BY <1>6, <1>8, <1>10, <1>11, <1>13, <1>14, <1>15 DEF SteerInv, LoopsInv, SteerTypeOK

LEMMA ReadKeeps == ASSUME SteerInv, NEW d \in Drivers, Read(d) PROVE SteerInv'
<1>1. \/ hand' = [hand EXCEPT ![d] = Parsed(files[staging[d]])] /\ unread' = unread
      \/ /\ hand' = [hand EXCEPT ![d] = <<>>]
         /\ unread' = unread \cup {n \in Notes : InText(n, files[staging[d]])}
  BY DEF Read
<1>2. /\ at[d] = "read" /\ at' = [at EXCEPT ![d] = "remove"]
      /\ UNCHANGED <<files, queue, staging, starts, heard, sender, dropped>>
  BY DEF Read
<1> QED BY <1>1, <1>2, ReadsKeeps, UnreadKeeps

LEMMA SayNotesKeeps == ASSUME SteerInv, NEW d \in Drivers, SayNotes(d) PROVE SteerInv'
<1>1. at[d] = "say" /\ UNCHANGED <<files, queue, staging, starts, sender, dropped, unread>>
  BY DEF SayNotes
<1>2. /\ FilesInv' /\ whole' = whole /\ fd' = fd /\ files' = files
      /\ \A n, m \in Notes : Before(n, m) => Before(n, m)'
      /\ \A n, q, i : Sealed(n, q, i) => Sealed(n, q, i)'
  BY <1>1, LoopsOnlyRead
<1>3. CASE hand[d] = <<>>
  <2>1. at' = [at EXCEPT ![d] = "boundary"] /\ hand' = hand /\ heard' = heard
    BY <1>3 DEF SayNotes
  <2>2. /\ at' \in [Drivers -> {"off", "boundary", "read", "remove", "say"}]
        /\ at'[d] = "boundary" /\ \A e \in Drivers : e # d => at'[e] = at[e]
    BY <2>1, AtSteps DEF SteerInv
  <2>3. SteerTypeOK'
    BY <1>1, <2>1, <2>2 DEF SteerInv, SteerTypeOK, sender
  <2>4. \A e \in Drivers : (Reading(e)' <=> Reading(e)) /\ staging'[e] = staging[e]
    BY <1>1, <2>2 DEF Reading
  <2>5. TakenOnce' /\ HeldOnce' /\ InOrder'
    BY <1>1, <2>1, <2>4, OrderKept
  <2>6. HandsEmpty'
    BY <1>3, <2>1, <2>2 DEF SteerInv, LoopsInv, HandsEmpty
  <2>7. \A n \in Notes : Somewhere(n) => Somewhere(n)'
    <3>1. \A e \in Drivers, n \in Notes : Has(e, n)' <=> Has(e, n)
      BY <2>1 DEF Has
    <3> QED BY <1>1, <1>2, <2>4, <3>1 DEF Somewhere
  <2> QED BY <1>2, <2>3, <2>5, <2>6, <2>7 DEF SteerInv, LoopsInv, SteerTypeOK
<1>4. CASE hand[d] # <<>>
  <2> DEFINE n0 == Head(hand[d])
  <2>1. /\ heard' = Append(heard, <<d, n0>>) /\ hand' = [hand EXCEPT ![d] = Tail(hand[d])] /\ at' = at
    BY <1>4 DEF SayNotes
  <2>2. SteerTypeOK /\ InOrder /\ staging' = staging /\ queue' = queue
    BY <1>1 DEF SteerInv, LoopsInv
  <2>3. /\ n0 \in Notes /\ Tail(hand[d]) \in Seq(Notes) /\ hand[d] \in Seq(Notes)
        /\ Len(hand[d]) \in Nat /\ Len(hand[d]) >= 1 /\ n0 = hand[d][1]
        /\ Len(Tail(hand[d])) = Len(hand[d]) - 1
        /\ \A i \in 1..Len(Tail(hand[d])) : i + 1 \in 1..Len(hand[d]) /\ Tail(hand[d])[i] = hand[d][i + 1]
    <3>1. hand[d] \in Seq(Notes)
      BY <2>2 DEF SteerTypeOK
    <3> QED BY <1>4, <3>1
  <2>4. /\ hand' \in [Drivers -> Seq(Notes)] /\ hand'[d] = Tail(hand[d])
        /\ \A e \in Drivers : e # d => hand'[e] = hand[e]
    BY <2>1, <2>2, <2>3 DEF SteerTypeOK
  <2>5. /\ heard' \in Seq(Drivers \X Notes) /\ Len(heard) \in Nat /\ Len(heard') = Len(heard) + 1
        /\ heard'[Len(heard) + 1] = <<d, n0>> /\ \A i \in 1..Len(heard) : heard'[i] = heard[i]
    <3> DEFINE x == <<d, n0>>  B == Drivers \X Notes
    <3>1. x \in B /\ heard \in Seq(B)
      BY <2>2, <2>3, HeardTyped
    <3>2. heard' = Append(heard, x)
      BY <2>1
    <3> HIDE DEF x, B
    <3>3. /\ heard' \in Seq(B) /\ Len(heard) \in Nat /\ Len(heard') = Len(heard) + 1
          /\ heard'[Len(heard) + 1] = x /\ \A i \in 1..Len(heard) : heard'[i] = heard[i]
      BY <3>1, <3>2
    <3> QED BY <3>3 DEF x, B
  <2>6. SteerTypeOK'
    BY <1>1, <2>1, <2>2, <2>4, <2>5 DEF SteerTypeOK, sender
  <2> HIDE DEF n0
  <2>t. \A i \in 1..Len(hand'[d]) : i + 1 \in 1..Len(hand[d]) /\ hand'[d][i] = hand[d][i + 1] /\ i \in Nat
    <3> DEFINE tl == Tail(hand[d])
    <3>1. /\ hand'[d] = tl /\ Len(tl) \in Nat
          /\ \A i \in 1..Len(tl) : i + 1 \in 1..Len(hand[d]) /\ tl[i] = hand[d][i + 1]
      BY <2>3, <2>4
    <3> HIDE DEF tl
    <3> QED BY <3>1
  <2>7. \A e \in Drivers : (Reading(e)' <=> Reading(e)) /\ staging'[e] = staging[e] /\ ~Reading(d)
    BY <1>1, <2>1, <2>2 DEF Reading
  <2>8. TakenOnce'
    BY <1>2, <2>2, <2>7 DEF SteerInv, LoopsInv, TakenOnce
  <2>9. HandsEmpty'
    BY <1>1, <2>1, <2>4 DEF SteerInv, LoopsInv, HandsEmpty
  \* Nobody has another note than before.
  <2>10. \A e \in Drivers, n \in Notes : Has(e, n)' <=> Has(e, n)
    <3> SUFFICES ASSUME NEW e \in Drivers, NEW n \in Notes PROVE Has(e, n)' <=> Has(e, n)
      OBVIOUS
    <3>1. CASE e # d
      <4>1. hand'[e] = hand[e] /\ <<e, n>> # <<d, n0>>
        BY <2>4, <3>1
      <4>2. (\E i \in 1..Len(heard') : heard'[i] = <<e, n>>) <=> (\E i \in 1..Len(heard) : heard[i] = <<e, n>>)
        <5> DEFINE y == <<e, n>>  x == <<d, n0>>
        <5>1. y # x /\ heard'[Len(heard) + 1] = x
          BY <2>5, <4>1
        <5> HIDE DEF y, x
        <5>2. \A i \in 1..Len(heard') : i \in 1..Len(heard) \/ i = Len(heard) + 1
          BY <2>5
        <5>3. \A i \in 1..Len(heard) : i \in 1..Len(heard') /\ heard'[i] = heard[i]
          BY <2>5
        <5>4. (\E i \in 1..Len(heard') : heard'[i] = y) <=> (\E i \in 1..Len(heard) : heard[i] = y)
          BY <5>1, <5>2, <5>3
        <5> QED BY <5>4 DEF y
      <4> QED BY <4>1, <4>2 DEF Has
    <3>2. CASE e = d
      <4>1. Has(d, n)' => Has(d, n)
        <5>1. CASE \E i \in 1..Len(hand'[d]) : hand'[d][i] = n
          BY <2>3, <2>4, <5>1 DEF Has
        <5>2. CASE \E i \in 1..Len(heard') : heard'[i] = <<d, n>>
          <6>1. PICK i \in 1..Len(heard') : heard'[i] = <<d, n>>
            BY <5>2
          <6>2. CASE i \in 1..Len(heard)
            BY <2>5, <6>1, <6>2 DEF Has
          <6>3. CASE i = Len(heard) + 1
            <7>1. n = hand[d][1]
              BY <2>3, <2>5, <6>1, <6>3
            <7> QED BY <2>3, <7>1 DEF Has
          <6> QED BY <2>5, <6>1, <6>2, <6>3
        <5> QED BY <5>1, <5>2 DEF Has
      <4>2. Has(d, n) => Has(d, n)'
        <5>1. CASE \E i \in 1..Len(heard) : heard[i] = <<d, n>>
          <6>1. PICK i \in 1..Len(heard) : heard[i] = <<d, n>>
            BY <5>1
          <6>2. i \in 1..Len(heard') /\ heard'[i] = <<d, n>>
            BY <2>5, <6>1
          <6> QED BY <6>2 DEF Has
        <5>2. CASE \E i \in 1..Len(hand[d]) : hand[d][i] = n
          <6>1. PICK i \in 1..Len(hand[d]) : hand[d][i] = n
            BY <5>2
          <6>2. CASE i = 1
            <7>1. heard'[Len(heard) + 1] = <<d, n>> /\ Len(heard) + 1 \in 1..Len(heard')
              BY <2>3, <2>5, <6>1, <6>2
            <7> QED BY <7>1 DEF Has
          <6>3. CASE i # 1
            <7>0. hand'[d] = Tail(hand[d]) /\ i \in 1..Len(hand[d]) /\ i # 1
              BY <2>4, <6>1, <6>3
            <7>1. i - 1 \in 1..Len(Tail(hand[d])) /\ (i - 1) + 1 = i
              BY <2>3, <7>0, SMTT(30)
            <7>2. Tail(hand[d])[i - 1] = hand[d][i]
              BY <2>3, <7>1
            <7>3. i - 1 \in 1..Len(hand'[d]) /\ hand'[d][i - 1] = n
              BY <6>1, <7>0, <7>1, <7>2
            <7> QED BY <7>3 DEF Has
          <6> QED BY <6>2, <6>3
        <5> QED BY <5>1, <5>2 DEF Has
      <4> QED BY <3>2, <4>1, <4>2
    <3> QED BY <3>1, <3>2
  <2>11. HeldOnce'
    <3>1. \A n \in Notes : Spent(n) => Spent(n)'
      BY <1>2, <2>2, <2>7 DEF Spent
    <3> QED BY <2>10, <3>1 DEF SteerInv, LoopsInv, HeldOnce
  <2>12. InOrder'
    <3>1. ASSUME NEW e \in Drivers, NEW i \in 1..Len(hand'[e]), NEW j \in 1..Len(hand'[e]), i < j
          PROVE  Before(hand'[e][i], hand'[e][j]) /\ hand'[e][i] \in Notes /\ hand'[e][j] \in Notes
      <4>1. CASE e = d
        <5>1. /\ i + 1 \in 1..Len(hand[d]) /\ j + 1 \in 1..Len(hand[d]) /\ i + 1 < j + 1
              /\ hand'[e][i] = hand[d][i + 1] /\ hand'[e][j] = hand[d][j + 1]
          BY <2>t, <3>1, <4>1
        <5> QED BY <2>2, <5>1, HeardTyped DEF InOrder
      <4>2. CASE e # d
        BY <2>2, <2>4, <3>1, <4>2, HeardTyped DEF InOrder
      <4> QED BY <4>1, <4>2
    <3>2. ASSUME NEW i \in 1..Len(heard'), NEW j \in 1..Len(heard'), i < j, heard'[i][1] = heard'[j][1]
          PROVE  Before(heard'[i][2], heard'[j][2]) /\ heard'[i][2] \in Notes /\ heard'[j][2] \in Notes
      <4>1. i \in 1..Len(heard) /\ heard'[i] = heard[i] /\ heard[i][2] \in Notes
        BY <2>2, <2>5, <3>2, HeardTyped
      <4>2. CASE j \in 1..Len(heard)
        BY <2>2, <2>5, <3>2, <4>1, <4>2, HeardTyped DEF InOrder
      <4>3. CASE j = Len(heard) + 1
        <5>1. heard[i][1] = d /\ heard'[j][2] = hand[d][1] /\ 1 \in 1..Len(hand[d])
          BY <2>3, <2>5, <3>2, <4>1, <4>3
        <5>2. Before(heard[i][2], hand[d][1])
          BY <2>2, <4>1, <5>1 DEF InOrder
        <5> QED BY <2>3, <4>1, <5>1, <5>2
      <4> QED BY <2>5, <4>2, <4>3
    <3>3. ASSUME NEW i \in 1..Len(heard'), NEW j \in 1..Len(hand'[heard'[i][1]])
          PROVE  /\ Before(heard'[i][2], hand'[heard'[i][1]][j])
                 /\ heard'[i][2] \in Notes /\ hand'[heard'[i][1]][j] \in Notes
      <4>1. CASE i \in 1..Len(heard)
        <5>1. heard'[i] = heard[i] /\ heard[i][1] \in Drivers /\ heard[i][2] \in Notes
          BY <2>2, <2>5, <4>1, HeardTyped
        <5>2. CASE heard[i][1] = d
          <6>1. j + 1 \in 1..Len(hand[d]) /\ hand'[heard'[i][1]][j] = hand[d][j + 1]
            BY <2>3, <2>4, <5>1, <5>2
          <6> QED BY <2>2, <4>1, <5>1, <5>2, <6>1, HeardTyped DEF InOrder
        <5>3. CASE heard[i][1] # d
          <6>1. hand'[heard'[i][1]] = hand[heard[i][1]]
            BY <2>4, <5>1, <5>3
          <6> QED BY <2>2, <4>1, <5>1, <6>1, HeardTyped DEF InOrder
        <5> QED BY <5>2, <5>3
      <4>2. CASE i = Len(heard) + 1
        <5>1. heard'[i][1] = d /\ heard'[i][2] = hand[d][1]
          BY <2>3, <2>5, <4>2
        <5>2. j + 1 \in 1..Len(hand[d]) /\ 1 \in 1..Len(hand[d]) /\ 1 < j + 1
              /\ hand'[heard'[i][1]][j] = hand[d][j + 1]
          BY <2>t, <2>3, <5>1
        <5> QED BY <2>2, <5>1, <5>2, HeardTyped DEF InOrder
      <4> QED BY <2>5, <4>1, <4>2
    <3>4. ASSUME NEW i \in 1..Len(heard'), Reading(heard'[i][1])
          PROVE  fd[heard'[i][2]] < staging[heard'[i][1]]
      <4>1. heard'[i][1] # d
        BY <2>7, <3>4
      <4>2. i \in 1..Len(heard) /\ heard'[i] = heard[i]
        BY <2>5, <4>1
      <4> QED BY <2>2, <3>4, <4>2 DEF InOrder
    <3>5. \A e \in Drivers : \A i, j \in 1..Len(hand'[e]) : i < j => Before(hand[e][i], hand[e][j])'
      BY <1>2, <3>1
    <3>6. \A i, j \in 1..Len(heard') : i < j /\ heard'[i][1] = heard'[j][1] => Before(heard[i][2], heard[j][2])'
      BY <1>2, <3>2
    <3>7. \A i \in 1..Len(heard') : \A j \in 1..Len(hand'[heard'[i][1]]) : Before(heard[i][2], hand[heard[i][1]][j])'
      BY <1>2, <3>3
    <3>8. \A i \in 1..Len(heard') : Reading(heard[i][1])' => fd'[heard'[i][2]] < staging'[heard'[i][1]]
      BY <1>2, <2>1, <2>2, <3>4 DEF Reading
    <3> QED BY <3>5, <3>6, <3>7, <3>8 DEF InOrder
  <2>13. \A n \in Notes : Somewhere(n) => Somewhere(n)'
    BY <1>1, <1>2, <2>2, <2>7, <2>10 DEF Somewhere
  <2> QED BY <1>2, <2>6, <2>8, <2>9, <2>11, <2>12, <2>13 DEF SteerInv, LoopsInv, SteerTypeOK
<1> QED BY <1>3, <1>4

-----------------------------------------------------------------------------
LEMMA SteerInitially == SteerInit => SteerInv
<1> SUFFICES ASSUME SteerInit PROVE SteerInv
  OBVIOUS
<1>1. SteerTypeOK
  BY NoFileIsNone DEF SteerInit, SteerTypeOK
<1>2. FilesInv
  BY DEF SteerInit, FilesInv, QueueIsLast, FdOfSteer, BegunOnce, EarlierAhead, NotePieces
<1>3. LoopsInv
  BY DEF SteerInit, LoopsInv, TakenOnce, HandsEmpty, HeldOnce, InOrder, Has, Reading
<1> QED BY <1>1, <1>2, <1>3 DEF SteerInv

LEMMA SteerStep == SteerInv /\ [SteerNext]_steerVars => SteerInv'
<1> SUFFICES ASSUME SteerInv, [SteerNext]_steerVars PROVE SteerInv'
  OBVIOUS
<1>1. ASSUME NEW n \in Notes, Steer(n) PROVE SteerInv'
  BY <1>1, ProbeRunDid, OpenDid, WriteNoteDid, WriteNoteFailsDid, SenderKeeps DEF Steer
<1>2. ASSUME NEW d \in Drivers, Start(d) \/ LoopStep(d) \/ Exit(d) PROVE SteerInv'
  BY <1>2, StartKeeps, TakeKeeps, ReadKeeps, RemoveStagingKeeps, SayNotesKeeps, ExitKeeps DEF LoopStep
<1>3. CASE UNCHANGED steerVars
  <2>1. UNCHANGED <<files, sender, hand, heard>> /\ queue' = queue /\ staging' = staging /\ at' = at
        /\ starts' = starts /\ dropped' = dropped /\ unread' = unread
    BY <1>3 DEF steerVars, sender
  <2>2. /\ FilesInv' /\ whole' = whole /\ \A n, f, i : Sealed(n, f, i) => Sealed(n, f, i)'
    BY <2>1, LoopsOnlyRead
  <2>3. \A e \in Drivers : (Reading(e)' <=> Reading(e)) /\ staging'[e] = staging[e]
    BY <2>1 DEF Reading
  <2>4. TakenOnce' /\ HeldOnce' /\ InOrder'
    BY <2>1, <2>3, OrderKept
  <2>5. SteerTypeOK' /\ HandsEmpty'
    BY <2>1 DEF SteerInv, LoopsInv, SteerTypeOK, HandsEmpty, sender
  <2>6. \A n \in Notes : Somewhere(n) => Somewhere(n)'
    <3>1. \A e \in Drivers, n \in Notes : Has(e, n)' <=> Has(e, n)
      BY <2>1 DEF Has
    <3> QED BY <2>1, <2>2, <2>3, <3>1 DEF Somewhere
  <2> QED BY <2>2, <2>4, <2>5, <2>6 DEF SteerInv, LoopsInv, SteerTypeOK
<1> QED BY <1>1, <1>2, <1>3 DEF SteerNext

LEMMA KeptSomewhere == SteerInv => NothingQueuedIsLost
<1> SUFFICES ASSUME SteerInv, NEW n \in whole PROVE
        \/ InFile(n, queue)
        \/ \E d \in Drivers : at[d] = "read" /\ InFile(n, staging[d])
        \/ \E d \in Drivers : \E i \in 1..Len(hand[d]) : hand[d][i] = n
        \/ \E i \in 1..Len(heard) : heard[i][2] = n
        \/ n \in dropped \cup unread
  BY DEF NothingQueuedIsLost
<1>1. n \in Notes /\ Somewhere(n)
  BY DEF SteerInv, SteerTypeOK, LoopsInv
<1>2. ASSUME NEW f \in 1..Len(files), NEW i \in Nat, Sealed(n, f, i) PROVE InFile(n, f)
  <2> DEFINE t == files[f]
  <2>1. t \in Texts
    BY FilesTyped DEF SteerInv
  <2>2. /\ i \in 1..Len(t) - 2 /\ i \in 1..Len(t) /\ t[i] = <<n, "first">> /\ t[i + 1] = <<n, "second">>
        /\ t[i + 2][2] = "newline" /\ (i = 1 \/ t[i - 1][2] = "newline")
    BY <1>2 DEF Sealed, Begins
  <2> HIDE DEF t
  <2>3. IsNote(t, i) /\ t[i][1] = n
    BY <1>1, <2>1, <2>2, SealedIsNote
  <2> QED BY <2>2, <2>3, NoFileIsNone DEF InFile, InText, t
<1>3. CASE queue # NoFile /\ \E i \in Nat : Sealed(n, queue, i)
  BY <1>2, <1>3 DEF SteerInv, SteerTypeOK
<1>4. CASE \E d \in Drivers : Reading(d) /\ \E i \in Nat : Sealed(n, staging[d], i)
  BY <1>2, <1>4 DEF SteerInv, LoopsInv, TakenOnce, Reading
<1>5. CASE \E d \in Drivers : Has(d, n)
  BY <1>5 DEF Has
<1> QED BY <1>1, <1>3, <1>4, <1>5 DEF Somewhere

LEMMA HeardInOrder == SteerInv => SaidOnceInOrder
<1> SUFFICES ASSUME SteerInv, NEW i \in 1..Len(heard), NEW j \in 1..Len(heard)
             PROVE  /\ heard[i][2] = heard[j][2] => i = j
                    /\ i < j /\ heard[i][1] = heard[j][1] => heard[j][2] \notin earlier[heard[i][2]]
  BY DEF SaidOnceInOrder
<1>1. /\ heard[i][1] \in Drivers /\ heard[i][2] \in Notes /\ Has(heard[i][1], heard[i][2])
      /\ heard[j][1] \in Drivers /\ heard[j][2] \in Notes /\ Has(heard[j][1], heard[j][2])
  BY HeardTyped DEF SteerInv
<1>2. ASSUME NEW n \in Notes, Before(n, n) PROVE FALSE
  <2>1. fd[n] \in 1..Len(files) /\ Len(files) \in Nat
    BY <1>2, FilesTyped DEF Before, SteerInv
  <2>2. PICK k \in Nat, l \in Nat : k < l /\ Begins(n, fd[n], k) /\ Begins(n, fd[n], l)
    BY <1>2, <2>1 DEF Before
  <2> QED BY <2>1, <2>2 DEF SteerInv, FilesInv, BegunOnce
<1>3. ASSUME heard[i][2] = heard[j][2] PROVE i = j
  <2>1. heard[i][1] = heard[j][1]
    BY <1>1, <1>3 DEF SteerInv, LoopsInv, HeldOnce
  <2>2. ~(i < j) /\ ~(j < i)
    BY <1>1, <1>2, <1>3, <2>1 DEF SteerInv, LoopsInv, InOrder
  <2> QED BY <2>2
<1>4. ASSUME i < j, heard[i][1] = heard[j][1], heard[j][2] \in earlier[heard[i][2]] PROVE FALSE
  <2>1. Before(heard[i][2], heard[j][2])
    BY <1>4 DEF SteerInv, LoopsInv, InOrder
  <2> DEFINE n == heard[i][2]  m == heard[j][2]
  <2>2. n \in Notes /\ m \in earlier[n] /\ Before(n, m)
    BY <1>1, <1>4, <2>1
  <2> HIDE DEF n, m
  <2>3. /\ fd[m] \in 1..Len(files) /\ fd[n] \in 1..Len(files) /\ fd[m] <= fd[n]
        /\ fd[m] = fd[n] => \A k, l \in Nat : Begins(m, fd[m], k) /\ Begins(n, fd[n], l) => k < l
    BY <2>2 DEF SteerInv, FilesInv, EarlierAhead
  <2>4. fd[n] = fd[m]
    BY <2>2, <2>3 DEF Before
  <2>5. PICK k \in Nat, l \in Nat : k < l /\ Begins(n, fd[n], k) /\ Begins(m, fd[m], l)
    BY <2>2, <2>3, <2>4 DEF Before
  <2> QED BY <2>3, <2>4, <2>5
<1> QED BY <1>3, <1>4
=============================================================================
