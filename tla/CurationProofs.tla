--------------------------- MODULE CurationProofs ---------------------------
(***************************************************************************)
(* The invariant of Curation and the steps that keep it, for conversations *)
(* and messages of any size.  What the recursive functions of Curation     *)
(* compute is proved from one lemma, Iterates; the induction is over the   *)
(* set of the numbers a fact holds for.                                    *)
(*                                                                         *)
(* A pass of transcript_trim is taken step by step: after every step the   *)
(* messages it has put out and those it has still to look at are together  *)
(* a conversation that pairs, the markers are in front, and a segment that *)
(* stayed was the last of the window or none had to give way (Going); what *)
(* it counts as left is as much as is left, but for rounding (Weighs).  So *)
(* a second pass finds the markers, and after them nothing or the segment  *)
(* that stayed (Idle).  The theorems are in RecordsProofs.                 *)
(***************************************************************************)
EXTENDS Curation, SequenceTheorems, WellFoundedInduction, TLAPS

-----------------------------------------------------------------------------
(* Conversations.                                                          *)

SizedMsgs == [kind : {"text", "asst", "result", "trimmed", "edited"}, id : Nat, size : Nat]
Talks     == Seq(SizedMsgs)

LEMMA Smallest ==
  ASSUME NEW T \in SUBSET Nat, T # {}
  PROVE  \E m \in T : \A k \in T : m <= k
<1> DEFINE R == OpToRel(<, Nat)
<1>1. IsWellFoundedOn(R, Nat)
  BY NatLessThanWellFounded
<1>2. \A k, l \in Nat : k < l => <<k, l>> \in R
  BY DEF R, OpToRel
<1> HIDE DEF R
<1>3. PICK m \in T : \A k \in T : ~(<<k, m>> \in R)
  BY WFMin, <1>1
<1>4. ASSUME NEW k \in T PROVE m <= k
  <2>1. m \in Nat /\ k \in Nat /\ ~(k < m)
    BY <1>2, <1>3
  <2> QED BY <2>1
<1> QED BY <1>4

\* Induction up to n, over the numbers a fact holds of.
LEMMA Upwards ==
  ASSUME NEW n \in Nat, NEW X, 0 \in X, \A k \in 1..n : k - 1 \in X => k \in X
  PROVE  0..n \subseteq X
<1>1. SUFFICES ASSUME (0..n) \ X # {} PROVE FALSE
  OBVIOUS
<1>2. PICK m \in (0..n) \ X : \A k \in (0..n) \ X : m <= k
  <2>1. (0..n) \ X \in SUBSET Nat
    OBVIOUS
  <2> QED BY <1>1, <2>1, Smallest
<1>3. m \in 1..n /\ m - 1 \in 0..n
  BY <1>2
<1>4. m - 1 \in X
  BY <1>2, <1>3
<1> QED BY <1>2, <1>3, <1>4

\* Step k of a recursion over 0..n takes S to S by G[k]; F is the recursion.
Stays(G, n, S)      == G \in [1..n -> [S -> S]]
Iterated(F, G, n, S, a) ==
    F \in [0..n -> S] /\ F[0] = a /\ \A k \in 1..n : F[k] = G[k][F[k - 1]]

LEMMA Iterates ==
  ASSUME NEW n \in Nat, NEW S, NEW a \in S, NEW G, Stays(G, n, S)
  PROVE  \E F : Iterated(F, G, n, S, a)
<1>0. G \in [1..n -> [S -> S]]
  BY DEF Stays
<1> DEFINE Upto(m) == \E F \in [0..m -> S] : F[0] = a /\ \A k \in 1..m : F[k] = G[k][F[k - 1]]
           X == {m \in 0..n : Upto(m)}
<1>1. 0 \in X
  <2> DEFINE F == [k \in 0..0 |-> a]
  <2>1. F \in [0..0 -> S] /\ F[0] = a /\ \A k \in 1..0 : F[k] = G[k][F[k - 1]]
    OBVIOUS
  <2> HIDE DEF F
  <2>2. Upto(0) /\ 0 \in 0..n
    BY <2>1
  <2> QED BY <2>2
<1>2. ASSUME NEW m \in 1..n, m - 1 \in X PROVE m \in X
  <2>1. PICK F \in [0..m - 1 -> S] : F[0] = a /\ \A k \in 1..m - 1 : F[k] = G[k][F[k - 1]]
    BY <1>2
  <2> DEFINE H == [k \in 0..m |-> IF k = m THEN G[m][F[m - 1]] ELSE F[k]]
  <2>2. F[m - 1] \in S /\ G[m][F[m - 1]] \in S
    <3>1. m - 1 \in 0..m - 1
      OBVIOUS
    <3>2. F[m - 1] \in S
      BY <3>1
    <3>3. G[m] \in [S -> S]
      BY <1>0
    <3> QED BY <3>2, <3>3
  <2>3. H \in [0..m -> S] /\ H[0] = a
    <3>1. ASSUME NEW k \in 0..m PROVE H[k] \in S
      <4>1. CASE k = m
        BY <2>2, <4>1
      <4>2. CASE k # m
        <5>1. k \in 0..m - 1
          BY <4>2
        <5> QED BY <4>2, <5>1
      <4> QED BY <4>1, <4>2
    <3> QED BY <2>1, <3>1
  <2>4. ASSUME NEW k \in 1..m PROVE H[k] = G[k][H[k - 1]]
    <3>1. H[k - 1] = F[k - 1]
      OBVIOUS
    <3>2. CASE k = m
      BY <3>1, <3>2
    <3>3. CASE k # m
      <4>1. k \in 1..m - 1 /\ H[k] = F[k]
        BY <3>3
      <4> QED BY <2>1, <3>1, <4>1
    <3> QED BY <3>2, <3>3
  <2> HIDE DEF H
  <2>5. Upto(m) /\ m \in 0..n
    BY <2>3, <2>4
  <2> QED BY <2>5
<1>3. 0..n \subseteq X
  <2> HIDE DEF X
  <2> QED BY <1>1, <1>2, Upwards
<1> QED BY <1>3 DEF Iterated

LEMMA CurationConstants ==
  /\ PerToken \in Nat \ {0} /\ SegmentTokens \in Nat \ {0} /\ MarkerSize \in Nat \ {0}
  /\ TrimAbove \in Nat /\ TrimTarget \in Nat /\ KeepLast \in Nat
  /\ MaxBatches \in Nat /\ MaxNotes \in Nat /\ TrimTarget < TrimAbove
  /\ Sizes \subseteq Nat \ {0} /\ TrimMarker \in SizedMsgs /\ EditMarker \in SizedMsgs
BY CurationAssumption DEF TrimMarker, EditMarker, Sized, SizedMsgs

-----------------------------------------------------------------------------
(* Sums.                                                                   *)

\* W has the characters of the first k messages.
Weights(ms, W) ==
    /\ W \in [0..Len(ms) -> Nat] /\ W[0] = 0
    /\ \A k \in 1..Len(ms) : W[k] = W[k - 1] + ms[k].size

LEMMA TalksAre ==
  ASSUME NEW ms \in Talks
  PROVE  Len(ms) \in Nat /\ \A k \in 1..Len(ms) : ms[k] \in SizedMsgs /\ ms[k].size \in Nat
<1>1. Len(ms) \in Nat /\ \A k \in 1..Len(ms) : ms[k] \in SizedMsgs
  BY DEF Talks
<1> QED BY <1>1 DEF SizedMsgs

LEMMA CharsAre ==
  ASSUME NEW ms \in Talks
  PROVE  \E W : Weights(ms, W) /\ \A i, j : Chars(ms, i, j) = W[j] - W[i - 1]
<1> DEFINE N == Len(ms)
           G == [k \in 1..N |-> [x \in Nat |-> x + ms[k].size]]
<1>1. N \in Nat /\ \A k \in 1..N : ms[k].size \in Nat
  BY TalksAre DEF SizedMsgs
<1>2. G \in [1..N -> [Nat -> Nat]] /\ \A k \in 1..N : \A x \in Nat : G[k][x] = x + ms[k].size
  BY <1>1
<1> HIDE DEF G, N
<1>3. PICK W \in [0..N -> Nat] : W[0] = 0 /\ \A k \in 1..N : W[k] = G[k][W[k - 1]]
  <2>1. PICK z : z = 0
    OBVIOUS
  <2>2. z \in Nat /\ Stays(G, N, Nat)
    BY <1>2, <2>1 DEF Stays
  <2>3. \E W : Iterated(W, G, N, Nat, z)
    BY <1>1, <2>2, Iterates
  <2> QED BY <2>1, <2>3 DEF Iterated
<1>4. ASSUME NEW k \in 1..N PROVE W[k - 1] \in Nat /\ W[k] = W[k - 1] + ms[k].size
  <2>1. k - 1 \in 0..N
    BY <1>1
  <2> QED BY <1>2, <1>3, <2>1
<1>5. W = [k \in 0..N |-> IF k = 0 THEN 0 ELSE W[k - 1] + ms[k].size]
  <2>1. W = [k \in 0..N |-> W[k]]
    OBVIOUS
  <2>2. ASSUME NEW k \in 0..N PROVE W[k] = IF k = 0 THEN 0 ELSE W[k - 1] + ms[k].size
    <3>1. CASE k = 0
      BY <1>3, <3>1
    <3>2. CASE k # 0
      <4>1. k \in 1..N
        BY <1>1, <3>2
      <4> QED BY <1>4, <3>2, <4>1
    <3> QED BY <3>1, <3>2
  <2> QED BY <2>1, <2>2
<1> DEFINE Upto[k \in 0..Len(ms)] == IF k = 0 THEN 0 ELSE Upto[k - 1] + ms[k].size
<1>6. \A i, j : Chars(ms, i, j) = Upto[j] - Upto[i - 1]
  BY DEF Chars
<1>7. Upto = [k \in 0..Len(ms) |-> IF k = 0 THEN 0 ELSE Upto[k - 1] + ms[k].size]
  BY <1>5 DEF N
<1> HIDE DEF Upto
<1>8. Weights(ms, Upto)
  <2>0. N = Len(ms)
    BY DEF N
  <2>1. Upto[0] = 0
    BY <1>1, <1>7, <2>0
  <2>2. ASSUME NEW k \in 1..N PROVE Upto[k] = Upto[k - 1] + ms[k].size
    <3>1. k \in 0..Len(ms) /\ k # 0
      BY <1>1, <2>0
    <3> QED BY <1>7, <3>1
  <2> DEFINE X == {k \in 0..N : Upto[k] \in Nat}
  <2>3. 0 \in X
    BY <1>1, <2>1
  <2>4. ASSUME NEW k \in 1..N, k - 1 \in X PROVE k \in X
    <3>1. Upto[k - 1] \in Nat /\ ms[k].size \in Nat /\ k \in 0..N
      BY <1>1, <2>4
    <3>2. Upto[k] \in Nat
      BY <2>2, <3>1
    <3> QED BY <3>1, <3>2
  <2>5. 0..N \subseteq X
    <3> HIDE DEF X
    <3> QED BY <1>1, <2>3, <2>4, Upwards
  <2>6. Upto \in [0..Len(ms) -> Nat]
    <3>1. Upto = [k \in 0..Len(ms) |-> Upto[k]]
      BY <1>7
    <3> QED BY <2>0, <2>5, <3>1
  <2> QED BY <2>0, <2>1, <2>2, <2>6 DEF Weights
<1> QED BY <1>6, <1>8

LEMMA CharsGrow ==
  ASSUME NEW ms \in Talks, NEW i \in 1..Len(ms) + 1, NEW j \in i - 1 .. Len(ms)
  PROVE  /\ Chars(ms, i, j) \in Nat /\ Chars(ms, i, i - 1) = 0
         /\ i <= j => Chars(ms, i, j) = Chars(ms, i, j - 1) + ms[j].size
         /\ \A k \in j .. Len(ms) : Chars(ms, i, k) = Chars(ms, i, j) + Chars(ms, j + 1, k)
<1>1. PICK W : Weights(ms, W) /\ \A k, l : Chars(ms, k, l) = W[l] - W[k - 1]
  BY CharsAre
<1>2. /\ Len(ms) \in Nat /\ i - 1 \in 0..Len(ms) /\ j \in 0..Len(ms)
      /\ W \in [0..Len(ms) -> Nat] /\ \A k \in 1..Len(ms) : ms[k].size \in Nat
      /\ \A k \in 1..Len(ms) : W[k] = W[k - 1] + ms[k].size
  BY <1>1, TalksAre, SMTT(30) DEF Weights
<1>3. ASSUME NEW k \in i - 1 .. Len(ms) PROVE W[k] >= W[i - 1]
  <2> DEFINE X == {l \in 0..Len(ms) - (i - 1) : W[l + (i - 1)] >= W[i - 1]}
             n == Len(ms) - (i - 1)
  <2>1. n \in Nat
    BY <1>2
  <2>2. 0 \in X
    <3>1. W[i - 1] \in Nat
      BY <1>2
    <3>3. 0 + (i - 1) = i - 1 /\ 0 \in 0..n
      BY <1>2, <2>1
    <3>2. W[i - 1] >= W[i - 1]
      BY <3>1
    <3> QED BY <3>2, <3>3
  <2>3. ASSUME NEW l \in 1..n, l - 1 \in X PROVE l \in X
    <3> DEFINE m == l + (i - 1)
    <3>0. Len(ms) \in Nat /\ i \in 1..Len(ms) + 1 /\ l \in Nat /\ l <= Len(ms) - (i - 1) /\ l >= 1
      BY <1>2, <2>1, l \in 1..n DEF n
    <3>1. m \in 1..Len(ms) /\ m - 1 = (l - 1) + (i - 1) /\ m - 1 \in 0..Len(ms) /\ l \in 0..n
      BY <3>0
    <3>2. W[m] = W[m - 1] + ms[m].size /\ W[m - 1] \in Nat /\ ms[m].size \in Nat /\ W[i - 1] \in Nat
      BY <1>2, <3>1
    <3>3. W[m - 1] >= W[i - 1]
      BY <2>3, <3>1
    <3>4. W[m] >= W[i - 1]
      <4> HIDE DEF m
      <4> QED BY <3>2, <3>3
    <3> QED BY <3>1, <3>4
  <2>4. 0..n \subseteq X
    <3> HIDE DEF X, n
    <3> QED BY <2>1, <2>2, <2>3, Upwards
  <2>5. k - (i - 1) \in 0..n /\ (k - (i - 1)) + (i - 1) = k
    BY <1>2
  <2> QED BY <2>4, <2>5
<1>4. W[j] \in Nat /\ W[i - 1] \in Nat /\ W[j] >= W[i - 1]
  BY <1>2, <1>3
<1>5. Chars(ms, i, j) \in Nat /\ Chars(ms, i, i - 1) = 0
  BY <1>1, <1>4
<1>6. i <= j => Chars(ms, i, j) = Chars(ms, i, j - 1) + ms[j].size
  <2> SUFFICES ASSUME i <= j PROVE Chars(ms, i, j) = Chars(ms, i, j - 1) + ms[j].size
    OBVIOUS
  <2>1. j \in 1..Len(ms) /\ j - 1 \in 0..Len(ms)
    BY <1>2
  <2>2. W[j] = W[j - 1] + ms[j].size /\ W[j - 1] \in Nat /\ ms[j].size \in Nat /\ W[i - 1] \in Nat
    BY <1>2, <2>1
  <2> QED BY <1>1, <2>2
<1>7. ASSUME NEW k \in j .. Len(ms) PROVE Chars(ms, i, k) = Chars(ms, i, j) + Chars(ms, j + 1, k)
  <2>1. k \in 0..Len(ms) /\ (j + 1) - 1 = j
    BY <1>2
  <2>2. W[k] \in Nat /\ W[j] \in Nat /\ W[i - 1] \in Nat
    BY <1>2, <2>1
  <2>3. Chars(ms, j + 1, k) = W[k] - W[j]
    BY <1>1, <2>1
  <2> QED BY <1>1, <2>2, <2>3
<1> QED BY <1>5, <1>6, <1>7

\* The n messages of x behind i are those of y behind j.
Alike(x, i, y, j, n) ==
    i + n <= Len(x) /\ j + n <= Len(y) /\ \A l \in 1..n : x[i + l] = y[j + l]

LEMMA SameChars ==
  ASSUME NEW x \in Talks, NEW y \in Talks, NEW i \in Nat, NEW j \in Nat, NEW n \in Nat,
         Alike(x, i, y, j, n)
  PROVE  Chars(x, i + 1, i + n) = Chars(y, j + 1, j + n)
<1> DEFINE X == {m \in 0..n : Chars(x, i + 1, i + m) = Chars(y, j + 1, j + m)}
<1>1. ASSUME NEW z \in Talks, NEW k \in Nat, NEW m \in 0..n, k + n <= Len(z)
      PROVE  /\ Chars(z, k + 1, (k + 1) - 1) = 0
             /\ m # 0 => /\ Chars(z, k + 1, k + m) = Chars(z, k + 1, k + (m - 1)) + z[k + m].size
                         /\ Chars(z, k + 1, k + (m - 1)) \in Nat
  <2>0. Len(z) \in Nat
    BY TalksAre
  <2>1. k + 1 \in 1..Len(z) + 1 /\ k + m \in (k + 1) - 1 .. Len(z)
    BY <1>1, <2>0
  <2>2. Chars(z, k + 1, (k + 1) - 1) = 0
    BY <2>1, CharsGrow
  <2>3. ASSUME m # 0
        PROVE  /\ Chars(z, k + 1, k + m) = Chars(z, k + 1, k + (m - 1)) + z[k + m].size
               /\ Chars(z, k + 1, k + (m - 1)) \in Nat
    <3>1. k + 1 <= k + m /\ (k + m) - 1 = k + (m - 1) /\ k + (m - 1) \in (k + 1) - 1 .. Len(z)
      BY <1>1, <2>0, <2>3
    <3>2. Chars(z, k + 1, k + m) = Chars(z, k + 1, (k + m) - 1) + z[k + m].size
      BY <2>1, <3>1, CharsGrow
    <3>3. Chars(z, k + 1, k + (m - 1)) \in Nat
      BY <2>1, <3>1, CharsGrow
    <3> QED BY <3>1, <3>2, <3>3
  <2> QED BY <2>2, <2>3
<1>0. i + n <= Len(x) /\ j + n <= Len(y) /\ \A l \in 1..n : x[i + l] = y[j + l]
  BY DEF Alike
<1>2. 0 \in X
  <2>1. PICK o : o = 0
    OBVIOUS
  <2>2. o \in 0..n /\ (i + 1) - 1 = i + o /\ (j + 1) - 1 = j + o
    BY <2>1
  <2>3. Chars(x, i + 1, (i + 1) - 1) = 0 /\ Chars(y, j + 1, (j + 1) - 1) = 0
    BY <1>0, <1>1, <2>2
  <2>4. o \in X
    BY <2>2, <2>3
  <2> QED BY <2>1, <2>4
<1>3. ASSUME NEW m \in 1..n, m - 1 \in X PROVE m \in X
  <2>1. m \in 0..n /\ m # 0 /\ x[i + m] = y[j + m]
    BY <1>0
  <2>2. Chars(x, i + 1, i + (m - 1)) = Chars(y, j + 1, j + (m - 1))
    BY <1>3
  <2>3. Chars(x, i + 1, i + m) = Chars(x, i + 1, i + (m - 1)) + x[i + m].size
    BY <1>0, <1>1, <2>1
  <2>4. Chars(y, j + 1, j + m) = Chars(y, j + 1, j + (m - 1)) + y[j + m].size
    BY <1>0, <1>1, <2>1
  <2> QED BY <2>1, <2>2, <2>3, <2>4
<1>4. n \in X
  <2>1. 0..n \subseteq X
    <3> HIDE DEF X
    <3> QED BY <1>2, <1>3, Upwards
  <2> QED BY <2>1
<1> QED BY <1>4

\* The characters of all messages.
All(ms) == Chars(ms, 1, Len(ms))

\* y is x and then the n messages behind i.
Extends(y, x, ms, i, n) ==
    /\ i + n <= Len(ms) /\ Len(y) = Len(x) + n /\ \A k \in 1..Len(x) : y[k] = x[k]
    /\ \A k \in 1..n : y[Len(x) + k] = ms[i + k]

LEMMA AllOfJoin ==
  ASSUME NEW x \in Talks, NEW y \in Talks, NEW ms \in Talks, NEW i \in Nat, NEW n \in Nat,
         Extends(y, x, ms, i, n)
  PROVE  All(y) = All(x) + Chars(ms, i + 1, i + n) /\ All(x) \in Nat /\ Chars(ms, i + 1, i + n) \in Nat
<1>0. /\ i + n <= Len(ms) /\ Len(y) = Len(x) + n /\ \A k \in 1..Len(x) : y[k] = x[k]
      /\ \A k \in 1..n : y[Len(x) + k] = ms[i + k]
  BY DEF Extends
<1>1. Len(x) \in Nat /\ Len(y) \in Nat /\ Len(ms) \in Nat
  BY TalksAre
<1>2. PICK o : o = 0
  OBVIOUS
<1>3. PICK L : L = Len(x)
  OBVIOUS
<1>4. \A z : All(z) = Chars(z, o + 1, Len(z))
  BY <1>2 DEF All
<1>5. Chars(y, o + 1, o + L) = Chars(x, o + 1, o + L)
  <2>1. o \in Nat /\ L \in Nat /\ o + L <= Len(x) /\ o + L <= Len(y) /\ \A k \in 1..L : o + k = k
    BY <1>0, <1>1, <1>2, <1>3
  <2>2. Alike(y, o, x, o, L)
    BY <1>0, <1>3, <2>1 DEF Alike
  <2> QED BY <2>1, <2>2, SameChars
<1>6. Chars(y, L + 1, L + n) = Chars(ms, i + 1, i + n)
  <2>1. L \in Nat /\ L + n <= Len(y) /\ \A k \in 1..n : y[L + k] = ms[i + k]
    BY <1>0, <1>1, <1>3
  <2>2. Alike(y, L, ms, i, n)
    BY <1>0, <2>1 DEF Alike
  <2> QED BY <2>1, <2>2, SameChars
<1>7. Chars(y, o + 1, Len(y)) = Chars(y, o + 1, L) + Chars(y, L + 1, Len(y)) /\ Chars(y, o + 1, L) \in Nat
  <2>1. o + 1 \in 1..Len(y) + 1 /\ L \in (o + 1) - 1 .. Len(y) /\ Len(y) \in L .. Len(y)
    BY <1>0, <1>1, <1>2, <1>3
  <2> QED BY <2>1, CharsGrow
<1>8. Chars(ms, i + 1, i + n) \in Nat
  <2>1. i + 1 \in 1..Len(ms) + 1 /\ i + n \in (i + 1) - 1 .. Len(ms)
    BY <1>0, <1>1
  <2> QED BY <2>1, CharsGrow
<1>9. o + L = L /\ L + n = Len(y) /\ Len(x) = L
  BY <1>0, <1>1, <1>2, <1>3
<1> QED BY <1>4, <1>5, <1>6, <1>7, <1>8, <1>9

-----------------------------------------------------------------------------
(* The segment that starts at i.                                           *)

Full(ms, i, e) == Chars(ms, i, e) \div PerToken >= SegmentTokens

\* s ends where it is full and the results that follow are over; or with the
\* window.
SegmentIs(ms, window, i, s) ==
    /\ s.start = i /\ s.end \in i..window /\ s.complete \in BOOLEAN
    /\ s.tokens = Chars(ms, i, s.end) \div PerToken
    /\ ms[i].kind = "trimmed" => ~s.complete /\ s.end = i
    /\ ~s.complete /\ ms[i].kind # "trimmed" =>
          s.end = window /\ \A e \in i..window : ~Full(ms, i, e)
    /\ s.complete =>
          /\ s.end < window => ms[s.end + 1].kind # "result"
          /\ \E e \in i..s.end : /\ Full(ms, i, e) /\ \A k \in e + 1 .. s.end : ms[k].kind = "result"
                                 /\ \A k \in i..window : Full(ms, i, k) => e <= k

LEMMA AbsorbsIs ==
  ASSUME NEW ms \in Talks, NEW window \in Nat, NEW i \in 1..window
  PROVE  LET e == Absorbs(ms, window, i)
         IN  /\ e \in i..window /\ \A k \in i + 1 .. e : ms[k].kind = "result"
             /\ e < window => ms[e + 1].kind # "result"
<1> DEFINE Stops(e) == e < window => ms[e + 1].kind # "result"
           T == {e \in i..window : Stops(e)}
           Good(e) == /\ \A k \in i + 1 .. e : ms[k].kind = "result"
                      /\ e < window => ms[e + 1].kind # "result"
<1>1. T \in SUBSET Nat /\ window \in T
  OBVIOUS
<1>2. PICK m \in T : \A k \in T : m <= k
  <2> HIDE DEF T
  <2> QED BY <1>1, Smallest
<1>3. m \in i..window /\ Stops(m)
  BY <1>2
<1>4. ASSUME NEW k \in i + 1 .. m PROVE ms[k].kind = "result"
  <2>1. k - 1 \in i..window /\ ~(m <= k - 1) /\ k - 1 < window /\ (k - 1) + 1 = k
    BY <1>3
  <2>2. k - 1 \notin T
    BY <1>2, <2>1
  <2>3. ~Stops(k - 1)
    BY <2>1, <2>2
  <2> QED BY <2>1, <2>3
<1>5. \E e \in i..window : Good(e)
  BY <1>3, <1>4
<1>6. Absorbs(ms, window, i) = CHOOSE e \in i..window : Good(e)
  BY DEF Absorbs
<1> HIDE DEF Good
<1>7. Absorbs(ms, window, i) \in i..window /\ Good(Absorbs(ms, window, i))
  BY <1>5, <1>6
<1> QED BY <1>7 DEF Good

LEMMA PlanIs ==
  ASSUME NEW ms \in Talks, NEW window \in 2..Len(ms), NEW i \in 2..window
  PROVE  SegmentIs(ms, window, i, plan_trim_segments(ms, window, i))
<1> DEFINE full == {e \in i..window : Chars(ms, i, e) \div PerToken >= SegmentTokens}
           least == CHOOSE e \in full : \A o \in full : e <= o
           end == IF ms[i].kind = "trimmed" THEN i
                  ELSE IF full = {} THEN window ELSE Absorbs(ms, window, least)
           s == plan_trim_segments(ms, window, i)
<1>1. /\ s.start = i /\ s.end = end /\ s.complete = (ms[i].kind # "trimmed" /\ full # {})
      /\ s.tokens = Chars(ms, i, end) \div PerToken
  BY DEF plan_trim_segments
<1>2. full = {e \in i..window : Full(ms, i, e)}
  BY DEF Full
<1>3. window \in Nat /\ i \in Nat /\ 2 <= i /\ i <= window
  BY TalksAre
<1> SUFFICES SegmentIs(ms, window, i, s)
  OBVIOUS
<1> HIDE DEF s
<1>4. CASE ms[i].kind = "trimmed"
  <2>1. s.end = i /\ s.complete = FALSE
    BY <1>1, <1>4
  <2> HIDE DEF end, full
  <2>2. s.start = i /\ s.end \in i..window /\ s.tokens = Chars(ms, i, s.end) \div PerToken
    BY <1>1, <1>3, <2>1
  <2> QED BY <1>4, <2>1, <2>2 DEF SegmentIs
<1>5. CASE ms[i].kind # "trimmed" /\ full = {}
  <2>1. end = window /\ s.complete = FALSE
    BY <1>1, <1>5
  <2>2. \A e \in i..window : ~Full(ms, i, e)
    BY <1>2, <1>5
  <2> HIDE DEF end, full
  <2>3. /\ s.start = i /\ s.end = window /\ s.end \in i..window /\ s.complete = FALSE
        /\ s.tokens = Chars(ms, i, s.end) \div PerToken
    BY <1>1, <1>3, <2>1
  <2> QED BY <1>5, <2>2, <2>3 DEF SegmentIs
<1>6. CASE ms[i].kind # "trimmed" /\ full # {}
  <2>1. full \in SUBSET Nat
    BY <1>3
  <2>2. least \in full /\ \A o \in full : least <= o
    <3> HIDE DEF full
    <3>1. \E e \in full : \A o \in full : e <= o
      BY <1>6, <2>1, Smallest
    <3> QED BY <3>1
  <2>3. end = Absorbs(ms, window, least) /\ s.complete = TRUE
    BY <1>1, <1>6
  <2> HIDE DEF end, least
  <2>4. least \in i..window /\ Full(ms, i, least) /\ \A k \in i..window : Full(ms, i, k) => least <= k
    BY <1>2, <2>2
  <2> HIDE DEF full
  <2>5. least \in 1..window
    BY <1>3, <2>4
  <2>6. /\ end \in least..window /\ \A k \in least + 1 .. end : ms[k].kind = "result"
        /\ end < window => ms[end + 1].kind # "result"
    BY <1>3, <2>3, <2>5, AbsorbsIs
  <2>7. end \in i..window /\ least \in i..end
    BY <1>3, <2>4, <2>6
  <2>8. /\ s.start = i /\ s.end = end /\ s.end \in i..window /\ s.complete = TRUE
        /\ s.tokens = Chars(ms, i, s.end) \div PerToken
    BY <1>1, <2>3, <2>7
  <2>9. \E e \in i..s.end : /\ Full(ms, i, e) /\ \A k \in e + 1 .. s.end : ms[k].kind = "result"
                            /\ \A k \in i..window : Full(ms, i, k) => e <= k
    BY <2>4, <2>6, <2>7, <2>8
  <2>10. s.end < window => ms[s.end + 1].kind # "result"
    BY <2>6, <2>8
  <2> QED BY <1>6, <2>8, <2>9, <2>10 DEF SegmentIs
<1> QED BY <1>4, <1>5, <1>6

\* The same messages make the same segment.
LEMMA NoFurther ==
  ASSUME NEW x \in Talks, NEW y \in Talks, NEW i \in Nat, NEW j \in Nat, NEW w \in Nat \ {0},
         Alike(x, i, y, j, w), NEW s, NEW r,
         SegmentIs(x, i + w, i + 1, s), SegmentIs(y, j + w, j + 1, r)
  PROVE  (s.complete => r.complete) /\ s.end - i <= r.end - j
<1>1. /\ Len(x) \in Nat /\ Len(y) \in Nat /\ i + w <= Len(x) /\ j + w <= Len(y)
      /\ \A l \in 1..w : x[i + l] = y[j + l]
  BY TalksAre DEF Alike
<1>2. ASSUME NEW l \in 1..w PROVE Full(x, i + 1, i + l) <=> Full(y, j + 1, j + l)
  <2>0. l \in Nat /\ i + l <= Len(x) /\ j + l <= Len(y) /\ 1..l \subseteq 1..w
    <3>1. i + w <= Len(x) /\ j + w <= Len(y) /\ Len(x) \in Nat /\ Len(y) \in Nat
      BY <1>1
    <3> QED BY <3>1
  <2>1. l \in Nat /\ i + l <= Len(x) /\ j + l <= Len(y) /\ \A k \in 1..l : x[i + k] = y[j + k]
    BY <1>1, <2>0
  <2>2. Alike(x, i, y, j, l)
    BY <2>1 DEF Alike
  <2>3. Chars(x, i + 1, i + l) = Chars(y, j + 1, j + l)
    BY <2>1, <2>2, SameChars
  <2> QED BY <2>3 DEF Full
<1>3. x[i + 1] = y[j + 1]
  <2>1. 1 \in 1..w
    OBVIOUS
  <2> QED BY <1>1, <2>1
<1>4. /\ s.end \in i + 1 .. i + w /\ r.end \in j + 1 .. j + w
      /\ s.complete \in BOOLEAN /\ r.complete \in BOOLEAN
  BY DEF SegmentIs
<1>5. CASE x[i + 1].kind = "trimmed"
  <2>1. ~s.complete /\ s.end = i + 1
    BY <1>5 DEF SegmentIs
  <2> QED BY <1>4, <2>1
<1>6. CASE x[i + 1].kind # "trimmed" /\ ~s.complete
  <2>1. \A e \in i + 1 .. i + w : ~Full(x, i + 1, e)
    BY <1>6 DEF SegmentIs
  <2>2. ~r.complete
    <3>1. SUFFICES ASSUME r.complete PROVE FALSE
      OBVIOUS
    <3>2. PICK e \in j + 1 .. r.end : Full(y, j + 1, e)
      BY <3>1 DEF SegmentIs
    <3>3. PICK l : l = e - j
      OBVIOUS
    <3>4. l \in 1..w /\ j + l = e /\ i + l \in i + 1 .. i + w
      BY <1>4, <3>3
    <3> QED BY <1>2, <2>1, <3>2, <3>4
  <2>3. r.end = j + w
    BY <1>3, <1>6, <2>2 DEF SegmentIs
  <2> QED BY <1>4, <1>6, <2>3
<1>7. CASE x[i + 1].kind # "trimmed" /\ s.complete
  <2>1. PICK e \in i + 1 .. s.end : /\ Full(x, i + 1, e) /\ \A k \in e + 1 .. s.end : x[k].kind = "result"
                                    /\ \A k \in i + 1 .. i + w : Full(x, i + 1, k) => e <= k
    BY <1>7 DEF SegmentIs
  <2>2. r.complete
    <3>1. SUFFICES ASSUME ~r.complete PROVE FALSE
      OBVIOUS
    <3>2. \A k \in j + 1 .. j + w : ~Full(y, j + 1, k)
      BY <1>3, <1>7, <3>1 DEF SegmentIs
    <3>3. PICK l : l = e - i
      OBVIOUS
    <3>4. l \in 1..w /\ i + l = e /\ j + l \in j + 1 .. j + w
      BY <1>4, <3>3
    <3> QED BY <1>2, <2>1, <3>2, <3>4
  <2>3. PICK f \in j + 1 .. r.end : Full(y, j + 1, f)
    BY <2>2 DEF SegmentIs
  <2>4. e - i <= f - j
    <3>1. PICK l : l = f - j
      OBVIOUS
    <3>2. l \in 1..w /\ j + l = f /\ i + l \in i + 1 .. i + w
      BY <1>4, <3>1
    <3>3. Full(x, i + 1, i + l)
      BY <1>2, <2>3, <3>2
    <3>4. e <= i + l
      BY <2>1, <3>2, <3>3
    <3> QED BY <1>4, <3>1, <3>4
  <2>5. s.end - i <= r.end - j
    <3>1. SUFFICES ASSUME r.end - j < s.end - i PROVE FALSE
      BY <1>4
    <3>2. PICK l : l = (r.end + 1) - j
      OBVIOUS
    <3>3. /\ r.end < j + w /\ l \in 1..w /\ j + l = r.end + 1 /\ i + l \in e + 1 .. s.end
      BY <1>4, <2>4, <3>1, <3>2
    <3>4. y[j + l].kind # "result"
      BY <2>2, <3>3 DEF SegmentIs
    <3>5. x[i + l].kind = "result"
      BY <2>1, <3>3
    <3> QED BY <1>1, <3>3, <3>4, <3>5
  <2> QED BY <2>2, <2>5
<1> QED BY <1>4, <1>5, <1>6, <1>7

LEMMA SameSegment ==
  ASSUME NEW x \in Talks, NEW y \in Talks, NEW i \in Nat, NEW j \in Nat, NEW w \in Nat \ {0},
         Alike(x, i, y, j, w), NEW s, NEW r,
         SegmentIs(x, i + w, i + 1, s), SegmentIs(y, j + w, j + 1, r)
  PROVE  (s.complete <=> r.complete) /\ s.end - i = r.end - j
<1>1. (s.complete => r.complete) /\ s.end - i <= r.end - j
  BY NoFurther
<1>2. Alike(y, j, x, i, w)
  BY DEF Alike
<1>3. (r.complete => s.complete) /\ r.end - j <= s.end - i
  BY <1>2, NoFurther
<1>4. s.end \in i + 1 .. i + w /\ r.end \in j + 1 .. j + w
  BY DEF SegmentIs
<1>5. s.end \in Int /\ r.end \in Int
  BY <1>4
<1> QED BY <1>1, <1>3, <1>5

-----------------------------------------------------------------------------
(* Cutting and joining.                                                    *)

\* y is x and then messages i to j.
Joined(y, x, ms, i, j) ==
    /\ y \in Talks /\ Len(y) = Len(x) + (j - i + 1)
    /\ \A k \in 1..Len(x) : y[k] = x[k]
    /\ \A k \in 1 .. j - i + 1 : y[Len(x) + k] = ms[i + k - 1]

LEMMA JoinIs ==
  ASSUME NEW x \in Talks, NEW ms \in Talks, NEW i \in 1..Len(ms) + 1, NEW j \in i - 1 .. Len(ms)
  PROVE  Joined(x \o SubSeq(ms, i, j), x, ms, i, j)
<1> DEFINE b == SubSeq(ms, i, j)
<1>1. Len(ms) \in Nat /\ i \in Nat /\ j \in Int /\ i - 1 <= j /\ j <= Len(ms) /\ 1 <= i
  BY TalksAre
<1>2. /\ b \in Talks /\ Len(b) = j - i + 1 /\ \A k \in 1..j - i + 1 : b[k] = ms[i + k - 1]
  <2>1. i..j \subseteq 1..Len(ms)
    BY <1>1
  <2>2. ms \in Seq(SizedMsgs)
    BY DEF Talks
  <2>3. /\ b \in Seq(SizedMsgs) /\ Len(b) = IF i <= j THEN j - i + 1 ELSE 0
        /\ \A k \in 1 .. j - i + 1 : b[k] = ms[i + k - 1]
    BY <2>1, <2>2, <1>1, SubSeqProperties
  <2>4. Len(b) = j - i + 1
    <3> HIDE DEF b
    <3> QED BY <1>1, <2>3
  <2> QED BY <2>3, <2>4 DEF Talks
<1> HIDE DEF b
<1> DEFINE y == x \o b
<1>3. /\ y \in Talks /\ Len(y) = Len(x) + Len(b) /\ Len(x) \in Nat /\ Len(b) \in Nat
      /\ \A k \in 1..Len(x) + Len(b) : y[k] = IF k <= Len(x) THEN x[k] ELSE b[k - Len(x)]
  <2>1. x \in Seq(SizedMsgs) /\ b \in Seq(SizedMsgs)
    BY <1>2 DEF Talks
  <2>2. /\ y \in Seq(SizedMsgs) /\ Len(y) = Len(x) + Len(b)
        /\ \A k \in 1..Len(x) + Len(b) : y[k] = IF k <= Len(x) THEN x[k] ELSE b[k - Len(x)]
    BY <2>1, ConcatProperties
  <2> HIDE DEF y
  <2> QED BY <2>1, <2>2 DEF Talks
<1> HIDE DEF y
<1>4. \A k \in 1..Len(x) : y[k] = x[k]
  BY <1>3
<1>5. ASSUME NEW k \in 1..j - i + 1 PROVE y[Len(x) + k] = ms[i + k - 1]
  <2>1. Len(x) + k \in 1..Len(x) + Len(b) /\ ~(Len(x) + k <= Len(x)) /\ (Len(x) + k) - Len(x) = k
    BY <1>1, <1>2, <1>3
  <2>2. y[Len(x) + k] = b[k]
    BY <1>3, <2>1
  <2> QED BY <1>2, <2>2
<1> QED BY <1>2, <1>3, <1>4, <1>5 DEF Joined, y, b

\* c is r with messages i to i + d given way to m.
Given(c, r, i, d, m) ==
    /\ Len(c) = Len(r) - d /\ c[i] = m /\ \A k \in 1..i - 1 : c[k] = r[k]
    /\ \A k \in i + 1 .. Len(c) : c[k] = r[k + d]

LEMMA MarkerKeepsPairs ==
  ASSUME NEW r \in Talks, NEW c \in Talks, NEW i \in 1..Len(r), NEW d \in 0..Len(r) - i, NEW m,
         m.kind \notin {"asst", "result"}, Given(c, r, i, d, m), pairs_intact(r),
         r[i].kind # "result", i + d < Len(r) => r[i + d + 1].kind # "result"
  PROVE  pairs_intact(c)
<1>1. /\ Len(r) \in Nat /\ Len(c) \in Nat /\ Len(c) = Len(r) - d /\ c[i] = m
      /\ (\A k \in 1..i - 1 : c[k] = r[k])
      /\ \A k \in i + 1 .. Len(c) : c[k] = r[k + d]
      /\ i \in Nat /\ 1 <= i /\ d \in Nat /\ i + d <= Len(r)
  BY TalksAre DEF Given
<1>0. /\ Len(r) \in Nat /\ Len(c) \in Nat /\ Len(c) = Len(r) - d
      /\ i \in Nat /\ 1 <= i /\ d \in Nat /\ i + d <= Len(r)
  BY <1>1
<1>2. ASSUME NEW k \in 1..Len(c), Asks(c[k]) PROVE k < Len(c) /\ Answers(c[k + 1], c[k])
  <2>1. CASE k < i
    <3>0. k \in 1..Len(r) /\ k \in 1..i - 1 /\ k < Len(c)
      BY <1>0, <2>1, SMTT(30)
    <3>1. k \in 1..Len(r) /\ c[k] = r[k] /\ k < Len(c)
      BY <1>1, <3>0
    <3>2. k < Len(r) /\ Answers(r[k + 1], r[k])
      BY <1>2, <3>1 DEF pairs_intact
    <3>3. k + 1 # i
      BY <3>2 DEF Answers
    <3>5. k + 1 \in 1..i - 1
      BY <1>0, <2>1, <3>3
    <3>4. c[k + 1] = r[k + 1]
      BY <1>1, <3>5
    <3> QED BY <3>1, <3>2, <3>4
  <2>2. CASE k = i
    BY <1>1, <1>2, <2>2 DEF Asks
  <2>3. CASE k > i
    <3>0. k \in i + 1 .. Len(c) /\ k + d \in 1..Len(r)
      BY <1>0, <2>3
    <3>1. k + d \in 1..Len(r) /\ c[k] = r[k + d]
      BY <1>1, <3>0
    <3>2. k + d < Len(r) /\ Answers(r[(k + d) + 1], r[k + d])
      BY <1>2, <3>1 DEF pairs_intact
    <3>5. k + d < Len(r) /\ k \in Nat /\ k > i
      BY <2>3, <3>2
    <3>3. k + 1 \in i + 1 .. Len(c) /\ (k + 1) + d = (k + d) + 1 /\ k < Len(c)
      BY <1>0, <3>5
    <3>4. c[k + 1] = r[(k + d) + 1]
      BY <1>1, <3>3
    <3> QED BY <3>1, <3>2, <3>3, <3>4
  <2> QED BY <1>0, <2>1, <2>2, <2>3
<1>3. ASSUME NEW k \in 1..Len(c), c[k].kind = "result" PROVE k > 1 /\ Answers(c[k], c[k - 1])
  <2>1. CASE k < i
    <3>0. k \in 1..Len(r) /\ k \in 1..i - 1
      BY <1>0, <2>1
    <3>1. k \in 1..Len(r) /\ c[k] = r[k]
      BY <1>1, <3>0
    <3>2. k > 1 /\ Answers(r[k], r[k - 1])
      BY <1>3, <3>1 DEF pairs_intact
    <3>3. k - 1 \in 1..i - 1
      BY <2>1, <3>2
    <3>4. c[k - 1] = r[k - 1]
      BY <1>1, <3>3
    <3> QED BY <3>1, <3>2, <3>4
  <2>2. CASE k = i
    BY <1>1, <1>3, <2>2
  <2>3. CASE k = i + 1
    <3>1. i + d < Len(r) /\ k + d = i + d + 1 /\ k \in i + 1 .. Len(c)
      BY <1>0, <2>3
    <3> QED BY <1>1, <1>3, <3>1
  <2>4. CASE k > i + 1
    <3>1. /\ k + d \in 1..Len(r) /\ k \in i + 1 .. Len(c) /\ k - 1 \in i + 1 .. Len(c)
          /\ (k - 1) + d = (k + d) - 1
      BY <1>0, <2>4
    <3>2. c[k] = r[k + d] /\ c[k - 1] = r[(k + d) - 1]
      BY <1>1, <3>1
    <3>3. Answers(r[k + d], r[(k + d) - 1])
      BY <1>3, <3>1, <3>2 DEF pairs_intact
    <3> QED BY <2>4, <3>2, <3>3
  <2> QED BY <1>0, <2>1, <2>2, <2>3, <2>4
<1> QED BY <1>2, <1>3 DEF pairs_intact
-----------------------------------------------------------------------------
(* One step of the pass.                                                   *)

Passes(window) == [next : 2..window + 1, total : Int, out : Talks]

\* s gives way, or stays.
Gave(p, q, s)       == /\ q.out = Append(p.out, TrimMarker)
                       /\ q.total = p.total - s.tokens + MarkerSize \div PerToken
Stayed(ms, p, q, s) == q.out = p.out \o SubSeq(ms, p.next, s.end) /\ q.total = p.total

LEMMA ChooseIs ==
  ASSUME NEW ms \in Talks, NEW window \in 2..Len(ms), NEW p \in Passes(window), p.next <= window
  PROVE  LET q == Choose(ms, window, p)
         IN  /\ q \in Passes(window)
             /\ \E s : /\ SegmentIs(ms, window, p.next, s) /\ q.next = s.end + 1
                       /\ \/ Collapses(ms, p.total, s) /\ Gave(p, q, s)
                          \/ ~Collapses(ms, p.total, s) /\ Stayed(ms, p, q, s)
<1> DEFINE q == Choose(ms, window, p)
<1> SUFFICES /\ q \in Passes(window)
             /\ \E s : /\ SegmentIs(ms, window, p.next, s) /\ q.next = s.end + 1
                       /\ \/ Collapses(ms, p.total, s) /\ Gave(p, q, s)
                          \/ ~Collapses(ms, p.total, s) /\ Stayed(ms, p, q, s)
  OBVIOUS
<1>1. PICK s : s = plan_trim_segments(ms, window, p.next)
  OBVIOUS
<1>2. /\ Len(ms) \in Nat /\ p.next \in 2..window /\ window \in Nat /\ window <= Len(ms)
      /\ p.total \in Int /\ p.out \in Talks
  BY TalksAre DEF Passes
<1>3. SegmentIs(ms, window, p.next, s)
  BY <1>1, <1>2, PlanIs
<1>4. s.start = p.next /\ s.end \in p.next..window /\ s.tokens \in Int
  <2>1. s.start = p.next /\ s.end \in p.next..window /\ s.tokens = Chars(ms, p.next, s.end) \div PerToken
    BY <1>3 DEF SegmentIs
  <2>2. p.next \in 1..Len(ms) + 1 /\ s.end \in p.next - 1 .. Len(ms)
    BY <1>2, <2>1
  <2>3. Chars(ms, p.next, s.end) \in Nat
    BY <2>2, CharsGrow
  <2> QED BY <2>1, <2>3, CurationConstants
<1>5. s.end + 1 \in 2..window + 1
  BY <1>2, <1>4
<1>6. q = IF Collapses(ms, p.total, s)
          THEN [next  |-> s.end + 1,
                total |-> p.total - s.tokens + MarkerSize \div PerToken,
                out   |-> Append(p.out, TrimMarker)]
          ELSE [p EXCEPT !.next = s.end + 1, !.out = @ \o SubSeq(ms, s.start, s.end)]
  BY <1>1, <1>2 DEF Choose
<1>7. CASE Collapses(ms, p.total, s)
  <2>1. q = [next  |-> s.end + 1, total |-> p.total - s.tokens + MarkerSize \div PerToken,
             out   |-> Append(p.out, TrimMarker)]
    BY <1>6, <1>7
  <2>2. p.total - s.tokens + MarkerSize \div PerToken \in Int
    BY <1>2, <1>4, CurationConstants
  <2>3. Append(p.out, TrimMarker) \in Talks
    BY <1>2, CurationConstants, AppendProperties DEF Talks
  <2>4. /\ q \in Passes(window) /\ q.next = s.end + 1 /\ q.out = Append(p.out, TrimMarker)
        /\ q.total = p.total - s.tokens + MarkerSize \div PerToken
    <3> HIDE DEF q
    <3> QED BY <1>5, <2>1, <2>2, <2>3 DEF Passes
  <2> QED BY <1>3, <1>7, <2>4 DEF Gave
<1>8. CASE ~Collapses(ms, p.total, s)
  <2>1. q = [p EXCEPT !.next = s.end + 1, !.out = @ \o SubSeq(ms, s.start, s.end)]
    BY <1>6, <1>8
  <2>2. PICK b : b = p.out \o SubSeq(ms, p.next, s.end)
    OBVIOUS
  <2>3. b \in Talks
    <3>1. p.next \in 1..Len(ms) + 1 /\ s.end \in p.next - 1 .. Len(ms)
      BY <1>2, <1>4
    <3> QED BY <1>2, <2>2, <3>1, JoinIs DEF Joined
  <2>4. q = [p EXCEPT !.next = s.end + 1, !.out = b]
    BY <1>4, <2>1, <2>2
  <2>5. q \in Passes(window) /\ q.next = s.end + 1 /\ q.out = b /\ q.total = p.total
    <3> HIDE DEF q
    <3> QED BY <1>5, <2>3, <2>4 DEF Passes
  <2> QED BY <1>3, <1>8, <2>2, <2>5 DEF Stayed
<1> QED BY <1>7, <1>8

\* The markers of trims are messages 2 to t.
MarkersTo(ms, t) ==
    t \in 1..Len(ms) /\ \A k \in 1..Len(ms) : ms[k].kind = "trimmed" <=> k \in 2..t

\* The last segment of the window, from k on, stays: it is not full, or its
\* results go on behind the window.
Last(ms, window, p, u) ==
    /\ p.next = window + 1
    /\ \E k \in 2..window : \E s :
          /\ SegmentIs(ms, window, k, s) /\ s.end = window /\ ms[k].kind # "trimmed"
          /\ s.complete => window < Len(ms) /\ ms[window + 1].kind = "result"
          /\ Len(p.out) = u + (window - k + 1)
          /\ \A l \in 1 .. window - k + 1 : p.out[u + l] = ms[k + l - 1]

\* Before p.next all is done: what was a marker is in its place, the markers are
\* in front, and a segment that stayed was the last one or none had to go.
Going(ms, t, window, p) ==
    /\ p \in Passes(window)
    /\ p.next <= window => ms[p.next].kind # "result"
    /\ \A r : Joined(r, p.out, ms, p.next, Len(ms)) => pairs_intact(r)
    /\ \A j \in 1..t : j < p.next => j <= Len(p.out) /\ p.out[j] = ms[j]
    /\ p.next <= t + 1 => Len(p.out) = p.next - 1
    /\ \E u : /\ MarkersTo(p.out, u)
              /\ p.total <= TrimTarget \/ u = Len(p.out) \/ Last(ms, window, p, u)

LEMMA FirstGoes ==
  ASSUME NEW ms \in Talks, NEW t, MarkersTo(ms, t), ms[1].kind = "text", pairs_intact(ms),
         NEW window \in 2..Len(ms), NEW p \in Passes(window), p.next = 2, p.out = <<ms[1]>>
  PROVE  Going(ms, t, window, p)
<1>1. /\ Len(ms) \in Nat /\ 2 <= Len(ms) /\ t \in 1..Len(ms) /\ window \in 2..Len(ms)
      /\ \A k \in 1..Len(ms) : ms[k].kind = "trimmed" <=> k \in 2..t
  BY TalksAre DEF MarkersTo
<1>2. Len(p.out) = 1 /\ p.out[1] = ms[1]
  OBVIOUS
<1>3. ms[2].kind # "result"
  <2>1. 2 \in 1..Len(ms)
    BY <1>1
  <2>2. ms[2].kind = "result" => Asks(ms[2 - 1])
    BY <2>1 DEF pairs_intact, Answers
  <2>3. ~Asks(ms[1])
    BY DEF Asks
  <2> QED BY <2>2, <2>3
<1>4. ASSUME NEW r, Joined(r, p.out, ms, p.next, Len(ms)) PROVE pairs_intact(r)
  <2>1. /\ r \in Talks /\ Len(r) = 1 + (Len(ms) - 2 + 1) /\ \A k \in 1..1 : r[k] = p.out[k]
        /\ \A k \in 1 .. Len(ms) - 2 + 1 : r[1 + k] = ms[2 + k - 1]
    BY <1>2, <1>4 DEF Joined
  <2>2. Len(r) = Len(ms)
    BY <1>1, <2>1
  <2>3. ASSUME NEW k \in 1..Len(ms) PROVE r[k] = ms[k]
    <3>1. CASE k = 1
      BY <1>2, <2>1, <3>1
    <3>2. CASE k # 1
      <4>1. k - 1 \in 1 .. Len(ms) - 2 + 1 /\ 1 + (k - 1) = k /\ 2 + (k - 1) - 1 = k
        BY <1>1, <3>2
      <4>2. r[1 + (k - 1)] = ms[2 + (k - 1) - 1]
        BY <2>1, <4>1
      <4> QED BY <4>1, <4>2
    <3> QED BY <3>1, <3>2
  <2>4. r = ms
    BY <2>1, <2>2, <2>3, SeqEqual DEF Talks
  <2> QED BY <2>4
<1>5. MarkersTo(p.out, 1)
  BY <1>2 DEF MarkersTo
<1>6. \A j \in 1..t : j < p.next => j <= Len(p.out) /\ p.out[j] = ms[j]
  BY <1>1, <1>2
<1> QED BY <1>2, <1>3, <1>4, <1>5, <1>6 DEF Going
LEMMA GoesOn ==
  ASSUME NEW ms \in Talks, NEW t, MarkersTo(ms, t), ms[1].kind = "text", pairs_intact(ms),
         NEW window \in 2..Len(ms), NEW p, Going(ms, t, window, p), p.next <= window
  PROVE  Going(ms, t, window, Choose(ms, window, p)) /\ Choose(ms, window, p).next > p.next
<1>1. PICK q : q = Choose(ms, window, p)
  OBVIOUS
<1>2. /\ p \in Passes(window) /\ ms[p.next].kind # "result"
      /\ \A r : Joined(r, p.out, ms, p.next, Len(ms)) => pairs_intact(r)
      /\ \A j \in 1..t : j < p.next => j <= Len(p.out) /\ p.out[j] = ms[j]
      /\ p.next <= t + 1 => Len(p.out) = p.next - 1
  BY DEF Going
<1>3. PICK u : /\ MarkersTo(p.out, u) /\ (p.total <= TrimTarget \/ u = Len(p.out))
  <2>1. p.next # window + 1
    BY <1>2 DEF Passes
  <2> QED BY <2>1 DEF Going, Last
<1>4. PICK s : /\ q \in Passes(window) /\ SegmentIs(ms, window, p.next, s) /\ q.next = s.end + 1
               /\ \/ Collapses(ms, p.total, s) /\ Gave(p, q, s)
                  \/ ~Collapses(ms, p.total, s) /\ Stayed(ms, p, q, s)
  BY <1>1, <1>2, ChooseIs
<1> DEFINE i == p.next
           e == s.end
           L == Len(p.out)
<1>5. /\ Len(ms) \in Nat /\ i \in Nat /\ 2 <= i /\ i <= window /\ window \in Nat /\ window <= Len(ms)
      /\ p.total \in Int /\ p.out \in Talks /\ q.out \in Talks /\ L \in Nat /\ L >= 1
      /\ e \in Nat /\ i <= e /\ e <= window /\ q.next = e + 1 /\ t \in Nat /\ 1 <= t /\ t <= Len(ms)
      /\ u \in Nat /\ 1 <= u /\ u <= L
  <2>1. p.next \in 2..window + 1 /\ p.total \in Int /\ p.out \in Talks /\ q.out \in Talks
    BY <1>2, <1>4 DEF Passes
  <2>2. s.end \in p.next..window /\ t \in 1..Len(ms) /\ u \in 1..Len(p.out)
    BY <1>3, <1>4 DEF SegmentIs, MarkersTo
  <2> QED BY <1>4, <2>1, <2>2, TalksAre, SMTT(30)
<1> HIDE DEF i, e, L
\* A full segment ends before what is not a result, or with the window.
<1>6. e < window => ms[e + 1].kind # "result"
  <2> SUFFICES ASSUME e < window PROVE ms[e + 1].kind # "result"
    OBVIOUS
  <2>1. CASE s.complete
    BY <1>4, <2>1 DEF SegmentIs, e
  <2>2. CASE ms[i].kind = "trimmed" /\ ~s.complete
    <3>1. e = i
      BY <1>4, <2>2 DEF SegmentIs, e, i
    <3>2. i + 1 \in 1..Len(ms) /\ (i + 1) - 1 = i /\ i \in 1..Len(ms)
      BY <1>5, <3>1
    <3>3. ms[i + 1].kind = "result" => Asks(ms[i])
      BY <3>2 DEF pairs_intact, Answers
    <3> QED BY <2>2, <3>1, <3>3 DEF Asks
  <2>3. CASE ms[i].kind # "trimmed" /\ ~s.complete
    <3>1. e = window
      BY <1>4, <2>3 DEF SegmentIs, e, i
    <3> QED BY <1>5, <3>1
  <2> QED BY <2>1, <2>2, <2>3
<1>7. q.next <= window => ms[q.next].kind # "result"
  BY <1>5, <1>6
\* All that is left, before the step.
<1>8. PICK r : r = p.out \o SubSeq(ms, i, Len(ms))
  OBVIOUS
<1>9. /\ r \in Talks /\ Len(r) = L + (Len(ms) - i + 1) /\ pairs_intact(r)
      /\ \A k \in 1..L : r[k] = p.out[k]
      /\ \A k \in 1 .. Len(ms) - i + 1 : r[L + k] = ms[i + k - 1]
  <2>1. i \in 1..Len(ms) + 1 /\ Len(ms) \in i - 1 .. Len(ms)
    BY <1>5
  <2>2. Joined(r, p.out, ms, i, Len(ms))
    BY <1>5, <1>8, <2>1, JoinIs
  <2> QED BY <1>2, <2>2 DEF Joined, L, i
<1>10. CASE Collapses(ms, p.total, s) /\ Gave(p, q, s)
  <2>1. /\ s.complete /\ ms[i].kind # "trimmed" /\ p.total > TrimTarget
        /\ e < Len(ms) => ms[e + 1].kind # "result"
    BY <1>4, <1>10 DEF Collapses, PairingUnsafe, SegmentIs, i, e
  <2>2. u = L /\ t < i
    <3>1. i \in 1..Len(ms) /\ ~(i \in 2..t)
      BY <1>5, <2>1 DEF MarkersTo
    <3> QED BY <1>3, <1>5, <2>1, <3>1, CurationConstants DEF L
  <2>3. /\ q.out \in Talks /\ Len(q.out) = L + 1 /\ q.out[L + 1] = TrimMarker
        /\ \A k \in 1..L : q.out[k] = p.out[k]
    BY <1>5, <1>10, CurationConstants, AppendProperties DEF Gave, Talks, L
  <2>4. ASSUME NEW c, Joined(c, q.out, ms, q.next, Len(ms)) PROVE pairs_intact(c)
    <3>1. /\ c \in Talks /\ Len(c) = (L + 1) + (Len(ms) - (e + 1) + 1)
          /\ \A k \in 1..L + 1 : c[k] = q.out[k]
          /\ \A k \in 1 .. Len(ms) - (e + 1) + 1 : c[(L + 1) + k] = ms[(e + 1) + k - 1]
      BY <1>5, <2>3, <2>4 DEF Joined
    <3> DEFINE d == e - i
               a == L + 1
    <3>2. /\ a \in 1..Len(r) /\ d \in 0..Len(r) - a /\ Len(c) = Len(r) - d
      BY <1>5, <1>9, <3>1
    <3>3. r[a] = ms[i]
      <4>1. 1 \in 1 .. Len(ms) - i + 1 /\ i + 1 - 1 = i
        BY <1>5
      <4> QED BY <1>9, <4>1
    <3>4. a + d < Len(r) => r[a + d + 1] = ms[e + 1] /\ e < Len(ms)
      <4> SUFFICES ASSUME a + d < Len(r) PROVE r[a + d + 1] = ms[e + 1] /\ e < Len(ms)
        OBVIOUS
      <4>1. e < Len(ms) /\ d + 2 \in 1 .. Len(ms) - i + 1 /\ L + (d + 2) = a + d + 1 /\ i + (d + 2) - 1 = e + 1
        BY <1>5, <1>9
      <4>2. r[L + (d + 2)] = ms[i + (d + 2) - 1]
        BY <1>9, <4>1
      <4> QED BY <4>1, <4>2
    <3>5. c[a] = TrimMarker /\ \A k \in 1..a - 1 : c[k] = r[k]
      <4>1. a \in 1..L + 1 /\ a = L + 1
        BY <1>5
      <4>2. ASSUME NEW k \in 1..a - 1 PROVE k \in 1..L /\ k \in 1..L + 1
        BY <1>5
      <4>3. c[a] = TrimMarker
        BY <2>3, <3>1, <4>1
      <4>4. ASSUME NEW k \in 1..a - 1 PROVE c[k] = r[k]
        <5>1. k \in 1..L /\ k \in 1..L + 1
          BY <4>2
        <5> QED BY <1>9, <2>3, <3>1, <5>1
      <4> QED BY <4>3, <4>4
    <3>6. ASSUME NEW k \in a + 1 .. Len(c) PROVE c[k] = r[k + d]
      <4>1. /\ k - a \in 1 .. Len(ms) - (e + 1) + 1 /\ (L + 1) + (k - a) = k
            /\ k + d - L \in 1 .. Len(ms) - i + 1 /\ L + (k + d - L) = k + d
            /\ (e + 1) + (k - a) - 1 = i + (k + d - L) - 1
        BY <1>5, <3>1
      <4>2. c[(L + 1) + (k - a)] = ms[(e + 1) + (k - a) - 1]
        BY <3>1, <4>1
      <4>3. r[L + (k + d - L)] = ms[i + (k + d - L) - 1]
        BY <1>9, <4>1
      <4> QED BY <4>1, <4>2, <4>3
    <3> HIDE DEF a, d
    <3>7. Given(c, r, a, d, TrimMarker)
      BY <3>2, <3>5, <3>6 DEF Given
    <3>8. r[a].kind # "result" /\ (a + d < Len(r) => r[a + d + 1].kind # "result")
      BY <1>2, <2>1, <3>3, <3>4 DEF i
    <3>9. TrimMarker.kind \notin {"asst", "result"}
      BY DEF TrimMarker, Sized
    <3> QED BY <1>9, <3>1, <3>2, <3>7, <3>8, <3>9, MarkerKeepsPairs
  <2>5. ASSUME NEW j \in 1..t, j < q.next PROVE j <= Len(q.out) /\ q.out[j] = ms[j]
    <3>1. j < p.next /\ j \in Nat /\ 1 <= j
      BY <1>5, <2>2 DEF i
    <3>2. j <= L /\ p.out[j] = ms[j]
      BY <1>2, <3>1 DEF L
    <3> QED BY <1>5, <2>3, <3>1, <3>2
  <2>6. ~(q.next <= t + 1)
    BY <1>5, <2>2
  <2>7. MarkersTo(q.out, L + 1)
    <3>1. ASSUME NEW k \in 1..Len(q.out) PROVE q.out[k].kind = "trimmed" <=> k \in 2..L + 1
      <4>1. CASE k = L + 1
        BY <1>5, <2>3, <4>1 DEF TrimMarker, Sized
      <4>2. CASE k # L + 1
        <5>1. k \in 1..L
          BY <1>5, <2>3, <4>2
        <5>2. p.out[k].kind = "trimmed" <=> k \in 2..L
          BY <1>3, <2>2, <5>1 DEF MarkersTo, L
        <5>3. k \in 2..L <=> k \in 2..L + 1
          BY <1>5, <5>1
        <5> QED BY <2>3, <5>1, <5>2, <5>3
      <4> QED BY <4>1, <4>2
    <3>2. L + 1 \in 1..Len(q.out)
      BY <1>5, <2>3
    <3> QED BY <3>1, <3>2 DEF MarkersTo
  <2> QED BY <1>1, <1>4, <1>5, <1>7, <2>3, <2>4, <2>5, <2>6, <2>7 DEF Going, i
<1>11. CASE ~Collapses(ms, p.total, s) /\ Stayed(ms, p, q, s)
  <2>1. /\ q.total = p.total /\ Len(q.out) = L + (e - i + 1)
        /\ \A k \in 1..L : q.out[k] = p.out[k]
        /\ \A k \in 1 .. e - i + 1 : q.out[L + k] = ms[i + k - 1]
    <3>1. i \in 1..Len(ms) + 1 /\ e \in i - 1 .. Len(ms)
      BY <1>5
    <3>2. Joined(p.out \o SubSeq(ms, i, e), p.out, ms, i, e)
      BY <1>5, <3>1, JoinIs
    <3> QED BY <1>11, <3>2 DEF Stayed, Joined, i, e, L
  <2>2. ASSUME NEW c, Joined(c, q.out, ms, q.next, Len(ms)) PROVE pairs_intact(c)
    <3>1. /\ c \in Talks /\ Len(c) = (L + (e - i + 1)) + (Len(ms) - (e + 1) + 1)
          /\ \A k \in 1 .. L + (e - i + 1) : c[k] = q.out[k]
          /\ \A k \in 1 .. Len(ms) - (e + 1) + 1 : c[(L + (e - i + 1)) + k] = ms[(e + 1) + k - 1]
      BY <1>5, <2>1, <2>2 DEF Joined
    <3>2. Len(c) = Len(r)
      BY <1>5, <1>9, <3>1, SMTT(30)
    <3>3. ASSUME NEW k \in 1..Len(r) PROVE c[k] = r[k]
      <4>0. k \in Nat /\ 1 <= k /\ k <= L + (Len(ms) - i + 1)
        BY <1>5, <1>9
      <4>1. CASE k <= L
        <5>1. k \in 1..L /\ k \in 1 .. L + (e - i + 1)
          BY <1>5, <4>1
        <5> QED BY <1>9, <2>1, <3>1, <5>1
      <4>2. CASE k > L /\ k <= L + (e - i + 1)
        <5>3. L \in Nat /\ e \in Nat /\ i \in Nat /\ Len(ms) \in Nat /\ e <= Len(ms)
          BY <1>5
        <5>1. /\ k - L \in 1 .. e - i + 1 /\ k - L \in 1 .. Len(ms) - i + 1 /\ L + (k - L) = k
              /\ k \in 1 .. L + (e - i + 1)
          BY <4>0, <4>2, <5>3
        <5>2. q.out[L + (k - L)] = ms[i + (k - L) - 1] /\ r[L + (k - L)] = ms[i + (k - L) - 1]
          BY <1>9, <2>1, <5>1
        <5> QED BY <3>1, <5>1, <5>2
      <4>3. CASE k > L + (e - i + 1)
        <5> DEFINE l == k - (L + (e - i + 1))
        <5>1. /\ l \in 1 .. Len(ms) - (e + 1) + 1 /\ (L + (e - i + 1)) + l = k
              /\ k - L \in 1 .. Len(ms) - i + 1 /\ L + (k - L) = k
              /\ i + (k - L) - 1 = (e + 1) + l - 1
          BY <1>5, <4>0, <4>3
        <5>2. c[(L + (e - i + 1)) + l] = ms[(e + 1) + l - 1]
          <6> HIDE DEF l
          <6> QED BY <3>1, <5>1
        <5>3. r[L + (k - L)] = ms[i + (k - L) - 1]
          BY <1>9, <5>1
        <5> HIDE DEF l
        <5> QED BY <5>1, <5>2, <5>3
      <4> QED BY <1>5, <4>0, <4>1, <4>2, <4>3
    <3>4. c = r
      BY <1>9, <3>1, <3>2, <3>3, SeqEqual DEF Talks
    <3> QED BY <1>9, <3>4
  <2>3. CASE ms[i].kind = "trimmed"
    <3>1. i \in 2..t /\ e = i
      <4>1. i \in 1..Len(ms)
        BY <1>5
      <4>2. i \in 2..t
        BY <2>3, <4>1 DEF MarkersTo
      <4> QED BY <1>4, <2>3, <4>2 DEF SegmentIs, i, e
    <3>2. L = i - 1 /\ \A j \in 1..i - 1 : q.out[j] = ms[j]
      <4>1. L = i - 1
        BY <1>2, <1>5, <3>1 DEF i, L
      <4>2. ASSUME NEW j \in 1..i - 1 PROVE q.out[j] = ms[j]
        <5>1. j \in 1..t /\ j < p.next /\ j \in 1..L
          BY <1>5, <3>1, <4>1, SMTT(30) DEF i
        <5> QED BY <1>2, <2>1, <5>1
      <4> QED BY <4>1, <4>2
    <3>3. q.out[i] = ms[i] /\ Len(q.out) = i
      <4>1. 1 \in 1 .. e - i + 1 /\ L + 1 = i /\ i + 1 - 1 = i
        BY <1>5, <3>1, <3>2
      <4>2. q.out[L + 1] = ms[i + 1 - 1]
        BY <2>1, <4>1
      <4>3. L + (e - i + 1) = i
        BY <1>5, <3>1, <3>2
      <4> QED BY <2>1, <4>1, <4>2, <4>3
    <3>4. \A j \in 1..i : q.out[j] = ms[j]
      <4> TAKE j \in 1..i
      <4>1. j = i \/ j \in 1..i - 1
        BY <1>5
      <4> QED BY <3>2, <3>3, <4>1
    <3>5. MarkersTo(q.out, i)
      <4>1. ASSUME NEW k \in 1..i PROVE q.out[k].kind = "trimmed" <=> k \in 2..i
        <5>1. k \in 1..Len(ms) /\ (k \in 2..t <=> k \in 2..i)
          BY <1>5, <3>1
        <5>2. ms[k].kind = "trimmed" <=> k \in 2..t
          BY <5>1 DEF MarkersTo
        <5> QED BY <3>4, <5>1, <5>2
      <4> QED BY <1>5, <3>3, <4>1 DEF MarkersTo
    <3>6. ASSUME NEW j \in 1..t, j < q.next PROVE j <= Len(q.out) /\ q.out[j] = ms[j]
      <4>1. j \in 1..i
        BY <1>5, <3>1, <3>6
      <4> QED BY <3>3, <3>4, <4>1
    <3>7. Len(q.out) = q.next - 1
      BY <1>5, <3>1, <3>3
    <3> QED BY <1>1, <1>4, <1>5, <1>7, <2>2, <3>1, <3>3, <3>5, <3>6, <3>7 DEF Going, i
  <2>4. CASE ms[i].kind # "trimmed"
    <3>1. t < i
      <4>1. i \in 1..Len(ms) /\ ~(i \in 2..t)
        BY <1>5, <2>4 DEF MarkersTo
      <4> QED BY <1>5, <4>1
    <3>2. p.total <= TrimTarget \/ e = window
      <4> SUFFICES ASSUME ~(p.total <= TrimTarget) PROVE e = window
        OBVIOUS
      <4>0. p.total > TrimTarget
        BY <1>5, CurationConstants
      <4>1. CASE s.complete
        <5>1. PairingUnsafe(ms, s)
          BY <1>11, <4>0, <4>1 DEF Collapses
        <5>2. s.start = i /\ ms[i].kind # "result"
          BY <1>2, <1>4 DEF SegmentIs, i
        <5>3. ms[e + 1].kind = "result"
          BY <5>1, <5>2 DEF PairingUnsafe, e
        <5> QED BY <1>5, <1>6, <5>3
      <4>2. CASE ~s.complete
        BY <1>4, <2>4, <4>2 DEF SegmentIs, e, i
      <4> QED BY <4>1, <4>2
    <3>3. ASSUME NEW j \in 1..t, j < q.next PROVE j <= Len(q.out) /\ q.out[j] = ms[j]
      <4>1. j < p.next /\ j \in Nat /\ 1 <= j
        BY <1>5, <3>1 DEF i
      <4>2. j <= L /\ p.out[j] = ms[j]
        BY <1>2, <4>1 DEF L
      <4> QED BY <1>5, <2>1, <4>1, <4>2
    <3>4. MarkersTo(q.out, u)
      <4>1. ASSUME NEW k \in 1..Len(q.out) PROVE q.out[k].kind = "trimmed" <=> k \in 2..u
        <5>1. CASE k <= L
          <6>1. k \in 1..L
            BY <5>1
          <6> QED BY <1>3, <2>1, <6>1 DEF MarkersTo, L
        <5>2. CASE k > L
          <6>1. /\ k - L \in 1 .. e - i + 1 /\ L + (k - L) = k /\ ~(k \in 2..u)
                /\ i + (k - L) - 1 \in 1..Len(ms) /\ ~(i + (k - L) - 1 \in 2..t)
            BY <1>5, <2>1, <3>1, <5>2
          <6>2. q.out[L + (k - L)] = ms[i + (k - L) - 1]
            BY <2>1, <6>1
          <6>3. ms[i + (k - L) - 1].kind # "trimmed"
            BY <6>1 DEF MarkersTo
          <6> QED BY <6>1, <6>2, <6>3
        <5>3. k \in Nat
          OBVIOUS
        <5> QED BY <1>5, <5>1, <5>2, <5>3
      <4>2. u \in 1..Len(q.out)
        BY <1>5, <2>1
      <4> QED BY <4>1, <4>2 DEF MarkersTo
    <3>5. q.total <= TrimTarget \/ Last(ms, window, q, u)
      <4> SUFFICES ASSUME ~(q.total <= TrimTarget) PROVE Last(ms, window, q, u)
        OBVIOUS
      <4>1. e = window /\ ~(p.total <= TrimTarget)
        BY <2>1, <3>2
      <4>2. u = L
        BY <1>3, <4>1 DEF L
      <4>3. s.complete => window < Len(ms) /\ ms[window + 1].kind = "result"
        <5> SUFFICES ASSUME s.complete PROVE window < Len(ms) /\ ms[window + 1].kind = "result"
          OBVIOUS
        <5>0. p.total > TrimTarget
          BY <1>5, <4>1, CurationConstants
        <5>1. PairingUnsafe(ms, s)
          BY <1>11, <5>0 DEF Collapses
        <5>2. s.start = i /\ ms[i].kind # "result"
          BY <1>2, <1>4 DEF SegmentIs, i
        <5> QED BY <4>1, <5>1, <5>2 DEF PairingUnsafe, e
      <4>4. Len(q.out) = u + (window - i + 1) /\ \A l \in 1 .. window - i + 1 : q.out[u + l] = ms[i + l - 1]
        BY <2>1, <4>1, <4>2
      <4>5. SegmentIs(ms, window, i, s) /\ s.end = window /\ ms[i].kind # "trimmed" /\ i \in 2..window
        BY <1>4, <1>5, <2>4, <4>1 DEF e, i
      <4>6. q.next = window + 1
        BY <1>5, <4>1
      <4> QED BY <4>3, <4>4, <4>5, <4>6 DEF Last
    <3>6. ~(q.next <= t + 1)
      BY <1>5, <3>1
    <3> QED BY <1>1, <1>4, <1>5, <1>7, <2>2, <3>3, <3>4, <3>5, <3>6 DEF Going, i
  <2> QED BY <2>3, <2>4
<1> QED BY <1>4, <1>10, <1>11
\* What is left is not more than the pass counts, which rounds a segment, and a
\* marker, down to tokens.
Slack(p) == PerToken - 1 + Len(p.out) * (MarkerSize % PerToken)

Weighs(ms, p) ==
    /\ All(p.out) + Chars(ms, p.next, Len(ms)) <= PerToken * p.total + Slack(p)
    /\ Len(p.out) < p.next

LEMMA Divides ==
  ASSUME NEW a \in Nat, NEW b \in Nat \ {0}
  PROVE  /\ a \div b \in Nat /\ a % b \in Nat /\ a % b < b
         /\ a = b * (a \div b) + (a % b)
OBVIOUS

\* Times is multiplication, out of the solver's sight.
Times(b, q) == b * q

LEMMA Rounds ==
  ASSUME NEW a \in Nat, NEW b \in Nat \ {0}
  PROVE  /\ a \div b \in Nat /\ a % b \in Nat /\ a % b < b /\ Times(b, a \div b) \in Nat
         /\ a = Times(b, a \div b) + (a % b)
<1>1. /\ a \div b \in Nat /\ a % b \in Nat /\ a % b < b
      /\ a = b * (a \div b) + (a % b)
  BY Divides
<1>2. b * (a \div b) \in Nat
  <2>1. PICK q \in Nat : q = a \div b
    BY <1>1
  <2>2. b * q \in Nat
    OBVIOUS
  <2> QED BY <2>1, <2>2
<1> QED BY <1>1, <1>2 DEF Times

LEMMA FirstWeighs ==
  ASSUME NEW ms \in Talks, Len(ms) >= 2, NEW p, p.next = 2, p.out = <<ms[1]>>,
         p.total = estimate_tokens(ms)
  PROVE  Weighs(ms, p)
<1>1. PICK i : i = 1
  OBVIOUS
<1>2. PICK x : x = <<ms[i]>>
  OBVIOUS
<1>3. /\ x \in Talks /\ Len(x) = i /\ x[i] = ms[i] /\ p.out = x
      /\ i \in Nat /\ Len(ms) \in Nat /\ Len(ms) - i \in Nat /\ i + (Len(ms) - i) = Len(ms)
  BY <1>1, <1>2, TalksAre DEF Talks
<1>4. All(ms) = All(x) + Chars(ms, i + 1, Len(ms)) /\ All(ms) \in Nat
  <2>1. PICK n : n = Len(ms) - i
    OBVIOUS
  <2>2. n \in Nat /\ i + n = Len(ms) /\ Extends(ms, x, ms, i, n)
    <3>1. n \in Nat /\ i + n = Len(ms) /\ Len(ms) = Len(x) + n
      BY <1>3, <2>1
    <3>2. \A k \in 1..Len(x) : ms[k] = x[k]
      BY <1>1, <1>3
    <3>3. \A k \in 1..n : ms[Len(x) + k] = ms[i + k]
      BY <1>3
    <3> QED BY <3>1, <3>2, <3>3 DEF Extends
  <2>3. /\ All(ms) = All(x) + Chars(ms, i + 1, i + n)
        /\ All(x) \in Nat /\ Chars(ms, i + 1, i + n) \in Nat
    BY <1>3, <2>2, AllOfJoin
  <2> QED BY <2>2, <2>3
<1>5. p.next = i + 1
  BY <1>1
<1>6. p.total = All(ms) \div PerToken
  BY DEF estimate_tokens, All
<1>7. PICK a \in Nat : a = All(ms)
  BY <1>4
<1>8. PICK b \in Nat \ {0} : b = PerToken
  BY CurationConstants
<1>9. All(ms) <= PerToken * p.total + Slack(p)
  <2>1. PICK r \in Nat : r = a % b
    BY Rounds
  <2>2. PICK y : y = Times(b, a \div b)
    OBVIOUS
  <2>3. y \in Nat /\ r < b /\ a = y + r
    BY <2>1, <2>2, Rounds
  <2>4. PICK M \in Nat : M = MarkerSize % b
    <3>1. MarkerSize \in Nat
      BY CurationConstants
    <3> QED BY <3>1, Rounds
  <2>5. PICK z : z = Times(i, M)
    OBVIOUS
  <2>6. z \in Nat
    BY <1>3, <2>5 DEF Times
  <2>7. Slack(p) = b - 1 + z
    BY <1>3, <1>8, <2>4, <2>5 DEF Slack, Times
  <2>8. PerToken * p.total = y
    BY <1>6, <1>7, <1>8, <2>2 DEF Times
  <2>9. a <= y + (b - 1 + z)
    BY <2>3, <2>6
  <2> QED BY <1>7, <2>7, <2>8, <2>9
<1>10. Len(p.out) < p.next
  BY <1>3, <1>5
<1> QED BY <1>3, <1>4, <1>5, <1>9, <1>10 DEF Weighs

LEMMA WeighsOn ==
  ASSUME NEW ms \in Talks, NEW window \in 2..Len(ms), NEW p \in Passes(window), p.next <= window,
         Weighs(ms, p)
  PROVE  Weighs(ms, Choose(ms, window, p))
<1>1. PICK q : q = Choose(ms, window, p)
  OBVIOUS
<1>2. PICK s : /\ q \in Passes(window) /\ SegmentIs(ms, window, p.next, s) /\ q.next = s.end + 1
               /\ Gave(p, q, s) \/ Stayed(ms, p, q, s)
  BY <1>1, ChooseIs
<1>3. PICK M : M = MarkerSize % PerToken
  OBVIOUS
<1>4. PICK c : c = Chars(ms, p.next, s.end)
  OBVIOUS
<1>5. /\ p.next \in Nat /\ 2 <= p.next /\ s.end \in Nat /\ p.next <= s.end /\ s.end <= Len(ms)
      /\ p.total \in Int /\ q.total \in Int /\ Len(p.out) \in Nat /\ Len(q.out) \in Nat
      /\ p.out \in Talks /\ q.out \in Talks /\ Len(ms) \in Nat
  <2>1. p.next \in 2..window + 1 /\ p.total \in Int /\ p.out \in Talks /\ q.out \in Talks /\ q.total \in Int
    BY <1>2 DEF Passes
  <2>2. s.end \in p.next..window /\ Len(ms) \in Nat
    BY <1>2, TalksAre DEF SegmentIs
  <2> QED BY <2>1, <2>2, TalksAre
<1>6. PICK rest : rest = Chars(ms, s.end + 1, Len(ms))
  OBVIOUS
<1>7. Chars(ms, p.next, Len(ms)) = c + rest /\ c \in Nat /\ rest \in Nat
  <2>1. /\ p.next \in 1..Len(ms) + 1 /\ s.end \in p.next - 1 .. Len(ms) /\ Len(ms) \in s.end .. Len(ms)
        /\ s.end + 1 \in 1..Len(ms) + 1 /\ Len(ms) \in (s.end + 1) - 1 .. Len(ms)
    BY <1>5
  <2>2. c \in Nat /\ Chars(ms, p.next, Len(ms)) = c + rest
    BY <1>4, <1>6, <2>1, CharsGrow
  <2>3. rest \in Nat
    BY <1>6, <2>1, CharsGrow
  <2> QED BY <2>2, <2>3
<1>8. M \in Nat /\ MarkerSize = PerToken * (MarkerSize \div PerToken) + M /\ MarkerSize \div PerToken \in Nat
  BY <1>3, CurationConstants, Divides
<1>9. All(p.out) + (c + rest) <= PerToken * p.total + (PerToken - 1 + Len(p.out) * M)
  BY <1>3, <1>7 DEF Weighs, Slack
<1>10. ASSUME All(q.out) + rest <= PerToken * q.total + (PerToken - 1 + Len(q.out) * M),
              Len(q.out) < q.next
       PROVE  Weighs(ms, q)
  BY <1>2, <1>3, <1>6, <1>10 DEF Weighs, Slack
<1>13. Len(p.out) < p.next
  BY DEF Weighs
<1>11. CASE Gave(p, q, s)
  <2>1. PICK w : w = c \div PerToken
    OBVIOUS
  <2>2. s.tokens = w /\ w \in Nat /\ PerToken * w <= c
    <3>1. s.tokens = w
      BY <1>2, <1>4, <2>1 DEF SegmentIs
    <3>2. PICK b \in Nat \ {0} : b = PerToken
      BY CurationConstants
    <3>3. PICK r : r = c % b
      OBVIOUS
    <3>4. PICK y : y = Times(b, c \div b)
      OBVIOUS
    <3>5. c \div b \in Nat /\ r \in Nat /\ y \in Nat /\ c = y + r
      BY <1>7, <3>3, <3>4, Rounds
    <3>6. w \in Nat
      BY <2>1, <3>2, <3>5
    <3>7. PerToken * w = y
      BY <2>1, <3>2, <3>4 DEF Times
    <3>8. y <= c
      BY <3>5
    <3> QED BY <3>1, <3>6, <3>7, <3>8
  <2>3. PICK d : d = MarkerSize \div PerToken
    OBVIOUS
  <2>4. q.total = p.total - w + d /\ d \in Nat /\ MarkerSize = PerToken * d + M
    BY <1>8, <1>11, <2>2, <2>3 DEF Gave
  <2>5. Len(q.out) = Len(p.out) + 1 /\ All(q.out) = All(p.out) + MarkerSize /\ All(p.out) \in Nat
    <3>1. /\ Len(q.out) = Len(p.out) + 1 /\ q.out[Len(p.out) + 1] = TrimMarker
          /\ \A k \in 1..Len(p.out) : q.out[k] = p.out[k]
      BY <1>5, <1>11, CurationConstants, AppendProperties DEF Gave, Talks
    <3>2. PICK o : o = 0
      OBVIOUS
    <3>3. PICK n : n = 1
      OBVIOUS
    <3>4. PICK m : m = <<TrimMarker>>
      OBVIOUS
    <3>5. /\ m \in Talks /\ Len(m) = 1 /\ m[1] = TrimMarker
      BY <3>4, CurationConstants DEF Talks
    <3>6. o \in Nat /\ n \in Nat /\ Extends(q.out, p.out, m, o, n)
      <4>1. ASSUME NEW k \in 1..n PROVE q.out[Len(p.out) + k] = m[o + k]
        <5>1. k = 1 /\ o + k = 1
          BY <3>2, <3>3
        <5> QED BY <3>1, <3>5, <5>1
      <4>2. o + n <= Len(m) /\ Len(q.out) = Len(p.out) + n
        BY <3>1, <3>2, <3>3, <3>5
      <4> QED BY <3>1, <3>2, <3>3, <4>1, <4>2 DEF Extends
    <3>7. /\ All(q.out) = All(p.out) + Chars(m, o + 1, o + n)
          /\ All(p.out) \in Nat
      BY <1>5, <3>5, <3>6, AllOfJoin, SMTT(30)
    <3>8. Chars(m, o + 1, o + n) = MarkerSize
      <4>1. o + 1 \in 1..Len(m) + 1 /\ o + n \in (o + 1) - 1 .. Len(m) /\ (o + n) - 1 = (o + 1) - 1 /\ o + n = 1
        BY <3>2, <3>3, <3>5
      <4>2. o + 1 <= o + n /\ (o + 1) - 1 \in (o + 1) - 1 .. Len(m)
        BY <3>2, <3>3, <3>5
      <4>3. Chars(m, o + 1, o + n) = Chars(m, o + 1, (o + n) - 1) + m[o + n].size
        BY <3>5, <4>1, <4>2, CharsGrow
      <4>4. Chars(m, o + 1, (o + 1) - 1) = 0
        BY <3>5, <4>1, CharsGrow
      <4>5. m[o + n].size = MarkerSize
        BY <3>5, <4>1 DEF TrimMarker, Sized
      <4>6. Chars(m, o + 1, o + n) = 0 + MarkerSize
        BY <4>1, <4>3, <4>4, <4>5
      <4> QED BY <4>6, CurationConstants
    <3> QED BY <3>1, <3>7, <3>8
  <2>6. All(q.out) + rest <= PerToken * q.total + (PerToken - 1 + Len(q.out) * M)
    <3>1. PICK P : P = PerToken
      OBVIOUS
    <3>2. PICK T : T = p.total
      OBVIOUS
    <3>3. PICK L : L = Len(p.out)
      OBVIOUS
    <3>4. PICK A : A = All(p.out)
      OBVIOUS
    <3>5. /\ P \in Nat /\ T \in Int /\ L \in Nat /\ A \in Nat /\ w \in Nat /\ d \in Nat /\ M \in Nat
          /\ c \in Nat /\ rest \in Nat
      BY <1>5, <1>7, <1>8, <2>2, <2>4, <2>5, <3>1, <3>2, <3>3, <3>4, CurationConstants
    <3>6. A + (c + rest) <= P * T + (P - 1 + L * M) /\ P * w <= c
      BY <1>9, <2>2, <3>1, <3>2, <3>3, <3>4
    <3>7. P * (T - w + d) = P * T - P * w + P * d /\ (L + 1) * M = L * M + M
      BY <3>5
    <3>8. P * T \in Int /\ P * w \in Int /\ P * d \in Int /\ L * M \in Int
      BY <3>5
    <3>9. (A + (P * d + M)) + rest <= (P * T - P * w + P * d) + (P - 1 + (L * M + M))
      <4>1. PICK a1, a2, a3, a4 : a1 = P * T /\ a2 = P * w /\ a3 = P * d /\ a4 = L * M
        OBVIOUS
      <4> QED BY <3>5, <3>6, <3>8, <4>1
    <3>10. (A + (P * d + M)) + rest <= P * (T - w + d) + (P - 1 + (L + 1) * M)
      BY <3>7, <3>9
    <3> QED BY <2>4, <2>5, <3>1, <3>2, <3>3, <3>4, <3>10
  <2>7. Len(q.out) < q.next
    BY <1>2, <1>5, <1>13, <2>5
  <2> QED BY <1>1, <1>10, <2>6, <2>7
<1>12. CASE Stayed(ms, p, q, s)
  <2>1. PICK i : i = p.next - 1
    OBVIOUS
  <2>2. PICK n : n = s.end - i
    OBVIOUS
  <2>3. i \in Nat /\ n \in Nat /\ i + 1 = p.next /\ i + n = s.end /\ i + n <= Len(ms) /\ n >= 1
    <3>1. PICK a, b : a = p.next /\ b = s.end
      OBVIOUS
    <3>2. a \in Nat /\ b \in Nat /\ 2 <= a /\ a <= b /\ b <= Len(ms) /\ i = a - 1 /\ n = b - i
      BY <1>5, <2>1, <2>2, <3>1
    <3>3. i \in Nat /\ n \in Nat /\ i + 1 = a /\ i + n = b /\ n >= 1
      BY <3>2
    <3> QED BY <3>1, <3>2, <3>3
  <2>4. /\ Len(q.out) = Len(p.out) + n /\ \A k \in 1..Len(p.out) : q.out[k] = p.out[k]
        /\ \A k \in 1..n : q.out[Len(p.out) + k] = ms[i + k]
    <3>1. p.next \in 1..Len(ms) + 1 /\ s.end \in p.next - 1 .. Len(ms)
      BY <1>5
    <3>2. Joined(q.out, p.out, ms, p.next, s.end)
      BY <1>5, <1>12, <3>1, JoinIs DEF Stayed
    <3>3. /\ Len(q.out) = Len(p.out) + (s.end - p.next + 1)
          /\ \A k \in 1..Len(p.out) : q.out[k] = p.out[k]
          /\ \A k \in 1 .. s.end - p.next + 1 : q.out[Len(p.out) + k] = ms[p.next + k - 1]
      BY <3>2 DEF Joined
    <3>4. s.end - p.next + 1 = n
      BY <1>5, <2>3
    <3>5. ASSUME NEW k \in 1..n PROVE q.out[Len(p.out) + k] = ms[i + k]
      <4>1. k \in 1 .. s.end - p.next + 1 /\ p.next + k - 1 = i + k
        BY <2>3, <3>4
      <4> QED BY <3>3, <4>1
    <3> QED BY <3>3, <3>4, <3>5
  <2>5. All(q.out) = All(p.out) + c /\ All(p.out) \in Nat
    <3>0. Extends(q.out, p.out, ms, i, n)
      BY <2>3, <2>4 DEF Extends
    <3>1. All(q.out) = All(p.out) + Chars(ms, i + 1, i + n) /\ All(p.out) \in Nat
      BY <1>5, <2>3, <3>0, AllOfJoin
    <3> QED BY <1>4, <2>3, <3>1
  <2>6. q.total = p.total
    BY <1>12 DEF Stayed
  <2>7. Len(p.out) * M <= Len(q.out) * M /\ Len(p.out) * M \in Int /\ Len(q.out) * M \in Int
    <3>1. Len(q.out) * M = Len(p.out) * M + n * M /\ n * M >= 0
      <4>1. PICK l \in Nat : l = Len(p.out)
        BY <1>5
      <4>2. M \in Nat /\ n \in Nat
        BY <1>8, <2>3
      <4>3. (l + n) * M = l * M + n * M /\ n * M >= 0
        BY <4>2
      <4> QED BY <2>4, <4>1, <4>3
    <3>4. \A a, b \in Nat : a * b \in Nat
      OBVIOUS
    <3>5. Len(p.out) \in Nat /\ Len(q.out) \in Nat /\ n \in Nat /\ M \in Nat
      BY <1>5, <1>8, <2>3
    <3>2. Len(p.out) * M \in Nat /\ Len(q.out) * M \in Nat /\ n * M \in Nat
      BY <3>4, <3>5
    <3>3. PICK a1, a2, a3 : a1 = Len(p.out) * M /\ a2 = n * M /\ a3 = Len(q.out) * M
      OBVIOUS
    <3>6. a1 \in Nat /\ a2 \in Nat /\ a3 \in Nat /\ a3 = a1 + a2
      BY <3>1, <3>2, <3>3
    <3>7. a1 <= a3 /\ a1 \in Int /\ a3 \in Int
      BY <3>6
    <3> QED BY <3>3, <3>7
  <2>8. All(q.out) + rest <= PerToken * q.total + (PerToken - 1 + Len(q.out) * M)
    <3>1. PICK a1, a2, a3 : a1 = Len(p.out) * M /\ a2 = Len(q.out) * M /\ a3 = PerToken * p.total
      OBVIOUS
    <3>2. a1 <= a2 /\ a1 \in Int /\ a2 \in Int /\ a3 \in Int
      BY <1>5, <2>7, <3>1, CurationConstants
    <3>3. All(p.out) + (c + rest) <= a3 + (PerToken - 1 + a1)
      BY <1>9, <3>1
    <3>4. (All(p.out) + c) + rest <= a3 + (PerToken - 1 + a2)
      BY <1>7, <2>5, <3>2, <3>3, CurationConstants
    <3> QED BY <2>5, <2>6, <3>1, <3>4
  <2>9. Len(q.out) < q.next
    BY <1>2, <1>5, <1>13, <2>3, <2>4
  <2> QED BY <1>1, <1>10, <2>8, <2>9
<1> QED BY <1>2, <1>11, <1>12

-----------------------------------------------------------------------------
(* The pass as a whole.                                                    *)

\* A conversation as the loop keeps it, with the markers of trims up to t; and
\* one that has the same messages up to t.
Kept(ms, t)      == ms \in Talks /\ MarkersTo(ms, t) /\ ms[1].kind = "text" /\ pairs_intact(ms)
Agrees(new, ms, t) == \A j \in 1..t : j <= Len(new) /\ new[j] = ms[j]

\* P is the pass, step by step.
Passed(P, ms, window, t) ==
    /\ P[0].next = 2 /\ P[0].out = <<ms[1]>>
    /\ \A n \in 1..window : P[n] = Choose(ms, window, P[n - 1])
    /\ \A n \in 0..window : /\ Going(ms, t, window, P[n]) /\ Weighs(ms, P[n])
                            /\ P[n].next > window \/ P[n].next >= n + 2
    /\ transcript_trim(ms) = IF estimate_tokens(ms) <= TrimAbove \/ window <= 1 THEN ms
                             ELSE P[window].out \o SubSeq(ms, window + 1, Len(ms))

LEMMA TokensAre ==
  ASSUME NEW ms \in Talks PROVE estimate_tokens(ms) \in Nat
<1>1. PICK i : i = 1
  OBVIOUS
<1>2. i \in 1..Len(ms) + 1 /\ Len(ms) \in i - 1 .. Len(ms)
  BY <1>1, TalksAre
<1>3. Chars(ms, i, Len(ms)) \in Nat
  BY <1>2, CharsGrow
<1> QED BY <1>1, <1>3, CurationConstants DEF estimate_tokens

LEMMA PassIs ==
  ASSUME NEW ms, NEW t, Kept(ms, t), NEW window \in 2..Len(ms), window = Len(ms) - KeepLast
  PROVE  \E P : Passed(P, ms, window, t)
<1>0. /\ ms \in Talks /\ MarkersTo(ms, t) /\ ms[1].kind = "text" /\ pairs_intact(ms)
      /\ Len(ms) \in Nat /\ window \in Nat /\ 2 <= window
  BY TalksAre DEF Kept
<1>1. PICK first : first = [next |-> 2, total |-> estimate_tokens(ms), out |-> <<ms[1]>>]
  OBVIOUS
<1>2. /\ first \in Passes(window) /\ first.next = 2 /\ first.out = <<ms[1]>>
  <2>1. ms[1] \in SizedMsgs /\ 2 \in 2..window + 1 /\ estimate_tokens(ms) \in Int
    BY <1>0, TalksAre, TokensAre
  <2>2. <<ms[1]>> \in Talks
    BY <2>1 DEF Talks
  <2> QED BY <1>1, <2>1, <2>2 DEF Passes
<1>3. PICK G : G = [n \in 1..window |-> [p \in Passes(window) |-> Choose(ms, window, p)]]
  OBVIOUS
<1>4. ASSUME NEW p \in Passes(window) PROVE Choose(ms, window, p) \in Passes(window)
  <2>1. CASE p.next <= window
    BY <1>0, <2>1, ChooseIs
  <2>2. CASE p.next > window
    BY <2>2 DEF Choose
  <2> QED BY <1>0, <2>1, <2>2 DEF Passes
<1>5. Stays(G, window, Passes(window))
  BY <1>3, <1>4 DEF Stays
<1>6. PICK F : Iterated(F, G, window, Passes(window), first)
  BY <1>0, <1>2, <1>5, Iterates
<1>7. /\ F \in [0..window -> Passes(window)] /\ F[0] = first
      /\ \A n \in 1..window : F[n] = Choose(ms, window, F[n - 1])
  <2>1. F \in [0..window -> Passes(window)] /\ F[0] = first /\ \A n \in 1..window : F[n] = G[n][F[n - 1]]
    BY <1>6 DEF Iterated
  <2>2. ASSUME NEW n \in 1..window PROVE F[n] = Choose(ms, window, F[n - 1])
    <3>1. n - 1 \in 0..window
      BY <1>0
    <3>2. F[n - 1] \in Passes(window)
      BY <2>1, <3>1
    <3> QED BY <1>3, <2>1, <3>2
  <2> QED BY <2>1, <2>2
<1> DEFINE Pass[n \in 0..window] == IF n = 0 THEN first ELSE Choose(ms, window, Pass[n - 1])
<1>8. F = [n \in 0..window |-> IF n = 0 THEN first ELSE Choose(ms, window, F[n - 1])]
  <2>1. F = [n \in 0..window |-> F[n]]
    BY <1>7
  <2>2. ASSUME NEW n \in 0..window PROVE F[n] = IF n = 0 THEN first ELSE Choose(ms, window, F[n - 1])
    <3>1. CASE n = 0
      BY <1>7, <3>1
    <3>2. CASE n # 0
      <4>1. n \in 1..window
        BY <1>0, <3>2
      <4> QED BY <1>7, <3>2, <4>1
    <3> QED BY <3>1, <3>2
  <2> QED BY <2>1, <2>2
<1>9. Pass = [n \in 0..window |-> IF n = 0 THEN first ELSE Choose(ms, window, Pass[n - 1])]
  BY <1>8
<1>10. transcript_trim(ms) = IF estimate_tokens(ms) <= TrimAbove \/ window <= 1 THEN ms
                             ELSE Pass[window].out \o SubSeq(ms, window + 1, Len(ms))
  BY <1>1 DEF transcript_trim
<1> HIDE DEF Pass
<1> DEFINE Good(n) == /\ Going(ms, t, window, Pass[n]) /\ Weighs(ms, Pass[n])
                      /\ Pass[n].next > window \/ Pass[n].next >= n + 2
           X == {n \in 0..window : Good(n)}
<1>11. 0 \in X
  <2>0. 0 \in 0..window
    BY <1>0
  <2>1. Pass[0] = first
    BY <1>9, <2>0
  <2>2. Going(ms, t, window, first)
    BY <1>0, <1>2, FirstGoes
  <2>4. Weighs(ms, first)
    <3>1. Len(ms) >= 2 /\ first.total = estimate_tokens(ms)
      BY <1>0, <1>1
    <3> QED BY <1>0, <1>2, <3>1, FirstWeighs
  <2>3. /\ Going(ms, t, window, Pass[0]) /\ Weighs(ms, Pass[0])
        /\ Pass[0].next > window \/ Pass[0].next >= 0 + 2
    BY <1>2, <2>1, <2>2, <2>4
  <2> QED BY <2>0, <2>3
<1>12. ASSUME NEW n \in 1..window, n - 1 \in X PROVE n \in X
  <2>1. PICK p : p = Pass[n - 1]
    OBVIOUS
  <2>2. Pass[n] = Choose(ms, window, p) /\ n \in 0..window
    <3>1. n \in 0..window /\ n # 0
      BY <1>0
    <3> QED BY <1>9, <2>1, <3>1
  <2>3. Going(ms, t, window, p) /\ Weighs(ms, p) /\ (p.next > window \/ p.next >= (n - 1) + 2)
    BY <1>12, <2>1
  <2>4. p.next \in Int
    BY <1>0, <2>3 DEF Going, Passes
  <2>5. CASE p.next > window
    <3>1. Pass[n] = p
      BY <2>2, <2>5 DEF Choose
    <3>2. Good(n)
      BY <2>3, <2>5, <3>1
    <3> QED BY <2>2, <3>2
  <2>6. CASE p.next <= window
    <3>1. Going(ms, t, window, Pass[n]) /\ Pass[n].next > p.next
      BY <1>0, <2>2, <2>3, <2>6, GoesOn
    <3>2. Pass[n].next \in Int
      BY <1>0, <3>1 DEF Going, Passes
    <3>3. p.next >= (n - 1) + 2
      BY <1>0, <2>3, <2>4, <2>6
    <3>4. Pass[n].next >= n + 2
      BY <2>4, <3>1, <3>2, <3>3
    <3>6. Weighs(ms, Pass[n])
      BY <1>0, <2>2, <2>3, <2>6, WeighsOn DEF Going
    <3>5. Good(n)
      BY <3>1, <3>4, <3>6
    <3> QED BY <2>2, <3>5
  <2> QED BY <1>0, <2>4, <2>5, <2>6
<1>13. 0..window \subseteq X
  <2> HIDE DEF X
  <2> QED BY <1>0, <1>11, <1>12, Upwards
<1>14. \A n \in 0..window : Good(n)
  BY <1>13
<1>15. Pass[0].next = 2 /\ Pass[0].out = <<ms[1]>>
  <2>1. Pass[0] = first
    <3>1. 0 \in 0..window
      BY <1>0
    <3> QED BY <1>9, <3>1
  <2> QED BY <1>2, <2>1
<1>16. ASSUME NEW n \in 1..window PROVE Pass[n] = Choose(ms, window, Pass[n - 1])
  <2>1. n \in 0..window /\ n # 0
    BY <1>0
  <2> QED BY <1>9, <2>1
<1> QED BY <1>10, <1>14, <1>15, <1>16 DEF Passed

\* The pass ends with p, and new is what it leaves.
Ended(ms, t, window, p, new) ==
    /\ window \in 2..Len(ms) /\ window = Len(ms) - KeepLast /\ window \in Nat
    /\ Going(ms, t, window, p) /\ Weighs(ms, p) /\ p.next = window + 1
    /\ p.out \in Talks /\ Len(p.out) \in Nat
    /\ Joined(new, p.out, ms, p.next, Len(ms))
    /\ new \in Talks /\ Len(new) = Len(p.out) + (Len(ms) - window)
    /\ \A k \in 1..Len(p.out) : new[k] = p.out[k]
    /\ \A k \in 1 .. Len(ms) - window : new[Len(p.out) + k] = ms[window + k]

LEMMA PassEnds ==
  ASSUME NEW ms, NEW t, Kept(ms, t), transcript_trim(ms) # ms
  PROVE  \E window, p : Ended(ms, t, window, p, transcript_trim(ms))
<1>0. ms \in Talks /\ Len(ms) \in Nat
  BY TalksAre DEF Kept
<1> DEFINE window == Len(ms) - KeepLast
<1>1. window \in 2..Len(ms)
  <2>1. ~(window <= 1)
    BY DEF transcript_trim
  <2> QED BY <1>0, <2>1, CurationConstants
<1>2. PICK P : Passed(P, ms, window, t)
  BY <1>1, PassIs
<1>3. PICK p : p = P[window]
  OBVIOUS
<1>4. /\ Going(ms, t, window, p) /\ (p.next > window \/ p.next >= window + 2)
    /\ Weighs(ms, p) /\ transcript_trim(ms) = p.out \o SubSeq(ms, window + 1, Len(ms))
  <2>1. window \in 0..window
    BY <1>1
  <2> QED BY <1>2, <1>3, <2>1 DEF Passed
<1>9. window = Len(ms) - KeepLast
  OBVIOUS
<1> HIDE DEF window
<1>5. /\ p.next = window + 1 /\ p.out \in Talks /\ window \in Nat /\ window <= Len(ms)
      /\ Len(p.out) \in Nat
  <2>1. p.next \in 2..window + 1 /\ p.out \in Talks
    BY <1>4 DEF Going, Passes
  <2> QED BY <1>0, <1>1, <1>4, <2>1, TalksAre
<1>6. PICK new : new = p.out \o SubSeq(ms, window + 1, Len(ms))
  OBVIOUS
<1>7. Joined(new, p.out, ms, p.next, Len(ms))
  <2>1. p.next \in 1..Len(ms) + 1 /\ Len(ms) \in p.next - 1 .. Len(ms)
    BY <1>0, <1>5
  <2> QED BY <1>0, <1>5, <1>6, <2>1, JoinIs
<1>8. /\ new \in Talks /\ Len(new) = Len(p.out) + (Len(ms) - window)
      /\ \A k \in 1..Len(p.out) : new[k] = p.out[k]
      /\ \A k \in 1 .. Len(ms) - window : new[Len(p.out) + k] = ms[window + k]
  <2>1. Len(ms) - p.next + 1 = Len(ms) - window /\ \A k \in Int : p.next + k - 1 = window + k
    BY <1>0, <1>5
  <2>2. /\ new \in Talks /\ Len(new) = Len(p.out) + (Len(ms) - p.next + 1)
        /\ \A k \in 1..Len(p.out) : new[k] = p.out[k]
        /\ \A k \in 1 .. Len(ms) - p.next + 1 : new[Len(p.out) + k] = ms[p.next + k - 1]
    BY <1>7 DEF Joined
  <2>3. ASSUME NEW k \in 1 .. Len(ms) - window PROVE new[Len(p.out) + k] = ms[window + k]
    <3>1. k \in 1 .. Len(ms) - p.next + 1 /\ p.next + k - 1 = window + k
      BY <1>0, <1>5
    <3> QED BY <2>2, <3>1
  <2> QED BY <2>1, <2>2, <2>3
<1>10. Ended(ms, t, window, p, new)
  BY <1>1, <1>4, <1>5, <1>7, <1>8, <1>9 DEF Ended
<1> QED BY <1>4, <1>6, <1>10

LEMMA TrimIs ==
  ASSUME NEW ms, NEW t, Kept(ms, t)
  PROVE  /\ \E u : Kept(transcript_trim(ms), u)
         /\ Agrees(transcript_trim(ms), ms, t)
<1>0. /\ ms \in Talks /\ MarkersTo(ms, t) /\ ms[1].kind = "text" /\ pairs_intact(ms)
      /\ Len(ms) \in Nat /\ t \in Nat /\ 1 <= t /\ t <= Len(ms)
  BY TalksAre DEF Kept, MarkersTo
<1>1. CASE transcript_trim(ms) = ms
  BY <1>0, <1>1 DEF Agrees
<1>2. CASE transcript_trim(ms) # ms
  <2>1. PICK new : new = transcript_trim(ms)
    OBVIOUS
  <2>4. PICK window, p : Ended(ms, t, window, p, new)
    BY <1>2, <2>1, PassEnds
  <2>5. /\ p.next = window + 1 /\ p.out \in Talks /\ window \in Nat /\ window <= Len(ms) /\ 2 <= window
        /\ Len(p.out) \in Nat
    BY <2>4 DEF Ended
  <2>8. /\ new \in Talks /\ Len(new) = Len(p.out) + (Len(ms) - window)
        /\ \A k \in 1..Len(p.out) : new[k] = p.out[k]
        /\ \A k \in 1 .. Len(ms) - window : new[Len(p.out) + k] = ms[window + k]
    BY <2>4 DEF Ended
  <2>9. /\ pairs_intact(new) /\ \A j \in 1..t : j <= window => j <= Len(p.out) /\ p.out[j] = ms[j]
        /\ window <= t => Len(p.out) = window
    <3>1. \A j \in 1..t : j <= window => j < p.next
      BY <2>5
    <3>2. window <= t => p.next <= t + 1 /\ p.next - 1 = window
      BY <1>0, <2>5
    <3> QED BY <2>4, <3>1, <3>2 DEF Ended, Going
  <2>10. PICK u : MarkersTo(p.out, u)
    BY <2>4 DEF Ended, Going
  <2>11. Len(p.out) >= 1 /\ u \in Nat /\ 1 <= u /\ u <= Len(p.out)
    BY <2>5, <2>10 DEF MarkersTo
  <2>12. new[1].kind = "text"
    <3>1. 1 \in 1..t /\ 1 <= window /\ 1 \in 1..Len(p.out)
      BY <1>0, <2>5, <2>11
    <3>2. new[1] = ms[1]
      BY <2>8, <2>9, <3>1
    <3> QED BY <1>0, <3>2
  <2>13. CASE t <= window
    <3>1. ASSUME NEW k \in 1..Len(new) PROVE new[k].kind = "trimmed" <=> k \in 2..u
      <4>0. k \in Nat /\ 1 <= k /\ k <= Len(p.out) + (Len(ms) - window)
        BY <1>0, <2>5, <2>8
      <4>1. CASE k <= Len(p.out)
        <5>1. k \in 1..Len(p.out)
          BY <4>0, <4>1
        <5> QED BY <2>8, <2>10, <5>1 DEF MarkersTo
      <4>2. CASE k > Len(p.out)
        <5>1. PICK l : l = k - Len(p.out)
          OBVIOUS
        <5>5. /\ Len(ms) \in Nat /\ window \in Nat /\ Len(p.out) \in Nat /\ t \in Nat /\ u \in Nat
              /\ window <= Len(ms) /\ u <= Len(p.out) /\ t <= window
          BY <1>0, <2>5, <2>11, <2>13
        <5>2. /\ l \in 1 .. Len(ms) - window /\ Len(p.out) + l = k /\ ~(k \in 2..u)
              /\ window + l \in 1..Len(ms) /\ ~(window + l \in 2..t)
          BY <4>0, <4>2, <5>1, <5>5
        <5>3. new[k] = ms[window + l]
          BY <2>8, <5>2
        <5>4. ms[window + l].kind # "trimmed"
          BY <1>0, <5>2 DEF MarkersTo
        <5> QED BY <5>2, <5>3, <5>4
      <4> QED BY <2>5, <4>0, <4>1, <4>2
    <3>2. u \in 1..Len(new)
      BY <1>0, <2>5, <2>8, <2>11
    <3>3. Kept(new, u)
      BY <2>8, <2>9, <2>12, <3>1, <3>2 DEF Kept, MarkersTo
    <3>4. Agrees(new, ms, t)
      <4>1. ASSUME NEW j \in 1..t PROVE j <= Len(new) /\ new[j] = ms[j]
        <5>1. j \in 1..t /\ j <= window /\ j \in Nat /\ 1 <= j
          BY <1>0, <2>5, <2>13
        <5>2. j <= Len(p.out) /\ p.out[j] = ms[j]
          BY <2>9, <5>1
        <5> QED BY <1>0, <2>5, <2>8, <5>1, <5>2
      <4> QED BY <4>1 DEF Agrees
    <3> QED BY <2>1, <3>3, <3>4
  <2>14. CASE t > window
    <3>1. Len(p.out) = window /\ Len(new) = Len(ms)
      BY <1>0, <2>5, <2>8, <2>9, <2>14, SMTT(30)
    <3>2. ASSUME NEW k \in 1..Len(ms) PROVE new[k] = ms[k]
      <4>1. CASE k <= window
        <5>1. k \in 1..t /\ k \in 1..Len(p.out)
          BY <1>0, <2>14, <2>5, <3>1, <4>1
        <5> QED BY <2>8, <2>9, <4>1, <5>1
      <4>2. CASE k > window
        <5>1. PICK l : l = k - window
          OBVIOUS
        <5>2. l \in 1 .. Len(ms) - window /\ Len(p.out) + l = k /\ window + l = k
          BY <1>0, <2>5, <3>1, <4>2, <5>1
        <5> QED BY <2>8, <5>2
      <4> QED BY <1>0, <2>5, <4>1, <4>2
    <3>3. new = ms
      BY <1>0, <2>8, <3>1, <3>2, SeqEqual DEF Talks
    <3> QED BY <1>2, <2>1, <3>3
  <2> QED BY <1>0, <2>5, <2>13, <2>14
<1> QED BY <1>1, <1>2
-----------------------------------------------------------------------------
(* The pass, repeated.                                                     *)

NotTooLong(ms) == Len(ms) <= 1 + 3 * MaxBatches + MaxNotes

LEMMA TimesInt ==
  ASSUME NEW b \in Int, NEW x \in Int PROVE Times(b, x) \in Int /\ Times(b, x) = Times(x, b)
BY DEF Times

LEMMA TimesNat ==
  ASSUME NEW b \in Nat, NEW x \in Nat PROVE Times(b, x) \in Nat
BY DEF Times

LEMMA TimesAdds ==
  ASSUME NEW b \in Int, NEW x \in Int, NEW y \in Int
  PROVE  Times(b, x + y) = Times(b, x) + Times(b, y)
BY DEF Times

LEMMA TimesGrows ==
  ASSUME NEW b \in Nat \ {0}, NEW x \in Int, NEW y \in Int, Times(b, x) < Times(b, y) + b
  PROVE  x <= y
<1> SUFFICES ASSUME x > y PROVE FALSE
  OBVIOUS
<1>1. PICK d : d = x - y - 1
  OBVIOUS
<1>2. d \in Int /\ d >= 0 /\ x = y + (1 + d)
  BY <1>1
<1>3. PICK one \in Int : one = 1
  OBVIOUS
<1>4. Times(b, x) = Times(b, y) + (Times(b, one) + Times(b, d))
  <2>1. one + d \in Int /\ x = y + (one + d)
    BY <1>2, <1>3
  <2>2. Times(b, y + (one + d)) = Times(b, y) + Times(b, one + d)
    BY <2>1, TimesAdds
  <2>3. Times(b, one + d) = Times(b, one) + Times(b, d)
    BY <1>2, <1>3, TimesAdds
  <2> QED BY <2>1, <2>2, <2>3
<1>5. Times(b, one) = b
  BY <1>3 DEF Times
<1>6. Times(b, d) >= 0 /\ Times(b, d) \in Int /\ Times(b, y) \in Int
  <2>1. d \in Nat /\ b \in Nat /\ b \in Int
    BY <1>2
  <2>2. Times(b, d) \in Nat /\ Times(b, y) \in Int
    BY <2>1, TimesInt, TimesNat
  <2> QED BY <2>2
<1> QED BY <1>4, <1>5, <1>6

LEMMA LightEnough ==
  ASSUME RoundingIsSmall, NEW ms, NEW t, Kept(ms, t), NotTooLong(ms),
         NEW window, NEW p, NEW new, Ended(ms, t, window, p, new), p.total <= TrimTarget
  PROVE  estimate_tokens(new) <= TrimAbove
<1>1. /\ Len(ms) \in Nat /\ window \in Nat /\ 2 <= window /\ window <= Len(ms)
      /\ p.next = window + 1 /\ p.out \in Talks /\ Len(p.out) \in Nat /\ new \in Talks /\ ms \in Talks
      /\ Len(new) = Len(p.out) + (Len(ms) - window)
      /\ \A k \in 1..Len(p.out) : new[k] = p.out[k]
      /\ \A k \in 1 .. Len(ms) - window : new[Len(p.out) + k] = ms[window + k]
  BY TalksAre DEF Ended, Kept
<1>2. PICK n : n = Len(ms) - window
  OBVIOUS
<1>3. window + n = Len(ms) /\ n \in Nat
  BY <1>1, <1>2
<1>4. Extends(new, p.out, ms, window, n)
  BY <1>1, <1>2, <1>3 DEF Extends
<1>5. All(new) = All(p.out) + Chars(ms, p.next, Len(ms)) /\ All(new) \in Nat
  <2>1. /\ All(new) = All(p.out) + Chars(ms, window + 1, window + n)
        /\ All(p.out) \in Nat /\ Chars(ms, window + 1, window + n) \in Nat
    BY <1>1, <1>3, <1>4, AllOfJoin
  <2>2. Chars(ms, window + 1, window + n) = Chars(ms, p.next, Len(ms))
    BY <1>1, <1>3
  <2> QED BY <2>1, <2>2
<1>6. PICK b \in Nat \ {0} : b = PerToken
  BY CurationConstants
<1>7. PICK M \in Nat : M = MarkerSize % b /\ M < b
  BY CurationConstants, Rounds
<1>8. PICK a \in Nat : a = All(new)
  BY <1>5
<1>9. PICK L \in Nat : L = Len(p.out) /\ L <= window
  <2>1. Len(p.out) < p.next
    BY DEF Ended, Weighs
  <2> QED BY <1>1, <2>1
<1>10. PICK T \in Int : T = p.total
  BY DEF Ended, Going, Passes
<1>11. a <= Times(b, T) + (b - 1 + Times(L, M))
  <2>1. All(p.out) + Chars(ms, p.next, Len(ms)) <= PerToken * p.total + Slack(p)
    BY DEF Ended, Weighs
  <2>2. Slack(p) = b - 1 + Times(L, M)
    BY <1>6, <1>7, <1>9 DEF Slack, Times
  <2>3. PerToken * p.total = Times(b, T)
    BY <1>6, <1>10 DEF Times
  <2> QED BY <1>5, <1>8, <2>1, <2>2, <2>3
<1>12. PICK e \in Nat : e = a \div b /\ Times(b, e) <= a
  <2>1. PICK r : r = a % b
    OBVIOUS
  <2>2. PICK y : y = Times(b, a \div b)
    OBVIOUS
  <2>3. a \div b \in Nat /\ r \in Nat /\ y \in Nat /\ a = y + r
    BY <2>1, <2>2, Rounds
  <2>4. y <= a
    BY <2>3
  <2> QED BY <2>2, <2>3, <2>4
<1>13. estimate_tokens(new) = e
  BY <1>6, <1>8, <1>12 DEF estimate_tokens, All
<1>18. /\ b \in Int /\ M \in Int /\ L \in Int /\ T \in Int /\ e \in Int /\ b \in Nat
       /\ L \in Nat /\ M \in Nat
  BY <1>6, <1>7, <1>9, <1>10, <1>12
<1>14. Times(b, T) \in Int /\ Times(b, e) \in Int /\ Times(L, M) \in Int
  BY <1>18, TimesInt
<1>15. TrimTarget \in Nat /\ TrimAbove \in Nat /\ TrimTarget < TrimAbove /\ T <= TrimTarget
  BY <1>10, CurationConstants
<1>16. CASE M = 0
  <2>1. Times(L, M) = 0
    BY <1>16 DEF Times
  <2>2. Times(b, e) < Times(b, T) + b
    BY <1>11, <1>12, <1>14, <2>1
  <2>3. e <= T
    BY <2>2, TimesGrows
  <2> QED BY <1>13, <1>15, <2>3
<1>17. CASE M # 0
  <2>1. 1 + 3 * MaxBatches + MaxNotes <= TrimAbove - TrimTarget
    BY <1>6, <1>7, <1>17 DEF RoundingIsSmall
  <2>2. Times(L, M) <= Times(b, L) /\ Times(b, L) \in Int
    <3>1. PICK d \in Int : d = b - M /\ d >= 0
      BY <1>7
    <3>2. b = M + d
      BY <3>1
    <3>3. Times(L, b) = Times(L, M) + Times(L, d)
      <4>1. Times(L, M + d) = Times(L, M) + Times(L, d)
        BY <1>18, <3>1, TimesAdds
      <4> QED BY <3>2, <4>1
    <3>4. Times(L, d) >= 0 /\ Times(L, d) \in Int /\ Times(L, M) \in Int
      <4>1. d \in Nat
        BY <3>1
      <4>2. Times(L, d) \in Nat /\ Times(L, M) \in Int
        BY <1>18, <4>1, TimesInt, TimesNat
      <4> QED BY <4>2
    <3>5. Times(L, b) = Times(b, L)
      BY <1>18, TimesInt
    <3> QED BY <3>3, <3>4, <3>5
  <2>3. Times(b, T + L) = Times(b, T) + Times(b, L) /\ Times(b, T + L) \in Int /\ T + L \in Int
    <3>1. T + L \in Int
      BY <1>18
    <3>2. Times(b, T + L) = Times(b, T) + Times(b, L)
      BY <1>18, TimesAdds
    <3>3. Times(b, T + L) \in Int
      BY <1>18, <3>1, TimesInt
    <3> QED BY <3>1, <3>2, <3>3
  <2>4. Times(b, e) < Times(b, T + L) + b
    BY <1>11, <1>12, <1>14, <2>2, <2>3
  <2>5. e <= T + L
    BY <2>3, <2>4, TimesGrows
  <2>6. L <= TrimAbove - TrimTarget
    <3>1. Len(ms) <= 1 + 3 * MaxBatches + MaxNotes
      BY DEF NotTooLong
    <3>2. PICK x \in Nat : x = 1 + 3 * MaxBatches + MaxNotes
      BY CurationConstants
    <3> QED BY <1>1, <1>9, <1>15, <2>1, <3>1, <3>2
  <2> QED BY <1>13, <1>15, <2>5, <2>6
<1> QED BY <1>16, <1>17

\* What the pass has put out is what it went over.
Copies(p, ms) == Len(p.out) = p.next - 1 /\ \A j \in 1 .. p.next - 1 : p.out[j] = ms[j]

LEMMA StaysCopy ==
  ASSUME NEW ms \in Talks, NEW window \in 2..Len(ms), NEW p \in Passes(window), NEW q, NEW s,
         Copies(p, ms), Stayed(ms, p, q, s), q.next = s.end + 1, s.end \in p.next..window
  PROVE  Copies(q, ms)
<1>1. PICK i, e : i = p.next /\ e = s.end
  OBVIOUS
<1>2. /\ i \in Nat /\ 2 <= i /\ i <= e /\ e \in Nat /\ e <= Len(ms) /\ Len(ms) \in Nat
      /\ p.out \in Talks /\ Len(p.out) = i - 1 /\ q.next = e + 1
      /\ \A j \in 1 .. i - 1 : p.out[j] = ms[j]
  <2>1. p.next \in 2..window + 1 /\ p.out \in Talks /\ Len(ms) \in Nat
    BY TalksAre DEF Passes
  <2> QED BY <1>1, <2>1 DEF Copies
<1>3. /\ Len(q.out) = (i - 1) + (e - i + 1) /\ \A k \in 1 .. i - 1 : q.out[k] = p.out[k]
      /\ \A k \in 1 .. e - i + 1 : q.out[(i - 1) + k] = ms[i + k - 1]
  <2>1. i \in 1..Len(ms) + 1 /\ e \in i - 1 .. Len(ms)
    BY <1>2
  <2>2. q.out = p.out \o SubSeq(ms, i, e)
    BY <1>1 DEF Stayed
  <2>3. Joined(q.out, p.out, ms, i, e)
    BY <1>2, <2>1, <2>2, JoinIs
  <2> QED BY <1>2, <2>3 DEF Joined
<1>4. Len(q.out) = q.next - 1
  BY <1>2, <1>3
<1>5. ASSUME NEW j \in 1 .. q.next - 1 PROVE q.out[j] = ms[j]
  <2>1. j \in 1..e
    BY <1>2
  <2>2. CASE j < i
    <3>1. j \in 1 .. i - 1
      BY <1>2, <2>1, <2>2
    <3> QED BY <1>2, <1>3, <3>1
  <2>3. CASE j >= i
    <3>1. PICK k : k = j - (i - 1)
      OBVIOUS
    <3>2. k \in 1 .. e - i + 1 /\ (i - 1) + k = j /\ i + k - 1 = j
      BY <1>2, <2>1, <2>3, <3>1
    <3> QED BY <1>3, <3>2
  <2> QED BY <1>2, <2>1, <2>2, <2>3
<1> QED BY <1>4, <1>5 DEF Copies

\* Repeated, the pass goes over what it has left: markers, and then nothing or
\* the segment that stayed before.
Idle(p, ms, window, u) == Copies(p, ms) /\ (p.next <= u + 1 \/ p.next = window + 1)

LEMMA IdlesOn ==
  ASSUME NEW ms, NEW t, Kept(ms, t), NEW window, NEW p, NEW new, Ended(ms, t, window, p, new),
         NEW u, MarkersTo(p.out, u), u = Len(p.out) \/ Last(ms, window, p, u),
         NEW w, w = Len(p.out), w \in 2..Len(new),
         NEW q \in Passes(w), q.next <= w, Idle(q, new, w, u)
  PROVE  Idle(Choose(new, w, q), new, w, u)
<1>1. /\ Len(ms) \in Nat /\ window \in Nat /\ 2 <= window /\ window <= Len(ms)
      /\ p.out \in Talks /\ new \in Talks /\ ms \in Talks
      /\ Len(new) = w + (Len(ms) - window)
      /\ \A k \in 1..w : new[k] = p.out[k]
      /\ \A k \in 1 .. Len(ms) - window : new[w + k] = ms[window + k]
      /\ Len(new) \in Nat /\ w \in Nat /\ 2 <= w /\ u \in Nat /\ 1 <= u /\ u <= w
  BY TalksAre DEF Ended, Kept, MarkersTo
<1>2. PICK r : r = Choose(new, w, q)
  OBVIOUS
<1>3. PICK s : /\ SegmentIs(new, w, q.next, s) /\ r.next = s.end + 1
               /\ \/ Collapses(new, q.total, s) /\ Gave(q, r, s)
                  \/ ~Collapses(new, q.total, s) /\ Stayed(new, q, r, s)
  BY <1>1, <1>2, ChooseIs
<1>4. PICK i \in Nat : i = q.next /\ 2 <= i /\ i <= w /\ i <= u + 1
  <2>1. q.next \in 2..w + 1
    BY DEF Passes
  <2>2. q.next <= u + 1
    BY <1>1, <2>1 DEF Idle
  <2> QED BY <1>1, <2>1, <2>2
<1>5. s.end \in i..w
  BY <1>3, <1>4 DEF SegmentIs
<1>6. CASE i <= u
  <2>1. new[i].kind = "trimmed"
    <3>1. i \in 1..w /\ i \in 2..u
      BY <1>1, <1>4, <1>6
    <3>2. p.out[i].kind = "trimmed"
      BY <3>1 DEF MarkersTo
    <3> QED BY <1>1, <3>1, <3>2
  <2>2. ~s.complete /\ s.end = i
    BY <1>3, <1>4, <2>1 DEF SegmentIs
  <2>3. Stayed(new, q, r, s)
    BY <1>3, <2>2 DEF Collapses
  <2>4. Copies(r, new)
    BY <1>1, <1>3, <1>4, <1>5, <2>3, StaysCopy DEF Idle
  <2>5. r.next <= u + 1
    BY <1>1, <1>3, <1>4, <1>6, <2>2
  <2> QED BY <1>2, <2>4, <2>5 DEF Idle
<1>7. CASE i = u + 1
  <2>1. Last(ms, window, p, u)
    BY <1>1, <1>4, <1>7
  <2>2. PICK k \in 2..window : \E z :
          /\ SegmentIs(ms, window, k, z) /\ z.end = window /\ ms[k].kind # "trimmed"
          /\ z.complete => window < Len(ms) /\ ms[window + 1].kind = "result"
          /\ Len(p.out) = u + (window - k + 1)
          /\ \A l \in 1 .. window - k + 1 : p.out[u + l] = ms[k + l - 1]
    BY <2>1 DEF Last
  <2>3. PICK z :
          /\ SegmentIs(ms, window, k, z) /\ z.end = window /\ ms[k].kind # "trimmed"
          /\ z.complete => window < Len(ms) /\ ms[window + 1].kind = "result"
          /\ Len(p.out) = u + (window - k + 1)
          /\ \A l \in 1 .. window - k + 1 : p.out[u + l] = ms[k + l - 1]
    BY <2>2
  <2>4. PICK j : j = k - 1
    OBVIOUS
  <2>5. PICK n : n = window - j
    OBVIOUS
  <2>6. /\ j + n = window /\ u + n = w /\ k = j + 1 /\ window - k + 1 = n /\ i = u + 1
        /\ j \in Nat /\ n \in Nat \ {0} /\ k \in Nat /\ \A l \in Int : k + l - 1 = j + l
    <3>1. k \in Nat /\ 2 <= k /\ k <= window
      BY <1>1, <2>2
    <3>2. w \in Nat /\ u \in Nat /\ window \in Nat /\ w = u + (window - k + 1) /\ i = u + 1
      BY <1>1, <1>7, <2>3
    <3> QED BY <2>4, <2>5, <3>1, <3>2
  <2>7. Alike(ms, j, new, u, n)
    <3>1. ASSUME NEW l \in 1..n PROVE ms[j + l] = new[u + l]
      <4>0. l \in Int /\ 1 <= l /\ l <= n /\ n \in Nat /\ u \in Nat /\ u + n = w
        BY <1>1, <2>6
      <4>2. l \in 1..n /\ u + l \in 1..w
        BY <4>0
      <4>1. l \in 1 .. window - k + 1 /\ k + l - 1 = j + l /\ u + l \in 1..w
        BY <2>6, <4>0, <4>2
      <4> QED BY <1>1, <2>3, <4>1
    <3>2. j + n <= Len(ms) /\ u + n <= Len(new)
      BY <1>1, <2>6
    <3> QED BY <3>1, <3>2 DEF Alike
  <2>8. SegmentIs(ms, j + n, j + 1, z) /\ SegmentIs(new, u + n, u + 1, s)
    BY <1>3, <1>4, <2>3, <2>6
  <2>9. (z.complete <=> s.complete) /\ z.end - j = s.end - u
    <3>1. ms \in Talks /\ new \in Talks /\ u \in Nat /\ j \in Nat /\ n \in Nat \ {0}
      BY <1>1, <2>6
    <3> QED BY <2>7, <2>8, <3>1, SameSegment
  <2>10. s.end = w
    <3>1. s.end \in Int /\ z.end = window /\ w \in Nat /\ u \in Nat /\ window \in Nat
      BY <1>1, <1>4, <1>5, <2>3
    <3> QED BY <2>6, <2>9, <3>1
  <2>11. ~Collapses(new, q.total, s)
    <3>1. SUFFICES ASSUME s.complete PROVE PairingUnsafe(new, s)
      BY DEF Collapses
    <3>2. window < Len(ms) /\ ms[window + 1].kind = "result"
      BY <2>3, <2>9, <3>1
    <3>3. 1 \in 1 .. Len(ms) - window /\ w < Len(new)
      BY <1>1, <3>2
    <3>4. new[w + 1] = ms[window + 1]
      BY <1>1, <3>3
    <3> QED BY <2>10, <3>1, <3>2, <3>3, <3>4 DEF PairingUnsafe
  <2>12. Copies(r, new)
    BY <1>1, <1>3, <1>4, <1>5, <2>11, StaysCopy DEF Idle
  <2>13. r.next = w + 1
    BY <1>3, <2>10
  <2> QED BY <1>2, <2>12, <2>13 DEF Idle
<1> QED BY <1>1, <1>4, <1>6, <1>7

LEMMA TrimTwice ==
  ASSUME RoundingIsSmall, NEW ms, NEW t, Kept(ms, t), NotTooLong(ms)
  PROVE  transcript_trim(transcript_trim(ms)) = transcript_trim(ms)
<1>1. PICK new : new = transcript_trim(ms)
  OBVIOUS
<1>2. SUFFICES ASSUME new # ms, transcript_trim(new) # new PROVE FALSE
  BY <1>1
<1>3. PICK window, p : Ended(ms, t, window, p, new)
  BY <1>1, <1>2, PassEnds
<1>4. PICK v : Kept(new, v)
  BY <1>1, TrimIs
<1>5. PICK w : w = Len(p.out)
  OBVIOUS
<1>6. /\ Len(ms) \in Nat /\ window \in Nat /\ window <= Len(ms) /\ window = Len(ms) - KeepLast
      /\ new \in Talks /\ Len(new) = w + (Len(ms) - window) /\ w \in Nat
      /\ \A k \in 1..w : new[k] = p.out[k]
  BY <1>3, <1>5, TalksAre DEF Ended, Kept
<1>7. estimate_tokens(new) > TrimAbove /\ w \in 2..Len(new) /\ w = Len(new) - KeepLast
  <2>1. w = Len(new) - KeepLast
    BY <1>6, CurationConstants
  <2>2. ~(estimate_tokens(new) <= TrimAbove) /\ ~(Len(new) - KeepLast <= 1)
    BY <1>2 DEF transcript_trim
  <2>3. estimate_tokens(new) \in Nat
    BY <1>6, TokensAre
  <2> QED BY <1>6, <2>1, <2>2, <2>3, CurationConstants
<1>8. ~(p.total <= TrimTarget)
  <2>1. estimate_tokens(new) \in Nat
    BY <1>6, TokensAre
  <2> QED BY <1>3, <1>7, <2>1, LightEnough, CurationConstants
<1>9. PICK u : MarkersTo(p.out, u) /\ (u = Len(p.out) \/ Last(ms, window, p, u))
  BY <1>3, <1>8 DEF Ended, Going
<1>10. PICK Q : Passed(Q, new, w, v)
  BY <1>4, <1>7, PassIs
<1>11. /\ Q[0].next = 2 /\ Q[0].out = <<new[1]>>
       /\ \A n \in 1..w : Q[n] = Choose(new, w, Q[n - 1])
       /\ \A n \in 0..w : Q[n] \in Passes(w) /\ (Q[n].next > w \/ Q[n].next >= n + 2)
       /\ transcript_trim(new) = IF estimate_tokens(new) <= TrimAbove \/ w <= 1 THEN new
                                 ELSE Q[w].out \o SubSeq(new, w + 1, Len(new))
  BY <1>10 DEF Passed, Going
<1> DEFINE X == {n \in 0..w : Idle(Q[n], new, w, u)}
<1>12. 0 \in X
  <2>1. 0 \in 0..w
    BY <1>6
  <2>2. Copies(Q[0], new)
    <3>1. Len(Q[0].out) = 1 /\ Q[0].out[1] = new[1] /\ Q[0].next - 1 = 1
      BY <1>11
    <3> QED BY <3>1 DEF Copies
  <2>3. Q[0].next <= u + 1
    <3>1. u \in 1..Len(p.out)
      BY <1>9 DEF MarkersTo
    <3> QED BY <1>5, <1>6, <1>11, <3>1
  <2>4. Idle(Q[0], new, w, u)
    BY <2>2, <2>3 DEF Idle
  <2> QED BY <2>1, <2>4
<1>13. ASSUME NEW n \in 1..w, n - 1 \in X PROVE n \in X
  <2>1. PICK q : q = Q[n - 1]
    OBVIOUS
  <2>2. Idle(q, new, w, u) /\ q \in Passes(w) /\ Q[n] = Choose(new, w, q) /\ n \in 0..w
    <3>1. n - 1 \in 0..w /\ n \in 0..w
      BY <1>6
    <3> QED BY <1>11, <1>13, <2>1, <3>1
  <2>3. q.next \in Int
    BY <1>6, <2>2 DEF Passes
  <2>4. CASE q.next > w
    <3>1. Q[n] = q
      BY <2>2, <2>4 DEF Choose
    <3> QED BY <2>2, <3>1
  <2>5. CASE q.next <= w
    <3>1. Idle(Q[n], new, w, u)
      BY <1>3, <1>5, <1>7, <1>9, <2>2, <2>5, IdlesOn
    <3> QED BY <2>2, <3>1
  <2> QED BY <1>6, <2>3, <2>4, <2>5
<1>14. Idle(Q[w], new, w, u)
  <2>1. 0..w \subseteq X
    <3> HIDE DEF X
    <3> QED BY <1>6, <1>12, <1>13, Upwards
  <2>2. w \in 0..w
    BY <1>6
  <2> QED BY <2>1, <2>2
<1>15. PICK q : q = Q[w]
  OBVIOUS
<1>16. q.next = w + 1 /\ q \in Passes(w) /\ q.out \in Talks
  <2>1. w \in 0..w
    BY <1>6
  <2>2. q \in Passes(w) /\ (q.next > w \/ q.next >= w + 2)
    BY <1>11, <1>15, <2>1
  <2>3. q.next \in 2..w + 1 /\ q.out \in Talks
    BY <2>2 DEF Passes
  <2> QED BY <1>6, <2>2, <2>3
<1>17. PICK twice : twice = q.out \o SubSeq(new, w + 1, Len(new))
  OBVIOUS
<1>18. transcript_trim(new) = twice
  <2>1. ~(estimate_tokens(new) <= TrimAbove) /\ ~(w <= 1)
    <3>1. estimate_tokens(new) \in Nat
      BY <1>6, TokensAre
    <3> QED BY <1>6, <1>7, <3>1, CurationConstants
  <2> QED BY <1>11, <1>15, <1>17, <2>1
<1>19. /\ Len(q.out) = w /\ \A j \in 1..w : q.out[j] = new[j]
  <2>1. q.next - 1 = w
    BY <1>6, <1>16
  <2> QED BY <1>14, <1>15, <2>1 DEF Idle, Copies
<1>20. /\ twice \in Talks /\ Len(twice) = w + (Len(new) - (w + 1) + 1)
       /\ \A k \in 1..w : twice[k] = q.out[k]
       /\ \A k \in 1 .. Len(new) - (w + 1) + 1 : twice[w + k] = new[(w + 1) + k - 1]
  <2>1. w + 1 \in 1..Len(new) + 1 /\ Len(new) \in (w + 1) - 1 .. Len(new)
    BY <1>6
  <2>2. Joined(twice, q.out, new, w + 1, Len(new))
    BY <1>6, <1>16, <1>17, <2>1, JoinIs
  <2> QED BY <1>19, <2>2 DEF Joined
<1>21. Len(twice) = Len(new)
  BY <1>6, <1>20
<1>22. ASSUME NEW k \in 1..Len(new) PROVE twice[k] = new[k]
  <2>1. CASE k <= w
    <3>1. k \in 1..w
      BY <2>1
    <3> QED BY <1>19, <1>20, <3>1
  <2>2. CASE k > w
    <3>1. PICK l : l = k - w
      OBVIOUS
    <3>2. l \in 1 .. Len(new) - (w + 1) + 1 /\ w + l = k /\ (w + 1) + l - 1 = k
      BY <1>6, <2>2, <3>1
    <3> QED BY <1>20, <3>2
  <2> QED BY <1>6, <2>1, <2>2
<1>23. twice = new
  BY <1>6, <1>20, <1>21, <1>22, SeqEqual DEF Talks
<1> QED BY <1>2, <1>18, <1>23

-----------------------------------------------------------------------------
(* The model's edit.                                                       *)

Shown(i) == i <= mirrored /\ ~is_pinned(i)

LEMMA ShortestIs == Shortest \in Nat
<1>1. Sizes # {} /\ Sizes \in SUBSET Nat
  BY CurationAssumption
<1>2. \E s \in Sizes : \A o \in Sizes : s <= o
  BY <1>1, Smallest
<1> QED BY <1>1, <1>2 DEF Shortest

LEMMA EditsAre ==
  ASSUME NEW edit \in Edits
  PROVE  \A i \in edit.gone \cup edit.short : ~is_pinned(i)
BY DEF Edits

\* U is what is assembled of messages 1 to i: the markers of trims up to t stay.
Assembled(U, i, t) ==
    /\ U \in Talks /\ Len(U) <= i
    /\ i <= t => Len(U) = i /\ \A j \in 1..i : U[j] = messages[j]
    /\ t <= i => /\ t <= Len(U) /\ \A j \in 1..t : U[j] = messages[j]
                 /\ \A k \in 1..Len(U) : U[k].kind = "trimmed" <=> k \in 2..t

\* Message i is added as it is, or shortened; or a marker for it; or nothing.
LEMMA OneMore ==
  ASSUME NEW t, Kept(messages, t), NEW i \in 1..Len(messages), NEW U, Assembled(U, i - 1, t),
         NEW V, NEW m \in SizedMsgs, V = Append(U, m) \/ (t < i /\ V = U),
         t < i => m.kind # "trimmed", i <= t => m = messages[i]
  PROVE  Assembled(V, i, t)
<1>1. /\ messages \in Talks /\ Len(messages) \in Nat /\ t \in Nat /\ 1 <= t /\ t <= Len(messages)
      /\ \A k \in 1..Len(messages) : messages[k].kind = "trimmed" <=> k \in 2..t
      /\ U \in Talks /\ Len(U) \in Nat /\ i \in Nat /\ 1 <= i
  BY TalksAre DEF Kept, MarkersTo, Assembled
<1>4. Len(U) <= i - 1
  BY DEF Assembled
<1>2. CASE V = Append(U, m)
  <2>5. Len(V) <= i
    BY <1>1, <1>2, <1>4, AppendProperties DEF Talks
  <2>1. /\ V \in Talks /\ Len(V) = Len(U) + 1 /\ V[Len(U) + 1] = m
        /\ \A k \in 1..Len(U) : V[k] = U[k]
    BY <1>1, <1>2, AppendProperties DEF Talks
  <2>2. CASE i <= t
    <3>1. Len(U) = i - 1 /\ \A j \in 1..i - 1 : U[j] = messages[j]
      BY <1>1, <2>2 DEF Assembled
    <3>2. Len(V) = i
      BY <1>1, <2>1, <3>1
    <3>3. ASSUME NEW j \in 1..i PROVE V[j] = messages[j]
      <4>1. CASE j = i
        BY <1>1, <2>1, <2>2, <3>1, <4>1
      <4>2. CASE j # i
        <5>1. j \in 1..i - 1
          BY <1>1, <4>2
        <5> QED BY <2>1, <3>1, <5>1
      <4> QED BY <4>1, <4>2
    <3>4. ASSUME t <= i
          PROVE  /\ t <= Len(V) /\ \A j \in 1..t : V[j] = messages[j]
                 /\ \A k \in 1..Len(V) : V[k].kind = "trimmed" <=> k \in 2..t
      <4>1. t = i
        BY <1>1, <2>2, <3>4
      <4> QED BY <1>1, <3>2, <3>3, <4>1
    <3> QED BY <2>1, <2>5, <3>2, <3>3, <3>4 DEF Assembled
  <2>3. CASE t < i
    <3>1. /\ t <= Len(U) /\ \A j \in 1..t : U[j] = messages[j]
          /\ \A k \in 1..Len(U) : U[k].kind = "trimmed" <=> k \in 2..t
      <4>1. t <= i - 1
        BY <1>1, <2>3
      <4> QED BY <4>1 DEF Assembled
    <3>2. \A j \in 1..t : V[j] = messages[j]
      <4> TAKE j \in 1..t
      <4>1. j \in 1..Len(U)
        BY <1>1, <3>1
      <4> QED BY <2>1, <3>1, <4>1
    <3>3. ASSUME NEW k \in 1..Len(V) PROVE V[k].kind = "trimmed" <=> k \in 2..t
      <4>1. CASE k = Len(U) + 1
        <5>1. ~(k \in 2..t)
          BY <1>1, <3>1, <4>1
        <5> QED BY <2>1, <2>3, <4>1, <5>1
      <4>2. CASE k # Len(U) + 1
        <5>1. k \in 1..Len(U)
          BY <1>1, <2>1, <4>2
        <5> QED BY <2>1, <3>1, <5>1
      <4> QED BY <4>1, <4>2
    <3>4. t <= Len(V) /\ ~(i <= t)
      BY <1>1, <2>1, <2>3, <3>1
    <3> QED BY <2>1, <2>5, <3>2, <3>3, <3>4 DEF Assembled
  <2> QED BY <1>1, <2>2, <2>3
<1>3. CASE t < i /\ V = U
  <2>1. t <= i - 1 /\ ~(i <= t) /\ Len(V) <= i
    BY <1>1, <1>3, <1>4
  <2> QED BY <1>3, <2>1 DEF Assembled
<1> QED BY <1>2, <1>3

LEMMA AssembleIs ==
  ASSUME NEW t, Kept(messages, t), mirrored \in Nat, t <= mirrored, mirrored <= Len(messages),
         NEW edit \in Edits
  PROVE  /\ assemble(edit) \in Talks /\ MarkersTo(assemble(edit), t)
         /\ Agrees(assemble(edit), messages, t) /\ Len(assemble(edit)) <= Len(messages)
<1>0. /\ messages \in Talks /\ Len(messages) \in Nat /\ t \in Nat /\ 1 <= t /\ t <= Len(messages)
      /\ \A k \in 1..Len(messages) : messages[k].kind = "trimmed" <=> k \in 2..t
      /\ \A k \in 1..Len(messages) : messages[k] \in SizedMsgs
  BY TalksAre DEF Kept, MarkersTo
<1> DEFINE Now(i) == IF i \in edit.short THEN [messages[i] EXCEPT !.size = Shortest] ELSE messages[i]
           More(i, x) == IF i \notin edit.gone THEN Append(x, Now(i))
                         ELSE IF (i - 1) \in edit.gone THEN x
                         ELSE Append(x, EditMarker)
           Upto[i \in 0..mirrored] ==
             IF i = 0 THEN <<>>
             ELSE IF i \notin edit.gone THEN Append(Upto[i - 1], Now(i))
             ELSE IF (i - 1) \in edit.gone THEN Upto[i - 1]
             ELSE Append(Upto[i - 1], EditMarker)
<1>1. assemble(edit) = Upto[mirrored] \o SubSeq(messages, mirrored + 1, Len(messages))
  BY DEF assemble
<1>2. ASSUME NEW i \in 1..mirrored
      PROVE  /\ i \in 1..Len(messages) /\ Now(i) \in SizedMsgs /\ Now(i).kind = messages[i].kind
             /\ i <= t => i \notin edit.gone /\ Now(i) = messages[i]
             /\ messages[i].kind = "trimmed" => i <= t
  <2>1. i \in 1..Len(messages) /\ messages[i] \in SizedMsgs
    BY <1>0
  <2>2. Now(i) \in SizedMsgs /\ Now(i).kind = messages[i].kind
    <3>1. CASE i \in edit.short
      <4>1. Now(i) = [messages[i] EXCEPT !.size = Shortest]
        BY <3>1
      <4> QED BY <2>1, <4>1, ShortestIs DEF SizedMsgs
    <3>2. CASE i \notin edit.short
      BY <2>1, <3>2
    <3> QED BY <3>1, <3>2
  <2>3. i <= t => is_pinned(i)
    BY <1>0, <2>1 DEF is_pinned
  <2>4. is_pinned(i) => i \notin edit.gone /\ i \notin edit.short
    BY EditsAre
  <2>5. messages[i].kind = "trimmed" => i <= t
    BY <1>0, <2>1
  <2> QED BY <2>1, <2>2, <2>3, <2>4, <2>5
<1>3. ASSUME NEW i \in 1..mirrored, NEW x \in Talks PROVE More(i, x) \in Talks
  <2>1. Now(i) \in SizedMsgs
    BY <1>2
  <2> HIDE DEF Now
  <2> QED BY <2>1, CurationConstants, AppendProperties DEF Talks
<1>4. PICK G : G = [i \in 1..mirrored |-> [x \in Talks |-> More(i, x)]]
  OBVIOUS
<1>5. Stays(G, mirrored, Talks)
  <2> HIDE DEF More
  <2> QED BY <1>3, <1>4 DEF Stays
<1>6. PICK none : none = <<>>
  OBVIOUS
<1>7. none \in Talks /\ Len(none) = 0
  BY <1>6 DEF Talks
<1>8. PICK F : Iterated(F, G, mirrored, Talks, none)
  BY <1>5, <1>7, Iterates
<1>9. /\ F \in [0..mirrored -> Talks] /\ F[0] = none
      /\ \A i \in 1..mirrored : F[i] = More(i, F[i - 1])
  <2>1. F \in [0..mirrored -> Talks] /\ F[0] = none /\ \A i \in 1..mirrored : F[i] = G[i][F[i - 1]]
    BY <1>8 DEF Iterated
  <2>2. ASSUME NEW i \in 1..mirrored PROVE F[i] = More(i, F[i - 1])
    <3>1. i - 1 \in 0..mirrored
      OBVIOUS
    <3>2. F[i - 1] \in Talks
      BY <2>1, <3>1
    <3> HIDE DEF More
    <3> QED BY <1>4, <2>1, <3>2
  <2> HIDE DEF More
  <2> QED BY <2>1, <2>2
<1>10. Upto = [i \in 0..mirrored |->
                 IF i = 0 THEN <<>>
                 ELSE IF i \notin edit.gone THEN Append(Upto[i - 1], Now(i))
                 ELSE IF (i - 1) \in edit.gone THEN Upto[i - 1]
                 ELSE Append(Upto[i - 1], EditMarker)]
  <2>1. F = [i \in 0..mirrored |->
               IF i = 0 THEN <<>>
               ELSE IF i \notin edit.gone THEN Append(F[i - 1], Now(i))
               ELSE IF (i - 1) \in edit.gone THEN F[i - 1]
               ELSE Append(F[i - 1], EditMarker)]
    <3>1. F = [i \in 0..mirrored |-> F[i]]
      BY <1>9
    <3>2. ASSUME NEW i \in 0..mirrored
          PROVE  F[i] = IF i = 0 THEN <<>>
                        ELSE IF i \notin edit.gone THEN Append(F[i - 1], Now(i))
                        ELSE IF (i - 1) \in edit.gone THEN F[i - 1]
                        ELSE Append(F[i - 1], EditMarker)
      <4>1. CASE i = 0
        BY <1>6, <1>9, <4>1
      <4>2. CASE i # 0
        <5>1. i \in 1..mirrored
          BY <4>2
        <5>2. F[i] = More(i, F[i - 1])
          BY <1>9, <5>1
        <5> HIDE DEF Now
        <5> QED BY <4>2, <5>2
      <4> QED BY <4>1, <4>2
    <3> HIDE DEF Now
    <3> QED BY <3>1, <3>2
  <2> QED BY <2>1
<1> HIDE DEF Upto
<1> DEFINE X == {i \in 0..mirrored : Assembled(Upto[i], i, t)}
<1>11. 0 \in X
  <2>1. Upto[0] = none
    <3>1. 0 \in 0..mirrored
      OBVIOUS
    <3> HIDE DEF Now
    <3> QED BY <1>6, <1>10, <3>1
  <2>2. Assembled(none, 0, t)
    BY <1>0, <1>7 DEF Assembled
  <2> QED BY <2>1, <2>2
<1>12. ASSUME NEW i \in 1..mirrored, i - 1 \in X PROVE i \in X
  <2>1. PICK U : U = Upto[i - 1]
    OBVIOUS
  <2>2. PICK V : V = Upto[i]
    OBVIOUS
  <2>3. PICK m : m = Now(i)
    OBVIOUS
  <2>4. V = IF i \notin edit.gone THEN Append(U, m)
            ELSE IF (i - 1) \in edit.gone THEN U ELSE Append(U, EditMarker)
    <3>1. i \in 0..mirrored /\ i # 0
      OBVIOUS
    <3> HIDE DEF Now
    <3> QED BY <1>10, <2>1, <2>2, <2>3, <3>1
  <2>5. Assembled(U, i - 1, t)
    BY <1>12, <2>1
  <2>6. /\ i \in 1..Len(messages) /\ m \in SizedMsgs /\ m.kind = messages[i].kind
        /\ i <= t => i \notin edit.gone /\ m = messages[i]
        /\ messages[i].kind = "trimmed" => i <= t
    BY <1>2, <2>3
  <2>7. EditMarker \in SizedMsgs /\ EditMarker.kind # "trimmed"
    BY CurationConstants DEF EditMarker, Sized
  <2>8. CASE V = Append(U, m) /\ i \notin edit.gone
    <3>1. t < i => m.kind # "trimmed"
      BY <1>0, <2>6
    <3>2. Assembled(V, i, t)
      BY <2>5, <2>6, <2>8, <3>1, OneMore
    <3> QED BY <2>2, <3>2
  <2>9. CASE i \in edit.gone
    <3>1. t < i
      BY <1>0, <2>6, <2>9
    <3>2. V = Append(U, EditMarker) \/ V = U
      BY <2>4, <2>9
    <3>3. ~(i <= t)
      BY <1>0, <3>1
    <3>4. Assembled(V, i, t)
      BY <2>5, <2>6, <2>7, <3>1, <3>2, <3>3, OneMore
    <3> QED BY <2>2, <3>4
  <2> QED BY <2>4, <2>8, <2>9
<1>13. mirrored \in X
  <2>1. 0..mirrored \subseteq X
    <3> HIDE DEF X
    <3> QED BY <1>11, <1>12, Upwards
  <2> QED BY <2>1
<1>14. PICK U : U = Upto[mirrored]
  OBVIOUS
<1>15. /\ U \in Talks /\ Len(U) \in Nat /\ Len(U) <= mirrored /\ t <= Len(U) /\ \A j \in 1..t : U[j] = messages[j]
       /\ \A k \in 1..Len(U) : U[k].kind = "trimmed" <=> k \in 2..t
  BY <1>13, <1>14, TalksAre DEF Assembled
<1>16. PICK new : new = assemble(edit)
  OBVIOUS
<1>17. /\ new \in Talks /\ Len(new) = Len(U) + (Len(messages) - (mirrored + 1) + 1)
       /\ \A k \in 1..Len(U) : new[k] = U[k]
       /\ \A k \in 1 .. Len(messages) - (mirrored + 1) + 1 : new[Len(U) + k] = messages[(mirrored + 1) + k - 1]
  <2>1. mirrored + 1 \in 1..Len(messages) + 1 /\ Len(messages) \in (mirrored + 1) - 1 .. Len(messages)
    BY <1>0
  <2>2. new = U \o SubSeq(messages, mirrored + 1, Len(messages))
    BY <1>1, <1>14, <1>16
  <2> QED BY <1>0, <1>15, <2>1, <2>2, JoinIs DEF Joined
<1>18. MarkersTo(new, t)
  <2>1. ASSUME NEW k \in 1..Len(new) PROVE new[k].kind = "trimmed" <=> k \in 2..t
    <3>0. k \in Nat /\ 1 <= k /\ k <= Len(U) + (Len(messages) - mirrored)
      BY <1>0, <1>15, <1>17
    <3>1. CASE k <= Len(U)
      <4>1. k \in 1..Len(U)
        BY <3>0, <3>1
      <4> QED BY <1>15, <1>17, <4>1
    <3>2. CASE k > Len(U)
      <4>1. PICK l : l = k - Len(U)
        OBVIOUS
      <4>2. /\ l \in 1 .. Len(messages) - (mirrored + 1) + 1 /\ Len(U) + l = k /\ ~(k \in 2..t)
            /\ (mirrored + 1) + l - 1 \in 1..Len(messages) /\ ~((mirrored + 1) + l - 1 \in 2..t)
        BY <1>0, <1>15, <3>0, <3>2, <4>1
      <4>3. new[k] = messages[(mirrored + 1) + l - 1]
        BY <1>17, <4>2
      <4>4. messages[(mirrored + 1) + l - 1].kind # "trimmed"
        BY <1>0, <4>2
      <4> QED BY <4>2, <4>3, <4>4
    <3> QED BY <1>15, <3>0, <3>1, <3>2
  <2>2. t \in 1..Len(new)
    BY <1>0, <1>15, <1>17
  <2> QED BY <2>1, <2>2 DEF MarkersTo
<1>19. Agrees(new, messages, t)
  <2>1. ASSUME NEW j \in 1..t PROVE j <= Len(new) /\ new[j] = messages[j]
    <3>1. j \in 1..Len(U) /\ j <= Len(new)
      BY <1>0, <1>15, <1>17
    <3> QED BY <1>15, <1>17, <3>1
  <2> QED BY <2>1 DEF Agrees
<1>20. Len(new) <= Len(messages)
  BY <1>0, <1>15, <1>17
<1> QED BY <1>16, <1>17, <1>18, <1>19, <1>20
-----------------------------------------------------------------------------
(* The loop.                                                               *)

\* The conversation is kept, trims have put their markers in front, the mirror
\* shows those at least, and a turn makes it three messages longer at most.
CurationInv ==
    /\ batches \in 0..MaxBatches /\ notes \in 0..MaxNotes /\ mirrored \in Nat
    /\ stage \in {"top", "edit", "trim"}
    /\ Len(messages) + (IF stage = "edit" THEN 1 ELSE 0) <= 1 + notes + 3 * batches
    /\ \E t : /\ Kept(messages, t)
              /\ stage = "edit" => t <= mirrored /\ mirrored <= Len(messages)

LEMMA TextIsKept ==
  ASSUME NEW ms, NEW t, Kept(ms, t), NEW m \in SizedMsgs, m.kind = "text"
  PROVE  Kept(Append(ms, m), t) /\ Len(Append(ms, m)) = Len(ms) + 1 /\ Agrees(Append(ms, m), ms, t)
<1>1. /\ ms \in Talks /\ Len(ms) \in Nat /\ t \in Nat /\ 1 <= t /\ t <= Len(ms) /\ ms[1].kind = "text"
      /\ \A k \in 1..Len(ms) : ms[k].kind = "trimmed" <=> k \in 2..t
  BY TalksAre DEF Kept, MarkersTo
<1>2. PICK new : new = Append(ms, m)
  OBVIOUS
<1>3. /\ new \in Talks /\ Len(new) = Len(ms) + 1 /\ new[Len(ms) + 1] = m
      /\ \A k \in 1..Len(ms) : new[k] = ms[k]
  BY <1>1, <1>2, AppendProperties DEF Talks
<1>4. ASSUME NEW k \in 1..Len(new)
      PROVE  /\ new[k].kind = "trimmed" <=> k \in 2..t
             /\ Asks(new[k]) => k < Len(new) /\ Answers(new[k + 1], new[k])
             /\ new[k].kind = "result" => k > 1 /\ Answers(new[k], new[k - 1])
  <2>1. CASE k = Len(ms) + 1
    <3>1. ~(k \in 2..t)
      BY <1>1, <2>1
    <3> QED BY <1>3, <2>1, <3>1 DEF Asks
  <2>2. CASE k # Len(ms) + 1
    <3>1. k \in 1..Len(ms) /\ new[k] = ms[k]
      BY <1>1, <1>3, <2>2
    <3>2. /\ Asks(ms[k]) => k < Len(ms) /\ Answers(ms[k + 1], ms[k])
          /\ ms[k].kind = "result" => k > 1 /\ Answers(ms[k], ms[k - 1])
      BY <3>1 DEF Kept, pairs_intact
    <3>3. k < Len(ms) => new[k + 1] = ms[k + 1] /\ k < Len(new)
      BY <1>1, <1>3, <3>1
    <3>4. k > 1 => new[k - 1] = ms[k - 1]
      BY <1>1, <1>3, <3>1
    <3> QED BY <1>1, <3>1, <3>2, <3>3, <3>4
  <2> QED BY <2>1, <2>2
<1>5. new[1].kind = "text" /\ t \in 1..Len(new)
  <2>1. 1 \in 1..Len(ms)
    BY <1>1
  <2> QED BY <1>1, <1>3, <2>1
<1>6. Kept(new, t)
  BY <1>3, <1>4, <1>5 DEF Kept, MarkersTo, pairs_intact
<1>7. Agrees(new, ms, t)
  <2>1. ASSUME NEW j \in 1..t PROVE j <= Len(new) /\ new[j] = ms[j]
    <3>1. j \in 1..Len(ms)
      BY <1>1
    <3> QED BY <1>1, <1>3, <3>1
  <2> QED BY <2>1 DEF Agrees
<1> QED BY <1>2, <1>3, <1>6, <1>7

LEMMA AnswerIsKept ==
  ASSUME NEW ms, NEW t, Kept(ms, t), NEW a \in SizedMsgs, NEW b \in SizedMsgs, a.kind = "asst",
         (b.kind = "text" /\ ~Asks(a)) \/ Answers(b, a)
  PROVE  Kept(ms \o <<a, b>>, t) /\ Len(ms \o <<a, b>>) = Len(ms) + 2 /\ Agrees(ms \o <<a, b>>, ms, t)
<1>1. /\ ms \in Talks /\ Len(ms) \in Nat /\ t \in Nat /\ 1 <= t /\ t <= Len(ms) /\ ms[1].kind = "text"
      /\ \A k \in 1..Len(ms) : ms[k].kind = "trimmed" <=> k \in 2..t
  BY TalksAre DEF Kept, MarkersTo
<1>2. PICK new : new = ms \o <<a, b>>
  OBVIOUS
<1>3. /\ new \in Talks /\ Len(new) = Len(ms) + 2 /\ new[Len(ms) + 1] = a /\ new[Len(ms) + 2] = b
      /\ \A k \in 1..Len(ms) : new[k] = ms[k]
  <2>1. PICK two : two = <<a, b>>
    OBVIOUS
  <2>2. two \in Seq(SizedMsgs) /\ Len(two) = 2 /\ two[1] = a /\ two[2] = b /\ ms \in Seq(SizedMsgs)
    BY <1>1, <2>1 DEF Talks
  <2>3. /\ new \in Seq(SizedMsgs) /\ Len(new) = Len(ms) + Len(two)
        /\ \A k \in 1..Len(ms) + Len(two) : new[k] = IF k <= Len(ms) THEN ms[k] ELSE two[k - Len(ms)]
    BY <1>2, <2>1, <2>2, ConcatProperties
  <2>4. Len(new) = Len(ms) + 2 /\ \A k \in 1..Len(ms) : new[k] = ms[k]
    BY <1>1, <2>2, <2>3
  <2>5. new[Len(ms) + 1] = a
    <3>1. /\ Len(ms) + 1 \in 1..Len(ms) + Len(two) /\ ~(Len(ms) + 1 <= Len(ms))
          /\ (Len(ms) + 1) - Len(ms) = 1
      BY <1>1, <2>2
    <3> QED BY <2>2, <2>3, <3>1
  <2>6. new[Len(ms) + 2] = b
    <3>1. /\ Len(ms) + 2 \in 1..Len(ms) + Len(two) /\ ~(Len(ms) + 2 <= Len(ms))
          /\ (Len(ms) + 2) - Len(ms) = 2
      BY <1>1, <2>2
    <3> QED BY <2>2, <2>3, <3>1
  <2> QED BY <2>3, <2>4, <2>5, <2>6 DEF Talks
<1>4. ASSUME NEW k \in 1..Len(new)
      PROVE  /\ new[k].kind = "trimmed" <=> k \in 2..t
             /\ Asks(new[k]) => k < Len(new) /\ Answers(new[k + 1], new[k])
             /\ new[k].kind = "result" => k > 1 /\ Answers(new[k], new[k - 1])
  <2>0. k \in Nat /\ 1 <= k /\ k <= Len(ms) + 2
    BY <1>1, <1>3
  <2>1. CASE k = Len(ms) + 1
    <3>1. ~(k \in 2..t) /\ k < Len(new) /\ k + 1 = Len(ms) + 2
      BY <1>1, <1>3, <2>1
    <3>2. new[k] = a /\ new[k + 1] = b
      BY <1>3, <2>1, <3>1
    <3> QED BY <3>1, <3>2
  <2>2. CASE k = Len(ms) + 2
    <3>1. ~(k \in 2..t) /\ k > 1 /\ k - 1 = Len(ms) + 1
      BY <1>1, <2>2
    <3>2. new[k] = b /\ new[k - 1] = a
      BY <1>3, <2>2, <3>1
    <3>3. b.kind # "trimmed" /\ ~Asks(b) /\ (b.kind = "result" => Answers(b, a))
      BY DEF Answers, Asks
    <3> QED BY <3>1, <3>2, <3>3
  <2>3. CASE k <= Len(ms)
    <3>1. k \in 1..Len(ms) /\ new[k] = ms[k]
      BY <1>3, <2>0, <2>3
    <3>2. /\ Asks(ms[k]) => k < Len(ms) /\ Answers(ms[k + 1], ms[k])
          /\ ms[k].kind = "result" => k > 1 /\ Answers(ms[k], ms[k - 1])
      BY <3>1 DEF Kept, pairs_intact
    <3>3. k < Len(ms) => new[k + 1] = ms[k + 1] /\ k < Len(new)
      BY <1>1, <1>3, <3>1
    <3>4. k > 1 => new[k - 1] = ms[k - 1]
      BY <1>1, <1>3, <3>1
    <3> QED BY <1>1, <3>1, <3>2, <3>3, <3>4
  <2>4. k <= Len(ms) \/ k = Len(ms) + 1 \/ k = Len(ms) + 2
    BY <1>1, <2>0
  <2> QED BY <2>1, <2>2, <2>3, <2>4
<1>5. new[1].kind = "text" /\ t \in 1..Len(new)
  <2>1. 1 \in 1..Len(ms)
    BY <1>1
  <2> QED BY <1>1, <1>3, <2>1
<1>6. Kept(new, t)
  BY <1>3, <1>4, <1>5 DEF Kept, MarkersTo, pairs_intact
<1>7. Agrees(new, ms, t)
  <2>1. ASSUME NEW j \in 1..t PROVE j <= Len(new) /\ new[j] = ms[j]
    <3>1. j \in 1..Len(ms)
      BY <1>1
    <3> QED BY <1>1, <1>3, <3>1
  <2> QED BY <2>1 DEF Agrees
<1> QED BY <1>2, <1>3, <1>6, <1>7

\* What a step may make of the conversation.
Onward == \E t : Kept(messages, t) /\ Agrees(messages', messages, t)

LEMMA SizedIs ==
  ASSUME NEW kind \in {"text", "asst", "result"}, NEW id \in Nat, NEW size \in Nat
  PROVE  Sized(kind, id, size) \in SizedMsgs /\ Sized(kind, id, size).kind = kind
         /\ Sized(kind, id, size).id = id
BY DEF Sized, SizedMsgs

LEMMA CurationInitially == CurationInit => CurationInv
<1> SUFFICES ASSUME CurationInit PROVE CurationInv
  OBVIOUS
<1>1. PICK size \in Sizes : messages = <<Sized("text", 0, size)>>
  BY DEF CurationInit
<1>2. PICK m : m = Sized("text", 0, size)
  OBVIOUS
<1>3. m \in SizedMsgs /\ m.kind = "text"
  BY <1>1, <1>2, CurationConstants DEF Sized, SizedMsgs
<1>4. messages \in Talks /\ Len(messages) = 1 /\ messages[1] = m
  BY <1>1, <1>2, <1>3 DEF Talks
<1>5. PICK one : one = 1
  OBVIOUS
<1>6. Kept(messages, one)
  BY <1>3, <1>4, <1>5 DEF Kept, MarkersTo, pairs_intact, Asks
<1> QED BY <1>4, <1>6, CurationConstants DEF CurationInit, CurationInv

LEMMA NotesKeep == ASSUME CurationInv, Notes PROVE CurationInv' /\ Onward
<1>1. PICK t : Kept(messages, t)
  BY DEF CurationInv
<1>2. PICK size \in Sizes : messages' = Append(messages, Sized("text", 0, size))
  BY DEF Notes
<1>3. PICK m : m = Sized("text", 0, size)
  OBVIOUS
<1>4. m \in SizedMsgs /\ m.kind = "text"
  BY <1>2, <1>3, CurationConstants DEF Sized, SizedMsgs
<1>5. Kept(messages', t) /\ Len(messages') = Len(messages) + 1 /\ Agrees(messages', messages, t)
  BY <1>1, <1>2, <1>3, <1>4, TextIsKept
<1>6. /\ stage = "top" /\ stage' = "top" /\ notes' = notes + 1 /\ notes < MaxNotes
      /\ batches' = batches /\ mirrored' = mirrored
  BY DEF Notes
<1>7. /\ batches \in 0..MaxBatches /\ notes \in 0..MaxNotes /\ mirrored \in Nat
      /\ Len(messages) <= 1 + notes + 3 * batches /\ Len(messages) \in Nat
  <2>1. Len(messages) \in Nat
    BY <1>1, TalksAre DEF Kept
  <2> QED BY <1>6, <2>1 DEF CurationInv
<1>8. Len(messages') <= 1 + notes' + 3 * batches' /\ notes' \in 0..MaxNotes
  BY <1>5, <1>6, <1>7, CurationConstants
<1>9. CurationInv'
  BY <1>5, <1>6, <1>7, <1>8 DEF CurationInv
<1> QED BY <1>1, <1>5, <1>9 DEF Onward

LEMMA TurnsKeep == ASSUME CurationInv, Turn PROVE CurationInv' /\ Onward
<1>1. PICK t : Kept(messages, t)
  BY DEF CurationInv
<1>2. /\ stage = "top" /\ stage' = "edit" /\ batches' = batches + 1 /\ batches < MaxBatches
      /\ mirrored' = Len(messages) /\ notes' = notes
  BY DEF Turn
<1>3. /\ batches \in 0..MaxBatches /\ notes \in 0..MaxNotes
      /\ Len(messages) <= 1 + notes + 3 * batches /\ Len(messages) \in Nat
  <2>1. Len(messages) \in Nat
    BY <1>1, TalksAre DEF Kept
  <2> QED BY <1>2, <2>1 DEF CurationInv
<1>4. PICK asked \in {0, batches'}, said \in Sizes, got \in Sizes :
        messages' = messages \o << Sized("asst", asked, said),
                                   Sized(IF asked = 0 THEN "text" ELSE "result", asked, got) >>
  BY DEF Turn
<1>5. PICK a, b : a = Sized("asst", asked, said) /\ b = Sized(IF asked = 0 THEN "text" ELSE "result", asked, got)
  OBVIOUS
<1>6. asked \in Nat /\ said \in Nat /\ got \in Nat
  BY <1>2, <1>3, <1>4, CurationConstants
<1>7. a \in SizedMsgs /\ a.kind = "asst" /\ a.id = asked
  BY <1>5, <1>6 DEF Sized, SizedMsgs
<1>8. b \in SizedMsgs /\ b.id = asked /\ b.kind = IF asked = 0 THEN "text" ELSE "result"
  BY <1>5, <1>6 DEF Sized, SizedMsgs
<1>9. (b.kind = "text" /\ ~Asks(a)) \/ Answers(b, a)
  BY <1>7, <1>8 DEF Asks, Answers
<1>10. Kept(messages', t) /\ Len(messages') = Len(messages) + 2 /\ Agrees(messages', messages, t)
  BY <1>1, <1>4, <1>5, <1>7, <1>8, <1>9, AnswerIsKept
<1>11. t <= mirrored' /\ mirrored' <= Len(messages') /\ mirrored' \in Nat
  <2>1. t \in 1..Len(messages)
    BY <1>1 DEF Kept, MarkersTo
  <2> QED BY <1>2, <1>3, <1>10, <2>1
<1>12. Len(messages') + 1 <= 1 + notes' + 3 * batches' /\ batches' \in 0..MaxBatches
  BY <1>2, <1>3, <1>10, CurationConstants
<1>13. CurationInv'
  BY <1>2, <1>3, <1>10, <1>11, <1>12 DEF CurationInv
<1> QED BY <1>1, <1>10, <1>13 DEF Onward

LEMMA EditsKeep == ASSUME CurationInv, check_after_turn PROVE CurationInv' /\ Onward
<1>1. /\ stage = "edit" /\ stage' = "trim" /\ batches' = batches /\ notes' = notes /\ mirrored' = mirrored
  BY DEF check_after_turn
<1>2. PICK t : Kept(messages, t) /\ t <= mirrored /\ mirrored <= Len(messages)
  BY <1>1 DEF CurationInv
<1>3. /\ batches \in 0..MaxBatches /\ notes \in 0..MaxNotes /\ mirrored \in Nat
      /\ Len(messages) + 1 <= 1 + notes + 3 * batches /\ Len(messages) \in Nat
  <2>1. Len(messages) \in Nat
    BY <1>2, TalksAre DEF Kept
  <2> QED BY <1>1, <2>1 DEF CurationInv
<1>4. ASSUME NEW u, Kept(messages', u), Len(messages') <= Len(messages) + 1 PROVE CurationInv'
  <2>1. Len(messages') \in Nat
    BY <1>4, TalksAre DEF Kept
  <2>2. Len(messages') <= 1 + notes' + 3 * batches'
    BY <1>1, <1>3, <1>4, <2>1
  <2> QED BY <1>1, <1>3, <1>4, <2>2 DEF CurationInv
<1>5. CASE messages' = messages
  <2>1. Kept(messages', t) /\ Len(messages') <= Len(messages) + 1
    BY <1>2, <1>3, <1>5
  <2>2. Agrees(messages', messages, t)
    <3>1. t \in 1..Len(messages)
      BY <1>2 DEF Kept, MarkersTo
    <3> QED BY <1>3, <1>5, <3>1 DEF Agrees
  <2> QED BY <1>2, <1>4, <2>1, <2>2 DEF Onward
<1>6. CASE \E edit \in Edits : Accepted(assemble(edit)) /\ messages' = assemble(edit)
  <2>1. PICK edit \in Edits : Accepted(assemble(edit)) /\ messages' = assemble(edit)
    BY <1>6
  <2>2. /\ messages' \in Talks /\ MarkersTo(messages', t) /\ Agrees(messages', messages, t)
        /\ Len(messages') <= Len(messages)
    BY <1>2, <1>3, <2>1, AssembleIs
  <2>3. pairs_intact(messages')
    BY <2>1 DEF Accepted
  <2>4. messages'[1].kind = "text"
    <3>1. 1 \in 1..t
      BY <1>2 DEF Kept, MarkersTo
    <3>2. messages'[1] = messages[1]
      BY <2>2, <3>1 DEF Agrees
    <3> QED BY <1>2, <3>2 DEF Kept
  <2>5. Kept(messages', t)
    BY <2>2, <2>3, <2>4 DEF Kept
  <2>6. Len(messages') <= Len(messages) + 1
    <3>1. Len(messages') \in Nat
      BY <2>2, TalksAre
    <3> QED BY <1>3, <2>2, <3>1
  <2> QED BY <1>2, <1>4, <2>2, <2>5, <2>6 DEF Onward
<1>7. CASE messages' = Append(messages, Sized("text", 0, Shortest))
  <2>1. PICK m : m = Sized("text", 0, Shortest)
    OBVIOUS
  <2>2. m \in SizedMsgs /\ m.kind = "text"
    BY <2>1, ShortestIs DEF Sized, SizedMsgs
  <2>3. Kept(messages', t) /\ Len(messages') = Len(messages) + 1 /\ Agrees(messages', messages, t)
    BY <1>2, <1>7, <2>1, <2>2, TextIsKept
  <2>4. Len(messages') <= Len(messages) + 1
    BY <1>3, <2>3
  <2> QED BY <1>2, <1>4, <2>3, <2>4 DEF Onward
<1> QED BY <1>5, <1>6, <1>7 DEF check_after_turn

LEMMA TrimsKeep == ASSUME CurationInv, Trim PROVE CurationInv' /\ Onward
<1>1. /\ stage = "trim" /\ stage' = "top" /\ batches' = batches /\ notes' = notes /\ mirrored' = mirrored
      /\ messages' = transcript_trim(messages)
  BY DEF Trim
<1>2. PICK t : Kept(messages, t)
  BY DEF CurationInv
<1>3. /\ batches \in 0..MaxBatches /\ notes \in 0..MaxNotes /\ mirrored \in Nat
      /\ Len(messages) <= 1 + notes + 3 * batches /\ Len(messages) \in Nat
  <2>1. Len(messages) \in Nat
    BY <1>2, TalksAre DEF Kept
  <2> QED BY <1>1, <2>1 DEF CurationInv
<1>4. (\E u : Kept(messages', u)) /\ Agrees(messages', messages, t)
  BY <1>1, <1>2, TrimIs
<1>5. Len(messages') <= Len(messages)
  <2>1. CASE messages' = messages
    BY <1>3, <2>1
  <2>2. CASE messages' # messages
    <3>1. PICK window, p : Ended(messages, t, window, p, messages')
      BY <1>1, <1>2, <2>2, PassEnds
    <3>2. /\ window \in Nat /\ Len(p.out) \in Nat /\ Len(p.out) < window + 1
          /\ Len(messages') = Len(p.out) + (Len(messages) - window)
      BY <3>1 DEF Ended, Weighs
    <3> QED BY <1>3, <3>2
  <2> QED BY <2>1, <2>2
<1>6. Len(messages') <= 1 + notes' + 3 * batches'
  <2>1. Len(messages') \in Nat
    BY <1>4, TalksAre DEF Kept
  <2> QED BY <1>1, <1>3, <1>5, <2>1
<1>7. CurationInv'
  BY <1>1, <1>3, <1>4, <1>6 DEF CurationInv
<1> QED BY <1>2, <1>4, <1>7 DEF Onward

LEMMA CurationStep == ASSUME CurationInv, [CurationNext]_curationVars PROVE CurationInv'
<1>1. CASE UNCHANGED curationVars
  BY <1>1 DEF CurationInv, Kept, MarkersTo, curationVars
<1> QED BY <1>1, NotesKeep, TurnsKeep, EditsKeep, TrimsKeep DEF CurationNext

LEMMA MarkersStay ==
  ASSUME CurationInv, CurationNext, NEW i \in DOMAIN messages, messages[i].kind = "trimmed"
  PROVE  i <= Len(messages') /\ SubSeq(messages', 1, i) = SubSeq(messages, 1, i)
<1>1. Onward
  BY NotesKeep, TurnsKeep, EditsKeep, TrimsKeep DEF CurationNext
<1>2. PICK t : Kept(messages, t) /\ Agrees(messages', messages, t)
  BY <1>1 DEF Onward
<1>3. messages \in Talks /\ Len(messages) \in Nat /\ DOMAIN messages = 1..Len(messages)
  BY <1>2, TalksAre DEF Kept, Talks
<1>4. i \in 2..t /\ t \in 1..Len(messages)
  BY <1>2, <1>3 DEF Kept, MarkersTo
<1>5. \A j \in 1..i : messages'[j] = messages[j]
  <2> TAKE j \in 1..i
  <2>1. j \in 1..t
    BY <1>3, <1>4
  <2> QED BY <1>2, <2>1 DEF Agrees
<1>6. i <= Len(messages')
  <2>1. i \in 1..t
    BY <1>3, <1>4
  <2> QED BY <1>2, <2>1 DEF Agrees
<1>7. SubSeq(messages', 1, i) = SubSeq(messages, 1, i)
  <2>1. i \in Nat
    BY <1>3
  <2>2. ASSUME NEW z
        PROVE  SubSeq(z, 1, i) = [j \in 1..i |-> z[j]]
    BY <2>1
  <2> QED BY <1>5, <2>2
<1> QED BY <1>6, <1>7

LEMMA CutsWhole == ASSUME RoundingIsSmall, CurationInv PROVE CutsAreWhole
<1>1. PICK t : Kept(messages, t)
  BY DEF CurationInv
<1>2. pairs_intact(messages) /\ messages \in Talks /\ Len(messages) \in Nat
  BY <1>1, TalksAre DEF Kept
<1>3. pairs_intact(transcript_trim(messages))
  BY <1>1, TrimIs DEF Kept
<1>4. NotTooLong(messages)
  <2>1. Len(messages) <= 1 + notes + 3 * batches
    <3>1. Len(messages) + (IF stage = "edit" THEN 1 ELSE 0) <= 1 + notes + 3 * batches
      BY DEF CurationInv
    <3>2. batches \in Nat /\ notes \in Nat
      BY DEF CurationInv
    <3> QED BY <1>2, <3>1, <3>2
  <2>2. batches \in Nat /\ batches <= MaxBatches /\ notes \in Nat /\ notes <= MaxNotes
    BY DEF CurationInv
  <2> QED BY <1>2, <2>1, <2>2, CurationConstants DEF NotTooLong
<1>5. transcript_trim(transcript_trim(messages)) = transcript_trim(messages)
  BY <1>1, <1>4, TrimTwice
<1> QED BY <1>2, <1>3, <1>5 DEF CutsAreWhole
=============================================================================
