-------------------------- MODULE DioReceiverProofs --------------------------
(***************************************************************************)
(* The receiver of the digital link, for any word, polynomial, payload,    *)
(* queue and burst size: a frame whose bits all arrive is delivered, every *)
(* frame the receiver completes is counted once, and without noise nothing *)
(* is blamed on the cable.  And the simulated link, for any delays, losses *)
(* and limits: the simulator keeps step with the firmware, a limiter tells *)
(* of all it held back, lost frames are no errors, and the level settles.  *)
(***************************************************************************)
EXTENDS DioReceiver, SimDio, FiniteSetTheorems, SequenceTheorems, WellFoundedInduction, TLAPS

-----------------------------------------------------------------------------
(* What is computed bit by bit, or word by word.                           *)

LEMMA Sizes ==
    /\ WordBits \in Nat /\ WordBits >= 1 /\ MaxPayload \in Nat /\ MaxPayload >= 1
    /\ Poly \in Word
    /\ QueueDepth \in Nat /\ QueueDepth >= 1
    /\ MaxBursts \in Nat /\ MaxFaults \in Nat
BY WordAssumption, LinkAssumption

LEMMA WordSize == WordBits \in Nat /\ WordBits >= 1 /\ 0 \in 0 .. WordBits
BY WordAssumption

LEMMA Induct ==
    ASSUME NEW k \in Nat, NEW S, 0 \in S, \A i \in 1 .. k : i - 1 \in S => i \in S
    PROVE  0 .. k \subseteq S
<1> SUFFICES ASSUME ~(0 .. k \subseteq S) PROVE FALSE
    OBVIOUS
<1> DEFINE bad == {i \in 0 .. k : i \notin S}
<1>1. bad \subseteq Nat /\ bad # {}
    OBVIOUS
<1>2. PICK i \in bad : \A j \in bad : ~(<<j, i>> \in OpToRel(<, Nat))
  <2> HIDE DEF bad
  <2> QED BY <1>1, WFMin, NatLessThanWellFounded
<1>3. i \in 0 .. k /\ i \notin S /\ i # 0
    OBVIOUS
<1>4. i \in 1 .. k /\ i - 1 \in 0 .. k
    BY <1>3
<1>5. i - 1 \in bad
    BY <1>3, <1>4
<1>6. <<i - 1, i>> \in OpToRel(<, Nat)
    BY <1>4 DEF OpToRel
<1> QED BY <1>2, <1>5, <1>6

\* Steps that lead from D to D, done one after the other, stay in D.
Steps(k, D) == [1 .. k -> [D -> D]]

Unfolded(g, k, D, s, step) ==
    /\ g \in [0 .. k -> D] /\ g[0] = s
    /\ \A i \in 1 .. k : g[i] = step[i][g[i - 1]]

LEMMA Unfold ==
    ASSUME NEW k \in Nat, NEW D, NEW s \in D, NEW step \in Steps(k, D)
    PROVE  \E g : Unfolded(g, k, D, s, step)
<1> USE DEF Steps
<1> DEFINE Done(g, j) == Unfolded(g, j, D, s, step)
           S == {j \in 0 .. k : \E g : Done(g, j)}
<1>1. 0 \in S
  <2>1. Done([i \in 0 .. 0 |-> s], 0)
      BY DEF Unfolded
  <2> HIDE DEF Done
  <2> QED BY <2>1
<1>2. ASSUME NEW j \in 1 .. k, j - 1 \in S PROVE j \in S
  <2>1. PICK g : Done(g, j - 1)
      BY <1>2
  <2> DEFINE h == [i \in 0 .. j |-> IF i = j THEN step[j][g[j - 1]] ELSE g[i]]
  <2>2. step[j] \in [D -> D] /\ g[j - 1] \in D /\ step[j][g[j - 1]] \in D
    <3>1. step[j] \in [D -> D] /\ j - 1 \in 0 .. j - 1
        OBVIOUS
    <3> QED BY <2>1, <3>1 DEF Unfolded
  <2>3. h \in [0 .. j -> D] /\ h[0] = s
      BY <2>1, <2>2 DEF Unfolded
  <2>4. ASSUME NEW i \in 1 .. j PROVE h[i] = step[i][h[i - 1]]
    <3>1. h[i - 1] = g[i - 1] /\ (i # j => h[i] = g[i]) /\ (i = j => h[i] = step[j][g[j - 1]])
        OBVIOUS
    <3> HIDE DEF h
    <3>2. CASE i = j
        BY <3>1, <3>2
    <3>3. CASE i # j
      <4>1. i \in 1 .. j - 1
          BY <3>3
      <4> QED BY <2>1, <3>1, <3>3, <4>1 DEF Unfolded
    <3> QED BY <3>2, <3>3
  <2>5. Done(h, j)
      BY <2>3, <2>4 DEF Unfolded
  <2> HIDE DEF Done, h
  <2> QED BY <2>5
<1>3. k \in S
  <2> HIDE DEF S
  <2>1. 0 .. k \subseteq S
      BY <1>1, <1>2, Induct
  <2> QED BY <2>1
<1> QED BY <1>3

\* How many values the first bits of a word have.
Powers(g) == g = [i \in 0 .. WordBits |-> IF i = 0 THEN 1 ELSE 2 * g[i - 1]]

LEMMA PowersExist == \E g : Powers(g)
<1> DEFINE D == Nat \ {0}
           step == [i \in 1 .. WordBits |-> [a \in D |-> 2 * a]]
<1>1. step \in Steps(WordBits, D) /\ 1 \in D /\ \A a \in D : 2 * a \in D
    BY DEF Steps
<1>2. \A i \in 1 .. WordBits : \A a \in D : step[i][a] = 2 * a
    OBVIOUS
<1> HIDE DEF step, D
<1>3. PICK f : Unfolded(f, WordBits, D, 1, step)
    BY <1>1, Unfold, WordSize
<1>4. ASSUME NEW i \in 1 .. WordBits PROVE f[i] = 2 * f[i - 1]
  <2>1. f[i - 1] \in D
      BY <1>3, WordSize DEF Unfolded
  <2> QED BY <1>2, <1>3, <2>1 DEF Unfolded
<1>5. Powers(f)
    BY <1>3, <1>4, WordSize DEF Powers, Unfolded
<1> QED BY <1>5

LEMMA PowersUnfold ==
    ASSUME NEW g, Powers(g)
    PROVE  /\ g \in [0 .. WordBits -> Nat] /\ g[0] = 1
           /\ \A i \in 1 .. WordBits : g[i] = 2 * g[i - 1]
           /\ g[WordBits] >= 1
<1>1. /\ DOMAIN g = 0 .. WordBits /\ g = [i \in DOMAIN g |-> g[i]]
      /\ g[0] = 1
    BY WordSize DEF Powers
<1>2. \A i \in 1 .. WordBits : g[i] = 2 * g[i - 1]
    BY WordSize DEF Powers
<1> DEFINE S == {i \in 0 .. WordBits : g[i] \in Nat /\ g[i] >= 1}
<1>3. 0 \in S
    BY <1>1, WordSize
<1>4. \A i \in 1 .. WordBits : i - 1 \in S => i \in S
    BY <1>2, WordSize
<1>5. 0 .. WordBits \subseteq S
  <2> HIDE DEF S
  <2> QED BY <1>3, <1>4, Induct, WordSize
<1>6. \A i \in 0 .. WordBits : g[i] \in Nat /\ g[i] >= 1
    BY <1>5
<1>7. WordBits \in 0 .. WordBits
    BY WordSize
<1> QED BY <1>1, <1>2, <1>6, <1>7

LEMMA ValuesUnfold == \E g : Powers(g) /\ Values = g[WordBits]
<1> DEFINE P == CHOOSE g : Powers(g)
<1>1. Powers(P)
    BY PowersExist
<1>2. Values = P[WordBits]
    BY DEF Values, Powers
<1> QED BY <1>1, <1>2

LEMMA ValuesType == Values \in Nat /\ Values >= 1
<1>1. PICK g : Powers(g) /\ Values = g[WordBits]
    BY ValuesUnfold
<1>2. g \in [0 .. WordBits -> Nat] /\ g[WordBits] >= 1 /\ WordBits \in 0 .. WordBits
    BY <1>1, PowersUnfold, WordSize
<1> QED BY <1>1, <1>2

\* What the first k bits of w come to, one after the other.
Summed(g, w, k) == g = [i \in 0 .. k |-> IF i = 0 THEN 0 ELSE 2 * g[i - 1] + w[i]]

Sums(g, w, k) ==
    /\ g \in [0 .. k -> Nat] /\ g[0] = 0
    /\ \A i \in 1 .. k : g[i] = 2 * g[i - 1] + w[i]

LEMMA SumsExist ==
    ASSUME NEW k \in Nat, NEW w \in [1 .. k -> {0, 1}]
    PROVE  \E g : Summed(g, w, k)
<1> DEFINE step == [i \in 1 .. k |-> [a \in Nat |-> 2 * a + w[i]]]
<1>1. step \in Steps(k, Nat) /\ 0 \in Nat
    BY DEF Steps
<1>2. \A i \in 1 .. k : \A a \in Nat : step[i][a] = 2 * a + w[i]
    OBVIOUS
<1> HIDE DEF step
<1>3. PICK f : Unfolded(f, k, Nat, 0, step)
    BY <1>1, Unfold
<1>4. ASSUME NEW i \in 1 .. k PROVE f[i] = 2 * f[i - 1] + w[i]
  <2>1. f[i - 1] \in Nat
      BY <1>3 DEF Unfolded
  <2> QED BY <1>2, <1>3, <2>1 DEF Unfolded
<1>5. Summed(f, w, k)
    BY <1>3, <1>4 DEF Summed, Unfolded
<1> QED BY <1>5

LEMMA SumsUnfold ==
    ASSUME NEW k \in Nat, NEW w \in [1 .. k -> {0, 1}], NEW g, Summed(g, w, k)
    PROVE  Sums(g, w, k)
<1>1. /\ DOMAIN g = 0 .. k /\ g = [i \in DOMAIN g |-> g[i]]
      /\ g[0] = 0
    BY DEF Summed
<1>2. \A i \in 1 .. k : g[i] = 2 * g[i - 1] + w[i]
    BY DEF Summed
<1> DEFINE S == {i \in 0 .. k : g[i] \in Nat}
<1>3. 0 \in S
    BY <1>1
<1>4. \A i \in 1 .. k : i - 1 \in S => i \in S
    BY <1>2
<1>5. 0 .. k \subseteq S
  <2> HIDE DEF S
  <2> QED BY <1>3, <1>4, Induct
<1>6. \A i \in 0 .. k : g[i] \in Nat
    BY <1>5
<1> QED BY <1>1, <1>2, <1>6 DEF Sums

LEMMA ValueUnfolds ==
    ASSUME NEW w \in Word
    PROVE  \E g : Sums(g, w, WordBits) /\ Value(w) = g[WordBits]
<1> DEFINE V == CHOOSE g : Summed(g, w, WordBits)
<1>1. w \in [1 .. WordBits -> {0, 1}] /\ WordBits \in Nat
    BY WordSize DEF Word
<1>2. Summed(V, w, WordBits)
    BY <1>1, SumsExist
<1>3. Value(w) = V[WordBits]
    BY DEF Value, Summed
<1> HIDE DEF V
<1>4. Sums(V, w, WordBits)
    BY <1>1, <1>2, SumsUnfold
<1> QED BY <1>3, <1>4

LEMMA ValueType == ASSUME NEW w \in Word PROVE Value(w) \in Nat
<1>1. PICK g : Sums(g, w, WordBits) /\ Value(w) = g[WordBits]
    BY ValueUnfolds
<1> QED BY <1>1, WordSize DEF Sums

\* They come to one thing only.
LEMMA SumsUnique ==
    ASSUME NEW k \in Nat, NEW w, NEW g, NEW h, Sums(g, w, k), Sums(h, w, k)
    PROVE  g[k] = h[k]
<1> DEFINE S == {i \in 0 .. k : g[i] = h[i]}
<1>1. 0 \in S
    BY DEF Sums
<1>2. \A i \in 1 .. k : i - 1 \in S => i \in S
    BY DEF Sums
<1> HIDE DEF S
<1>3. 0 .. k \subseteq S
    BY <1>1, <1>2, Induct
<1> QED BY <1>3 DEF S

LEMMA Halved ==
    ASSUME NEW m \in Nat
    PROVE  \E q \in Nat, b \in {0, 1} : m = 2 * q + b
<1>1. m \div 2 \in Nat /\ (m % 2) \in {0, 1} /\ m = 2 * (m \div 2) + (m % 2)
    OBVIOUS
<1> QED BY <1>1

\* Every number below Values is the value of a word.
LEMMA WordOf ==
    ASSUME NEW m \in 0 .. Values - 1
    PROVE  \E w \in Word : Value(w) = m
<1>1. PICK p : /\ p \in [0 .. WordBits -> Nat]
               /\ p[0] = 1 /\ \A i \in 1 .. WordBits : p[i] = 2 * p[i - 1]
               /\ Values = p[WordBits]
    BY ValuesUnfold, PowersUnfold
<1> DEFINE Reach(k, n) == \E w \in [1 .. k -> {0, 1}] : \E g : Sums(g, w, k) /\ g[k] = n
           S == {k \in 0 .. WordBits : \A n \in 0 .. p[k] - 1 : Reach(k, n)}
<1>2. 0 \in S
  <2> DEFINE w == [i \in 1 .. 0 |-> 0]
             g == [i \in 0 .. 0 |-> 0]
  <2>1. w \in [1 .. 0 -> {0, 1}] /\ Sums(g, w, 0) /\ g[0] = 0
      BY DEF Sums
  <2>2. Reach(0, 0)
      BY <2>1
  <2> HIDE DEF Reach
  <2>3. \A n \in 0 .. p[0] - 1 : n = 0
      BY <1>1
  <2> QED BY <2>2, <2>3, WordSize
<1>3. ASSUME NEW k \in 1 .. WordBits, k - 1 \in S PROVE k \in S
  <2>1. ASSUME NEW n \in 0 .. p[k] - 1 PROVE Reach(k, n)
    <3>0. k - 1 \in 0 .. WordBits /\ k \in 0 .. WordBits
        BY WordSize
    <3>a. p[k - 1] \in Nat /\ p[k] = 2 * p[k - 1] /\ n \in Nat /\ n < p[k]
        BY <1>1, <3>0
    <3>1. PICK q \in Nat, b \in {0, 1} : n = 2 * q + b
        BY <3>a, Halved
    <3>2. q \in 0 .. p[k - 1] - 1
        BY <3>a, <3>1
    <3>b. PICK w \in [1 .. k - 1 -> {0, 1}] : \E g : Sums(g, w, k - 1) /\ g[k - 1] = q
        BY <1>3, <3>2
    <3>3. PICK g : Sums(g, w, k - 1) /\ g[k - 1] = q
        BY <3>b
    <3> DEFINE w2 == [i \in 1 .. k |-> IF i = k THEN b ELSE w[i]]
               g2 == [i \in 0 .. k |-> IF i = k THEN n ELSE g[i]]
    <3>4. w2 \in [1 .. k -> {0, 1}]
        OBVIOUS
    <3>5. g2 \in [0 .. k -> Nat] /\ g2[0] = 0 /\ g2[k] = n
        BY <3>3 DEF Sums
    <3>6. ASSUME NEW i \in 1 .. k PROVE g2[i] = 2 * g2[i - 1] + w2[i]
      <4>1. /\ g2[i - 1] = g[i - 1] /\ (i # k => g2[i] = g[i] /\ w2[i] = w[i])
            /\ (i = k => g2[i] = n /\ w2[i] = b)
          OBVIOUS
      <4> HIDE DEF g2, w2
      <4>2. i # k => i \in 1 .. k - 1
          OBVIOUS
      <4> QED BY <3>1, <3>3, <4>1, <4>2 DEF Sums
    <3>7. Sums(g2, w2, k)
        BY <3>5, <3>6 DEF Sums
    <3> HIDE DEF g2, w2
    <3> QED BY <3>4, <3>5, <3>7
  <2> HIDE DEF Reach
  <2> QED BY <2>1
<1>4. WordBits \in S
  <2> HIDE DEF S
  <2>1. 0 .. WordBits \subseteq S
      BY <1>2, <1>3, Induct, WordSize
  <2> QED BY <2>1, WordSize
<1>a. PICK w \in Word : \E g : Sums(g, w, WordBits) /\ g[WordBits] = m
    BY <1>1, <1>4 DEF Word
<1>5. PICK g : Sums(g, w, WordBits) /\ g[WordBits] = m
    BY <1>a
<1>6. Value(w) = m
    BY <1>5, ValueUnfolds, SumsUnique, WordSize
<1> QED BY <1>6

\* So that the low bits of a number are in the word made of it.
LEMMA ToWordLaws ==
    ASSUME NEW n \in Nat
    PROVE  /\ ToWord(n) \in Word
           /\ Value(ToWord(n)) = n % Values
           /\ n < Values => Value(ToWord(n)) = n
<1>1. n % Values \in 0 .. Values - 1 /\ (n < Values => n % Values = n)
    BY ValuesType
<1>2. \E w \in Word : Value(w) = n % Values
    BY <1>1, WordOf
<1> QED BY <1>1, <1>2 DEF ToWord

-----------------------------------------------------------------------------
(* The checksum, and the bits of a frame.                                  *)

LEMMA Bits ==
    /\ \A a, b \in Int : (a + b) % 2 \in {0, 1}
    /\ \A a, b \in {0, 1} : a * b \in {0, 1}
OBVIOUS

LEMMA CrcType ==
    ASSUME NEW c \in Word, NEW w \in Word
    PROVE  Crc(c, w) \in Word
<1> DEFINE Is(g) == g = [i \in 0 .. WordBits |->
                            IF i = 0 THEN Added(c, w) ELSE Divided(g[i - 1])]
           C == CHOOSE g : Is(g)
           step == [i \in 1 .. WordBits |-> [a \in Word |-> Divided(a)]]
<1>1. Added(c, w) \in Word
    BY Bits DEF Added, Word
<1>2. ASSUME NEW a \in Word PROVE Divided(a) \in Word
  <2>1. \A j \in 1 .. WordBits : j < WordBits => j + 1 \in 1 .. WordBits
      BY WordSize
  <2>2. ASSUME NEW j \in 1 .. WordBits
        PROVE  ((IF j < WordBits THEN a[j + 1] ELSE 0) + (a[1] * Poly[j])) % 2 \in {0, 1}
    <3> DEFINE x == IF j < WordBits THEN a[j + 1] ELSE 0
               y == a[1] * Poly[j]
    <3>1. x \in {0, 1}
        BY <2>1 DEF Word
    <3>2. a[1] \in {0, 1} /\ Poly[j] \in {0, 1}
        BY WordSize, WordAssumption DEF Word
    <3>3. y \in {0, 1}
        BY <3>2, Bits
    <3> HIDE DEF x, y
    <3>4. (x + y) % 2 \in {0, 1}
        BY <3>1, <3>3
    <3> QED BY <3>4 DEF x, y
  <2> QED BY <2>2 DEF Divided, Word
<1>3. step \in Steps(WordBits, Word)
    BY <1>2 DEF Steps
<1>4. \A i \in 1 .. WordBits : \A a \in Word : step[i][a] = Divided(a)
    OBVIOUS
<1> HIDE DEF step
<1>5. PICK f : Unfolded(f, WordBits, Word, Added(c, w), step)
    BY <1>1, <1>3, Unfold, WordSize
<1>6. Is(f)
  <2>1. ASSUME NEW i \in 1 .. WordBits PROVE f[i] = Divided(f[i - 1])
    <3>1. f[i - 1] \in Word
        BY <1>5, WordSize DEF Unfolded
    <3> QED BY <1>4, <1>5, <3>1 DEF Unfolded
  <2> QED BY <1>5, <2>1, WordSize DEF Unfolded
<1>7. Is(C)
    BY <1>6
<1>8. Crc(c, w) = C[WordBits]
    BY DEF Crc
<1> HIDE DEF C
<1>9. C[0] = Added(c, w) /\ \A i \in 1 .. WordBits : C[i] = Divided(C[i - 1])
  <2> DEFINE a == Added(c, w)
  <2>1. \A i \in 0 .. WordBits : C[i] = IF i = 0 THEN a ELSE Divided(C[i - 1])
      BY <1>7
  <2> HIDE DEF a
  <2>2. C[0] = a
      BY <2>1, WordSize
  <2>3. \A i \in 1 .. WordBits : C[i] = Divided(C[i - 1])
      BY <2>1, WordSize
  <2> QED BY <2>2, <2>3 DEF a
<1> HIDE DEF Is
<1> DEFINE S == {i \in 0 .. WordBits : C[i] \in Word}
<1>10. 0 \in S
    BY <1>1, <1>9, WordSize
<1>11. \A i \in 1 .. WordBits : i - 1 \in S => i \in S
    BY <1>2, <1>9, WordSize
<1>12. 0 .. WordBits \subseteq S
  <2> HIDE DEF S
  <2> QED BY <1>10, <1>11, Induct, WordSize
<1> QED BY <1>8, <1>12, WordSize

LEMMA Constants == Zero \in Word /\ Sync \in Word /\ Sync[1] = 1
<1>1. \A i \in 1 .. WordBits : i % 2 \in {0, 1}
    OBVIOUS
<1> QED BY <1>1, WordSize DEF Zero, Sync, Word

\* The checksum of the first words of a sequence, one after the other.
Running(g, words) ==
    g = [i \in 0 .. Len(words) |-> IF i = 0 THEN Zero ELSE Crc(g[i - 1], words[i])]
Sum(words) == CHOOSE g : Running(g, words)

LEMMA SumUnfolds ==
    ASSUME NEW words \in Seq(Word)
    PROVE  /\ Checksum(words) = Sum(words)[Len(words)]
           /\ Sum(words)[0] = Zero
           /\ \A i \in 1 .. Len(words) : Sum(words)[i] = Crc(Sum(words)[i - 1], words[i])
           /\ \A i \in 0 .. Len(words) : Sum(words)[i] \in Word
<1> DEFINE k == Len(words)
           C == Sum(words)
           step == [i \in 1 .. k |-> [a \in Word |-> Crc(a, words[i])]]
<1>1. k \in Nat /\ \A i \in 1 .. k : words[i] \in Word
    OBVIOUS
<1>2. step \in Steps(k, Word)
    BY <1>1, CrcType DEF Steps
<1>3. \A i \in 1 .. k : \A a \in Word : step[i][a] = Crc(a, words[i])
    OBVIOUS
<1> HIDE DEF step
<1>4. PICK f : Unfolded(f, k, Word, Zero, step)
    BY <1>1, <1>2, Unfold, Constants
<1>5. Running(f, words)
  <2>1. ASSUME NEW i \in 1 .. k PROVE f[i] = Crc(f[i - 1], words[i])
    <3>1. f[i - 1] \in Word
        BY <1>1, <1>4 DEF Unfolded
    <3> QED BY <1>3, <1>4, <3>1 DEF Unfolded
  <2> QED BY <1>1, <1>4, <2>1 DEF Unfolded, Running
<1>6. Running(C, words)
    BY <1>5 DEF Sum
<1>7. Checksum(words) = C[k]
    BY DEF Checksum, Running, Sum
<1> HIDE DEF C, k
<1>8. C[0] = Zero /\ \A i \in 1 .. k : C[i] = Crc(C[i - 1], words[i])
    BY <1>1, <1>6 DEF Running, k
<1> DEFINE S == {i \in 0 .. k : C[i] \in Word}
<1>9. 0 \in S
    BY <1>1, <1>8, Constants
<1>10. \A i \in 1 .. k : i - 1 \in S => i \in S
    BY <1>1, <1>8, CrcType
<1>11. 0 .. k \subseteq S
  <2> HIDE DEF S
  <2> QED BY <1>1, <1>9, <1>10, Induct
<1> QED BY <1>7, <1>8, <1>11 DEF C, k

\* Those that have a payload.
Frames == {k \in Nat : Body(k) \in Seq(Word) /\ Len(Body(k)) < MaxPayload}
Size(k) == Len(TestPayload(k))
Frame(k) == FrameWords(TestPayload(k))
Covered(k) == <<ToWord(Size(k))>> \o TestPayload(k)   \* by the checksum

LEMMA FramesNat ==
    /\ Frames \subseteq Nat
    /\ MaxBursts * BurstFrames \in Nat /\ 0 .. MaxBursts * BurstFrames \subseteq Frames
BY LinkAssumption, ValuesType DEF Frames

LEMMA PayloadType ==
    ASSUME NEW k \in Frames
    PROVE  /\ TestPayload(k) \in Seq(Word) /\ Size(k) \in 1 .. MaxPayload
           /\ TestPayload(k)[1] = ToWord(k)
<1>1. Body(k) \in Seq(Word) /\ Len(Body(k)) < MaxPayload
    BY DEF Frames
<1>2. ToWord(k) \in Word
    BY FramesNat, ToWordLaws
<1> QED BY <1>1, <1>2, Sizes DEF TestPayload, Size

LEMMA CoveredWords ==
    ASSUME NEW k \in Frames
    PROVE  /\ Covered(k) \in Seq(Word) /\ Len(Covered(k)) = Size(k) + 1
           /\ ToWord(Size(k)) \in Word
           /\ Covered(k)[1] = ToWord(Size(k))
           /\ \A i \in 1 .. Size(k) : Covered(k)[i + 1] = TestPayload(k)[i]
<1>1. Size(k) \in Nat
    BY PayloadType, Sizes
<1>2. ToWord(Size(k)) \in Word
    BY <1>1, ToWordLaws
<1> QED BY <1>1, <1>2, PayloadType DEF Covered, Size

\* What the words of a frame are.
LEMMA FrameLayout ==
    ASSUME NEW k \in Frames
    PROVE  /\ Frame(k) \in Seq(Word) /\ Len(Frame(k)) = Size(k) + 3
           /\ Frame(k)[1] = Sync /\ Frame(k)[2] = ToWord(Size(k))
           /\ \A i \in 1 .. Size(k) : Frame(k)[i + 2] = TestPayload(k)[i]
           /\ Frame(k)[Size(k) + 3] = Sum(Covered(k))[Size(k) + 1]
<1> DEFINE n == Size(k)
           c == Covered(k)
           crc == Checksum(c)
<1>1. n \in Nat /\ c \in Seq(Word) /\ Len(c) = n + 1 /\ c[1] = ToWord(n)
      /\ \A i \in 1 .. n : c[i + 1] = TestPayload(k)[i]
  <2>1. n \in Nat
      BY PayloadType, Sizes
  <2> QED BY <2>1, CoveredWords
<1>2. crc = Sum(c)[n + 1] /\ crc \in Word
    BY <1>1, SumUnfolds
<1>3. Frame(k) = <<Sync>> \o c \o <<crc>>
    BY DEF Frame, FrameWords, Covered, Size
<1> HIDE DEF n, c, crc
<1>4. /\ <<Sync>> \o c \in Seq(Word) /\ Len(<<Sync>> \o c) = n + 2
      /\ (<<Sync>> \o c)[1] = Sync
      /\ \A i \in 1 .. n + 1 : (<<Sync>> \o c)[i + 1] = c[i]
    BY <1>1, Constants
<1>5. /\ Frame(k) \in Seq(Word) /\ Len(Frame(k)) = n + 3
      /\ \A i \in 1 .. n + 2 : Frame(k)[i] = (<<Sync>> \o c)[i]
      /\ Frame(k)[n + 3] = crc
  <2> DEFINE h == <<Sync>> \o c
  <2>1. h \in Seq(Word) /\ Len(h) = n + 2 /\ Frame(k) = h \o <<crc>>
      BY <1>3, <1>4
  <2> HIDE DEF h
  <2>2. /\ h \o <<crc>> \in Seq(Word) /\ Len(h \o <<crc>>) = n + 3
        /\ \A i \in 1 .. n + 2 : (h \o <<crc>>)[i] = h[i]
        /\ (h \o <<crc>>)[n + 3] = crc
      BY <1>1, <1>2, <2>1
  <2> QED BY <2>1, <2>2 DEF h
<1>6. Frame(k)[1] = Sync /\ Frame(k)[2] = ToWord(n)
    BY SMTT(30), <1>1, <1>4, <1>5
<1>7. ASSUME NEW i \in 1 .. n PROVE Frame(k)[i + 2] = TestPayload(k)[i]
  <2>1. i + 1 \in 1 .. n + 1 /\ i + 2 \in 1 .. n + 2 /\ (i + 1) + 1 = i + 2
      BY <1>1
  <2>2. Frame(k)[i + 2] = (<<Sync>> \o c)[i + 2]
      BY <1>5, <2>1
  <2>3. (<<Sync>> \o c)[(i + 1) + 1] = c[i + 1]
      BY <1>4, <2>1
  <2> QED BY <1>1, <2>1, <2>2, <2>3
<1> QED BY <1>2, <1>5, <1>6, <1>7 DEF n, c

LEMMA Division ==
    ASSUME NEW R \in Nat, R >= 1, NEW i \in Nat
    PROVE  /\ i \div R \in Nat /\ i % R \in 0 .. R - 1
           /\ i = R * (i \div R) + (i % R)
OBVIOUS

LEMMA DivMod ==
    ASSUME NEW R \in Nat, R >= 1, NEW q \in Nat, NEW r \in 0 .. R - 1
    PROVE  (R * q + r) \div R = q /\ (R * q + r) % R = r
OBVIOUS

LEMMA Grows ==
    ASSUME NEW R \in Nat, NEW a \in Nat, NEW b \in Nat, a <= b
    PROVE  R * a <= R * b /\ R * a \in Nat /\ R * (a + 1) = R * a + R
OBVIOUS

\* Bit r of word q, both counted from zero.
LEMMA FrameBit ==
    ASSUME NEW k \in Frames
    PROVE  /\ FrameBits(k) \in Seq({0, 1})
           /\ Len(FrameBits(k)) = WordBits * (Size(k) + 3)
           /\ WordBits * (Size(k) + 3) \in Nat
           /\ \A q \in 0 .. Size(k) + 2 : \A r \in 0 .. WordBits - 1 :
                 /\ WordBits * q + r + 1 \in 1 .. WordBits * (Size(k) + 3)
                 /\ FrameBits(k)[WordBits * q + r + 1] = Frame(k)[q + 1][r + 1]
<1> DEFINE n == Size(k)
           words == Frame(k)
           total == WordBits * (n + 3)
           Bit(i) == words[((i - 1) \div WordBits) + 1][((i - 1) % WordBits) + 1]
<1>1. n \in Nat /\ words \in Seq(Word) /\ Len(words) = n + 3
    BY FrameLayout, PayloadType, Sizes
<1>2. total \in Nat
    BY <1>1, Grows, WordSize
<1>3. FrameBits(k) = [i \in 1 .. WordBits * Len(words) |-> Bit(i)]
    BY DEF FrameBits, Frame
<1>a. FrameBits(k) = [i \in 1 .. total |-> Bit(i)]
    BY <1>1, <1>3
<1>4. ASSUME NEW q \in 0 .. n + 2, NEW r \in 0 .. WordBits - 1
      PROVE  /\ WordBits * q + r + 1 \in 1 .. total
             /\ Bit(WordBits * q + r + 1) = words[q + 1][r + 1]
             /\ words[q + 1][r + 1] \in {0, 1}
  <2> DEFINE b == WordBits * q + r
  <2>1. q \in Nat /\ q + 1 <= n + 3 /\ q + 1 \in 1 .. n + 3 /\ r + 1 \in 1 .. WordBits
      BY <1>1, WordSize
  <2>2. WordBits * q \in Nat /\ WordBits * (q + 1) <= total
        /\ WordBits * (q + 1) = WordBits * q + WordBits
      BY <1>1, <2>1, Grows, WordSize
  <2>3. b \in Nat /\ (b + 1) - 1 = b /\ b + 1 \in 1 .. total
      BY <1>2, <2>1, <2>2, WordSize
  <2>4. b \div WordBits = q /\ b % WordBits = r
      BY <2>1, DivMod, WordSize
  <2>5. Bit(b + 1) = words[q + 1][r + 1]
      BY <2>3, <2>4
  <2>6. words[q + 1] \in Word
      BY <1>1, <2>1
  <2>7. words[q + 1][r + 1] \in {0, 1}
      BY <2>1, <2>6 DEF Word
  <2> QED BY <2>3, <2>5, <2>7
<1>5. ASSUME NEW i \in 1 .. total PROVE Bit(i) \in {0, 1}
  <2> DEFINE q == (i - 1) \div WordBits
             r == (i - 1) % WordBits
  <2>1. i - 1 \in Nat /\ i - 1 < total
      BY <1>2
  <2>2. q \in Nat /\ r \in 0 .. WordBits - 1 /\ i - 1 = WordBits * q + r
      BY <2>1, Division, WordSize
  <2> HIDE DEF q, r
  <2>3. q <= n + 2
    <3> SUFFICES ASSUME q >= n + 3 PROVE FALSE
        BY <1>1, <2>2
    <3>1. WordBits * q >= total
        BY <1>1, <2>2, Grows, WordSize
    <3>2. WordBits * q \in Nat
        BY <2>2, Grows, WordSize
    <3> QED BY <1>2, <2>1, <2>2, <3>1, <3>2
  <2>4. q \in 0 .. n + 2 /\ WordBits * q + r + 1 = i
      BY <1>1, <2>1, <2>2, <2>3
  <2> QED BY <1>4, <2>2, <2>4
<1> HIDE DEF Bit, total, n, words
<1>6. FrameBits(k) \in Seq({0, 1}) /\ Len(FrameBits(k)) = total
    BY <1>2, <1>a, <1>5
<1>7. ASSUME NEW q \in 0 .. n + 2, NEW r \in 0 .. WordBits - 1
      PROVE  /\ WordBits * q + r + 1 \in 1 .. total
             /\ FrameBits(k)[WordBits * q + r + 1] = words[q + 1][r + 1]
    BY <1>a, <1>4
<1> QED BY <1>2, <1>6, <1>7 DEF n, words, total

-----------------------------------------------------------------------------
(* The receiver follows a frame bit by bit.                                *)

\* The register after the first r bits of a word.
Partial(word, r) ==
    [i \in 1 .. WordBits |-> IF i <= WordBits - r THEN 0 ELSE word[i - (WordBits - r)]]

Rx(state, acc, nbits, len, crc, payload) ==
    [state |-> state, acc |-> acc, nbits |-> nbits, len |-> len, crc |-> crc,
     payload |-> payload]

StateAt(k, q) == IF q = 0 THEN "HUNT" ELSE IF q = 1 THEN "LEN"
                 ELSE IF q < Size(k) + 2 THEN "PAYLOAD" ELSE "CRC"
SumAt(k, q) == IF q < 2 THEN Zero ELSE Sum(Covered(k))[q - 1]
PayloadAt(k, q) == IF q < 2 THEN <<>> ELSE [i \in 1 .. q - 2 |-> TestPayload(k)[i]]

\* The receiver that has read q words of frame k and r bits of the next.
Following(k, q, r) ==
    Rx(StateAt(k, q), Partial(Frame(k)[q + 1], r), IF q = 0 THEN 0 ELSE r,
       IF q < 2 THEN 0 ELSE Size(k), SumAt(k, q), PayloadAt(k, q))

\* The receiver that has read j bits of frame k.
Reached(k, j) == Following(k, j \div WordBits, j % WordBits)

LEMMA ShiftRegister ==
    ASSUME NEW w \in Word, NEW r \in 0 .. WordBits - 1
    PROVE  /\ Append(Tail(Partial(w, r)), w[r + 1]) = Partial(w, r + 1)
           /\ Partial(w, WordBits) = w
           /\ Partial(w, 0) = Zero
           /\ Partial(w, r) \in Word
           /\ r + 1 < WordBits => Partial(w, r + 1)[1] = 0
<1> DEFINE p == Partial(w, r)
           s == Append(Tail(p), w[r + 1])
<1>1. p \in [1 .. WordBits -> {0, 1}]
  <2>1. ASSUME NEW i \in 1 .. WordBits, ~(i <= WordBits - r)
        PROVE  i - (WordBits - r) \in 1 .. WordBits
      BY <2>1, WordSize
  <2> QED BY <2>1 DEF Partial, Word
<1>2. p \in Seq({0, 1}) /\ Len(p) = WordBits /\ p # <<>>
    BY <1>1, WordSize
<1>3. w[r + 1] \in {0, 1}
    BY WordSize DEF Word
<1>4. /\ Tail(p) \in Seq({0, 1}) /\ Len(Tail(p)) = WordBits - 1
      /\ \A i \in 1 .. WordBits - 1 : Tail(p)[i] = p[i + 1]
  <2> HIDE DEF p
  <2> QED BY <1>2, WordSize
<1>5. /\ s \in Seq({0, 1}) /\ Len(s) = WordBits
      /\ \A i \in 1 .. WordBits - 1 : s[i] = p[i + 1]
      /\ s[WordBits] = w[r + 1]
  <2> DEFINE t == Tail(p)
             b == w[r + 1]
  <2>1. t \in Seq({0, 1}) /\ Len(t) = WordBits - 1 /\ b \in {0, 1}
        /\ \A i \in 1 .. WordBits - 1 : t[i] = p[i + 1]
      BY <1>3, <1>4
  <2> HIDE DEF p, t, b
  <2>2. /\ Append(t, b) \in Seq({0, 1}) /\ Len(Append(t, b)) = WordBits
        /\ \A i \in 1 .. WordBits - 1 : Append(t, b)[i] = t[i]
        /\ Append(t, b)[WordBits] = b
      BY <2>1, WordSize
  <2> QED BY <2>1, <2>2 DEF t, b
<1>6. s = Partial(w, r + 1)
  <2>1. s = [i \in 1 .. WordBits |-> s[i]]
    <3> HIDE DEF s
    <3> QED BY <1>5
  <2>2. ASSUME NEW i \in 1 .. WordBits
        PROVE  s[i] = IF i <= WordBits - (r + 1) THEN 0 ELSE w[i - (WordBits - (r + 1))]
    <3> HIDE DEF s
    <3>1. CASE i = WordBits
      <4>1. ~(i <= WordBits - (r + 1)) /\ i - (WordBits - (r + 1)) = r + 1
          BY <3>1, WordSize
      <4> QED BY <1>5, <3>1, <4>1
    <3>2. CASE i # WordBits
      <4>1. i \in 1 .. WordBits - 1 /\ i + 1 \in 1 .. WordBits
          BY <3>2, WordSize
      <4>2. s[i] = p[i + 1]
          BY <1>5, <4>1
      <4>3. p[i + 1] = IF i + 1 <= WordBits - r THEN 0 ELSE w[(i + 1) - (WordBits - r)]
          BY <4>1 DEF Partial
      <4>4. /\ (i + 1 <= WordBits - r) <=> (i <= WordBits - (r + 1))
            /\ (i + 1) - (WordBits - r) = i - (WordBits - (r + 1))
          BY <4>1, WordSize
      <4> QED BY <4>2, <4>3, <4>4
    <3> QED BY <3>1, <3>2
  <2> HIDE DEF s
  <2> QED BY <2>1, <2>2 DEF Partial
<1>7. Partial(w, WordBits) = w /\ Partial(w, 0) = Zero
  <2>1. \A i \in 1 .. WordBits : ~(i <= WordBits - WordBits) /\ i - (WordBits - WordBits) = i
      BY WordSize
  <2>2. \A i \in 1 .. WordBits : i <= WordBits - 0
      BY WordSize
  <2>3. Partial(w, WordBits) = [i \in 1 .. WordBits |-> w[i]]
      BY <2>1 DEF Partial
  <2> QED BY <2>2, <2>3 DEF Partial, Zero, Word
<1>8. r + 1 < WordBits => Partial(w, r + 1)[1] = 0
    BY WordSize DEF Partial
<1>9. p \in Word
    BY <1>1 DEF Word
<1> QED BY <1>6, <1>7, <1>8, <1>9

\* A bit within a word.
LEMMA PushWithin ==
    ASSUME NEW s, NEW a, NEW nb, NEW l, NEW c, NEW p, NEW b,
           s # "HUNT", nb # WordBits - 1
    PROVE  /\ PushBit(Rx(s, a, nb, l, c, p), b) = Rx(s, Append(Tail(a), b), nb + 1, l, c, p)
           /\ Pushed(Rx(s, a, nb, l, c, p), b) = None
BY DEF PushBit, Pushed, Rx, WordDone, Shifted

\* A bit while it hunts.
LEMMA PushHunting ==
    ASSUME NEW a, NEW nb, NEW l, NEW c, NEW p, NEW b
    PROVE  /\ PushBit(Rx("HUNT", a, nb, l, c, p), b) =
                 IF Append(Tail(a), b) = Sync THEN [RxInit EXCEPT !.state = "LEN"]
                 ELSE Rx("HUNT", Append(Tail(a), b), nb, l, c, p)
           /\ Pushed(Rx("HUNT", a, nb, l, c, p), b) = None
<1> DEFINE rx == Rx("HUNT", a, nb, l, c, p)
           next == Append(Tail(a), b)
<1>1. ~WordDone(rx) /\ rx.state = "HUNT" /\ Shifted(rx, b) = next
    BY DEF Rx, WordDone, Shifted
<1>2. Pushed(rx, b) = None
    BY <1>1 DEF Pushed
<1>3. PushBit(rx, b) = IF next = Sync THEN [RxInit EXCEPT !.state = "LEN"]
                       ELSE [rx EXCEPT !.acc = next]
  <2> HIDE DEF rx, next
  <2> QED BY <1>1 DEF PushBit
<1>4. [rx EXCEPT !.acc = next] = Rx("HUNT", next, nb, l, c, p)
  <2> HIDE DEF next
  <2> QED BY DEF Rx
<1> QED BY <1>2, <1>3, <1>4

\* The last bit of a word.
LEMMA PushLast ==
    ASSUME NEW s, NEW a, NEW l, NEW c, NEW p, NEW b, s # "HUNT"
    PROVE  LET rx == Rx(s, a, WordBits - 1, l, c, p)
           IN  /\ PushBit(rx, b) = TakeWord(rx, Append(Tail(a), b))
               /\ Pushed(rx, b) = Completed(rx, Append(Tail(a), b))
BY DEF PushBit, Pushed, Rx, WordDone, Shifted

LEMMA TakeLength ==
    ASSUME NEW a, NEW nb, NEW l, NEW c, NEW p, NEW w, LenValid(Value(w))
    PROVE  LET rx == Rx("LEN", a, nb, l, c, p)
           IN  /\ TakeWord(rx, w) = Rx("PAYLOAD", Zero, 0, Value(w), Crc(Zero, w), <<>>)
               /\ Completed(rx, w) = None
<1> DEFINE rx == Rx("LEN", a, nb, l, c, p)
<1>1. rx.state = "LEN"
    BY DEF Rx
<1>2. TakeWord(rx, w) = [RxInit EXCEPT !.state = "PAYLOAD", !.len = Value(w), !.crc = Crc(Zero, w)]
  <2> HIDE DEF rx
  <2> QED BY <1>1 DEF TakeWord
<1>3. Completed(rx, w) = None
  <2> HIDE DEF rx
  <2> QED BY <1>1 DEF Completed
<1> QED BY <1>2, <1>3 DEF RxInit, Rx

LEMMA TakePayload ==
    ASSUME NEW a, NEW nb, NEW l, NEW c, NEW p, NEW w
    PROVE  LET rx == Rx("PAYLOAD", a, nb, l, c, p)
           IN  /\ TakeWord(rx, w) = Rx(IF Len(p) + 1 >= l THEN "CRC" ELSE "PAYLOAD",
                                       Zero, 0, l, Crc(c, w), Append(p, w))
               /\ Completed(rx, w) = None
<1> DEFINE rx == Rx("PAYLOAD", a, nb, l, c, p)
           next == IF Len(p) + 1 >= l THEN "CRC" ELSE "PAYLOAD"
<1>1. rx.state = "PAYLOAD" /\ rx.len = l /\ rx.payload = p
    BY DEF Rx
<1>2. TakeWord(rx, w) = [rx EXCEPT !.payload = Append(@, w), !.crc = Crc(@, w),
                                   !.acc = Zero, !.nbits = 0, !.state = next]
  <2> HIDE DEF rx
  <2> QED BY <1>1 DEF TakeWord
<1>3. Completed(rx, w) = None
  <2> HIDE DEF rx
  <2> QED BY <1>1 DEF Completed
<1> HIDE DEF next
<1>4. TakeWord(rx, w) = Rx(next, Zero, 0, l, Crc(c, w), Append(p, w))
    BY <1>2 DEF Rx
<1> QED BY <1>3, <1>4 DEF next

LEMMA TakeChecksum ==
    ASSUME NEW a, NEW nb, NEW l, NEW c, NEW p, NEW w
    PROVE  LET rx == Rx("CRC", a, nb, l, c, p)
           IN  /\ TakeWord(rx, w) = RxInit
               /\ Completed(rx, w) = [result |-> IF w = c THEN "OK" ELSE "CRC_ERR", payload |-> p]
<1> DEFINE rx == Rx("CRC", a, nb, l, c, p)
<1>1. rx.state = "CRC" /\ rx.crc = c /\ rx.payload = p
    BY DEF Rx
<1> HIDE DEF rx
<1> QED BY <1>1 DEF TakeWord, Completed, rx

\* Every bit of a frame takes the receiver one bit further.
LEMMA FollowBit ==
    ASSUME NEW k \in Frames, NEW q \in 0 .. Size(k) + 2, NEW r \in 0 .. WordBits - 1
    PROVE  LET rx == Following(k, q, r)
               bit == Frame(k)[q + 1][r + 1]
           IN  /\ r + 1 < WordBits => /\ PushBit(rx, bit) = Following(k, q, r + 1)
                                      /\ Pushed(rx, bit) = None
               /\ r + 1 = WordBits /\ q < Size(k) + 2 =>
                    /\ PushBit(rx, bit) = Following(k, q + 1, 0)
                    /\ Pushed(rx, bit) = None
               /\ r + 1 = WordBits /\ q = Size(k) + 2 =>
                    /\ PushBit(rx, bit) = RxInit
                    /\ Pushed(rx, bit) = [result |-> "OK", payload |-> TestPayload(k)]
<1> DEFINE n == Size(k)
           rx == Following(k, q, r)
           w == Frame(k)[q + 1]
           bit == w[r + 1]
           a == Partial(w, r)
           l == IF q < 2 THEN 0 ELSE n
           c == SumAt(k, q)
           p == PayloadAt(k, q)
<1>1. /\ n \in Nat /\ n >= 1 /\ n <= MaxPayload /\ q \in Nat /\ q <= n + 2
      /\ q + 1 \in 1 .. n + 3 /\ w \in Word
    BY PayloadType, FrameLayout, Sizes
<1>2. /\ Append(Tail(a), bit) = Partial(w, r + 1)
      /\ r + 1 = WordBits => Append(Tail(a), bit) = w
      /\ r + 1 < WordBits => Append(Tail(a), bit)[1] = 0
  <2> HIDE DEF w
  <2>1. Append(Tail(a), bit) = Partial(w, r + 1)
      BY <1>1, ShiftRegister
  <2>2. Partial(w, WordBits) = w
      BY <1>1, ShiftRegister
  <2>3. r + 1 < WordBits => Partial(w, r + 1)[1] = 0
      BY <1>1, ShiftRegister
  <2> HIDE DEF a, bit
  <2> QED BY <2>1, <2>2, <2>3
<1>3. \A i \in 0 .. n + 2 : Partial(Frame(k)[i + 1], 0) = Zero
    BY <1>1, FrameLayout, ShiftRegister, WordSize
<1>4. CASE r + 1 < WordBits
  <2>1. CASE q = 0
    <3>1. /\ StateAt(k, q) = "HUNT" /\ rx = Rx("HUNT", a, 0, l, c, p)
          /\ Following(k, q, r + 1) = Rx("HUNT", Partial(w, r + 1), 0, l, c, p)
        BY <2>1 DEF Following, StateAt
    <3>2. Append(Tail(a), bit) # Sync
      <4> DEFINE next == Append(Tail(a), bit)
      <4>1. next[1] = 0
          BY <1>2, <1>4
      <4> HIDE DEF next
      <4>2. next # Sync
          BY <4>1, Constants
      <4> QED BY <4>2 DEF next
    <3> HIDE DEF a, l, c, p, bit, rx, w
    <3>3. PushBit(rx, bit) = Following(k, q, r + 1) /\ Pushed(rx, bit) = None
      <4>1. /\ PushBit(Rx("HUNT", a, 0, l, c, p), bit) =
                 IF Append(Tail(a), bit) = Sync THEN [RxInit EXCEPT !.state = "LEN"]
                 ELSE Rx("HUNT", Append(Tail(a), bit), 0, l, c, p)
            /\ Pushed(Rx("HUNT", a, 0, l, c, p), bit) = None
          BY PushHunting
      <4> QED BY <1>2, <3>1, <3>2, <4>1
    <3> QED BY <1>4, <3>3 DEF bit, w, rx
  <2>2. CASE q # 0
    <3> DEFINE s == StateAt(k, q)
    <3>1. /\ s # "HUNT" /\ rx = Rx(s, a, r, l, c, p)
          /\ Following(k, q, r + 1) = Rx(s, Partial(w, r + 1), r + 1, l, c, p)
        BY <2>2 DEF Following, StateAt
    <3>2. r # WordBits - 1
        BY <1>4, WordSize
    <3> HIDE DEF a, l, c, p, bit, rx, w, s
    <3>3. PushBit(rx, bit) = Following(k, q, r + 1) /\ Pushed(rx, bit) = None
      <4>1. /\ PushBit(Rx(s, a, r, l, c, p), bit) = Rx(s, Append(Tail(a), bit), r + 1, l, c, p)
            /\ Pushed(Rx(s, a, r, l, c, p), bit) = None
          BY <3>1, <3>2, PushWithin
      <4> QED BY <1>2, <3>1, <4>1
    <3> QED BY <1>4, <3>3 DEF bit, w, rx
  <2> QED BY <2>1, <2>2
<1>5. CASE r + 1 = WordBits
  <2>0. r = WordBits - 1 /\ Append(Tail(a), bit) = w
      BY <1>2, <1>5, WordSize
  <2>1. CASE q = 0
    <3>1. rx = Rx("HUNT", a, 0, l, c, p) /\ w = Sync
        BY <2>1, FrameLayout DEF Following, StateAt
    <3>2. PushBit(rx, bit) = [RxInit EXCEPT !.state = "LEN"] /\ Pushed(rx, bit) = None
      <4> HIDE DEF a, l, c, p, bit, rx, w
      <4> QED BY <2>0, <3>1, PushHunting
    <3>3. [RxInit EXCEPT !.state = "LEN"] = Rx("LEN", Zero, 0, 0, Zero, <<>>)
        BY DEF RxInit, Rx
    <3>4. Following(k, 1, 0) = Rx("LEN", Zero, 0, 0, Zero, <<>>)
      <4>1. Partial(Frame(k)[1 + 1], 0) = Zero
          BY <1>1, <1>3
      <4> QED BY <4>1 DEF Following, StateAt, SumAt, PayloadAt
    <3> QED BY <1>1, <1>5, <2>1, <3>2, <3>3, <3>4
  <2>2. CASE q = 1
    <3>1. rx = Rx("LEN", a, WordBits - 1, l, c, p) /\ w = ToWord(n)
        BY <2>0, <2>2, FrameLayout DEF Following, StateAt
    <3>2. Value(w) = n /\ LenValid(Value(w))
        BY <1>1, <3>1, ToWordLaws, WordAssumption, ValuesType DEF LenValid
    <3>3. PushBit(rx, bit) = Rx("PAYLOAD", Zero, 0, n, Crc(Zero, w), <<>>)
          /\ Pushed(rx, bit) = None
      <4> HIDE DEF a, l, c, p, bit, rx, w
      <4>1. /\ PushBit(rx, bit) = TakeWord(rx, w)
            /\ Pushed(rx, bit) = Completed(rx, w)
        <5>1. /\ PushBit(Rx("LEN", a, WordBits - 1, l, c, p), bit)
                    = TakeWord(Rx("LEN", a, WordBits - 1, l, c, p), Append(Tail(a), bit))
              /\ Pushed(Rx("LEN", a, WordBits - 1, l, c, p), bit)
                    = Completed(Rx("LEN", a, WordBits - 1, l, c, p), Append(Tail(a), bit))
            BY PushLast
        <5> QED BY <2>0, <3>1, <5>1
      <4>2. /\ TakeWord(rx, w) = Rx("PAYLOAD", Zero, 0, Value(w), Crc(Zero, w), <<>>)
            /\ Completed(rx, w) = None
          BY <3>1, <3>2, TakeLength
      <4> QED BY <3>2, <4>1, <4>2
    <3>4. Following(k, 2, 0) = Rx("PAYLOAD", Zero, 0, n, Crc(Zero, w), <<>>)
      <4>1. Partial(Frame(k)[2 + 1], 0) = Zero
          BY <1>1, <1>3
      <4>2. Sum(Covered(k))[1] = Crc(Zero, w)
        <5>1. Covered(k) \in Seq(Word) /\ 1 \in 1 .. Len(Covered(k)) /\ Covered(k)[1] = w
            BY <1>1, <3>1, CoveredWords
        <5> QED BY <5>1, SumUnfolds
      <4>3. StateAt(k, 2) = "PAYLOAD" /\ SumAt(k, 2) = Sum(Covered(k))[1]
          BY <1>1 DEF StateAt, SumAt
      <4>4. PayloadAt(k, 2) = <<>>
          BY DEF PayloadAt
      <4> QED BY <4>1, <4>2, <4>3, <4>4 DEF Following
    <3> QED BY <1>1, <1>5, <2>2, <3>3, <3>4
  <2>3. CASE q >= 2 /\ q < n + 2
    <3> DEFINE next == IF Len(p) + 1 >= l THEN "CRC" ELSE "PAYLOAD"
    <3>1. /\ rx = Rx("PAYLOAD", a, WordBits - 1, l, c, p) /\ l = n
          /\ q - 1 \in 1 .. n /\ w = TestPayload(k)[q - 1]
      <4>1. q - 1 \in 1 .. n /\ (q - 1) + 2 = q + 1
          BY <1>1, <2>3
      <4>2. StateAt(k, q) = "PAYLOAD"
          BY <1>1, <2>3 DEF StateAt
      <4>3. (IF q = 0 THEN 0 ELSE r) = WordBits - 1 /\ l = n
          BY <1>1, <2>0, <2>3
      <4> QED BY <4>1, <4>2, <4>3, FrameLayout DEF Following
    <3>2. p \in Seq(Word) /\ Len(p) = q - 2 /\ \A i \in 1 .. q - 2 : p[i] = TestPayload(k)[i]
      <4>1. p = [i \in 1 .. q - 2 |-> TestPayload(k)[i]]
          BY <1>1, <2>3 DEF PayloadAt
      <4>2. \A i \in 1 .. q - 2 : TestPayload(k)[i] \in Word
          BY <1>1, PayloadType DEF Size
      <4>3. q - 2 \in Nat
          BY <1>1, <2>3
      <4> HIDE DEF p
      <4> QED BY <4>1, <4>2, <4>3
    <3>3. /\ PushBit(rx, bit) = Rx(next, Zero, 0, l, Crc(c, w), Append(p, w))
          /\ Pushed(rx, bit) = None
      <4> HIDE DEF a, l, c, p, bit, rx, w, next
      <4>1. /\ PushBit(rx, bit) = TakeWord(rx, w)
            /\ Pushed(rx, bit) = Completed(rx, w)
        <5>1. /\ PushBit(Rx("PAYLOAD", a, WordBits - 1, l, c, p), bit)
                    = TakeWord(Rx("PAYLOAD", a, WordBits - 1, l, c, p), Append(Tail(a), bit))
              /\ Pushed(Rx("PAYLOAD", a, WordBits - 1, l, c, p), bit)
                    = Completed(Rx("PAYLOAD", a, WordBits - 1, l, c, p), Append(Tail(a), bit))
            BY PushLast
        <5> QED BY <2>0, <3>1, <5>1
      <4>2. /\ TakeWord(rx, w) = Rx(next, Zero, 0, l, Crc(c, w), Append(p, w))
            /\ Completed(rx, w) = None
          BY <3>1, TakePayload DEF next
      <4> QED BY <4>1, <4>2
    <3>4. Following(k, q + 1, 0) = Rx(next, Zero, 0, l, Crc(c, w), Append(p, w))
      <4>1. Partial(Frame(k)[(q + 1) + 1], 0) = Zero
          BY <1>1, <1>3, <2>3
      <4>2. next = StateAt(k, q + 1)
          BY <1>1, <2>3, <3>1, <3>2 DEF StateAt
      <4>3. SumAt(k, q + 1) = Crc(c, w)
        <5>1. c = Sum(Covered(k))[q - 1] /\ SumAt(k, q + 1) = Sum(Covered(k))[q]
            BY <1>1, <2>3 DEF SumAt
        <5>2. /\ Covered(k) \in Seq(Word) /\ Len(Covered(k)) = n + 1
              /\ q \in 1 .. n + 1 /\ (q - 1) + 1 = q
            BY <1>1, <2>3, CoveredWords
        <5>3. Covered(k)[q] = w
            BY <3>1, <5>2, CoveredWords
        <5>4. Sum(Covered(k))[q] = Crc(Sum(Covered(k))[q - 1], Covered(k)[q])
            BY <5>2, SumUnfolds
        <5> QED BY <5>1, <5>3, <5>4
      <4>4. PayloadAt(k, q + 1) = Append(p, w)
        <5> DEFINE longer == [i \in 1 .. q - 1 |-> TestPayload(k)[i]]
        <5>1. PayloadAt(k, q + 1) = longer
          <6>1. (q + 1) - 2 = q - 1 /\ ~(q + 1 < 2)
              BY <1>1, <2>3
          <6> QED BY <6>1 DEF PayloadAt
        <5>2. \A i \in 1 .. q - 1 : TestPayload(k)[i] \in Word
            BY <1>1, <3>1, PayloadType DEF Size
        <5>3. longer \in Seq(Word) /\ Len(longer) = q - 1
              /\ \A i \in 1 .. q - 1 : longer[i] = TestPayload(k)[i]
            BY <3>1, <5>2
        <5>4. Append(p, w) \in Seq(Word) /\ Len(Append(p, w)) = q - 1
              /\ \A i \in 1 .. q - 2 : Append(p, w)[i] = p[i]
              /\ Append(p, w)[q - 1] = w
          <6> HIDE DEF p, w
          <6> QED BY <1>1, <3>2, <3>1
        <5>5. \A i \in 1 .. q - 1 : longer[i] = Append(p, w)[i]
          <6> HIDE DEF p, w, longer
          <6> QED BY <3>1, <3>2, <5>3, <5>4
        <5> HIDE DEF p, w, longer
        <5>6. longer = Append(p, w)
            BY <3>1, <5>3, <5>4, <5>5, SeqEqual
        <5> QED BY <5>1, <5>6
      <4>5. ~(q + 1 = 0) /\ ~(q + 1 < 2) /\ l = n
          BY <1>1, <2>3
      <4>6. Following(k, q + 1, 0) = Rx(StateAt(k, q + 1), Partial(Frame(k)[(q + 1) + 1], 0), 0, n,
                                        SumAt(k, q + 1), PayloadAt(k, q + 1))
          BY <4>5 DEF Following
      <4> HIDE DEF next, p, w, c, l
      <4> QED BY <4>1, <4>2, <4>3, <4>4, <4>5, <4>6
    <3> QED BY <1>1, <1>5, <2>3, <3>3, <3>4
  <2>4. CASE q = n + 2
    <3>1. /\ rx = Rx("CRC", a, WordBits - 1, l, c, p)
          /\ w = c
      <4>1. /\ StateAt(k, q) = "CRC" /\ (IF q = 0 THEN 0 ELSE r) = WordBits - 1
            /\ c = Sum(Covered(k))[n + 1] /\ q + 1 = n + 3
        <5>1. q - 1 = n + 1 /\ ~(q < 2) /\ q # 0 /\ q # 1 /\ ~(q < n + 2) /\ q + 1 = n + 3
            BY <1>1, <2>4
        <5> QED BY <2>0, <5>1 DEF StateAt, SumAt
      <4> QED BY <4>1, FrameLayout DEF Following
    <3>2. p = TestPayload(k)
      <4>1. p = [i \in 1 .. n |-> TestPayload(k)[i]]
        <5>1. q - 2 = n /\ ~(q < 2)
            BY <1>1, <2>4
        <5> QED BY <5>1 DEF PayloadAt
      <4> HIDE DEF p
      <4> QED BY <1>1, <4>1, PayloadType DEF Size
    <3>3. /\ PushBit(rx, bit) = RxInit
          /\ Pushed(rx, bit) = [result |-> "OK", payload |-> p]
      <4> HIDE DEF a, l, c, p, bit, rx, w
      <4>1. /\ PushBit(rx, bit) = TakeWord(rx, w)
            /\ Pushed(rx, bit) = Completed(rx, w)
        <5>1. /\ PushBit(Rx("CRC", a, WordBits - 1, l, c, p), bit)
                    = TakeWord(Rx("CRC", a, WordBits - 1, l, c, p), Append(Tail(a), bit))
              /\ Pushed(Rx("CRC", a, WordBits - 1, l, c, p), bit)
                    = Completed(Rx("CRC", a, WordBits - 1, l, c, p), Append(Tail(a), bit))
            BY PushLast
        <5> QED BY <2>0, <3>1, <5>1
      <4>2. /\ TakeWord(rx, w) = RxInit
            /\ Completed(rx, w) = [result |-> IF w = c THEN "OK" ELSE "CRC_ERR", payload |-> p]
          BY <3>1, TakeChecksum
      <4> QED BY <3>1, <4>1, <4>2
    <3> QED BY <1>1, <1>5, <2>4, <3>2, <3>3
  <2>5. q = 0 \/ q = 1 \/ (q >= 2 /\ q < n + 2) \/ q = n + 2
      BY <1>1
  <2> QED BY <2>1, <2>2, <2>3, <2>4, <2>5
<1>6. r + 1 < WordBits \/ r + 1 = WordBits
    BY WordSize
<1> QED BY <1>4, <1>5, <1>6

\* So do the bits counted from the first of the frame; the last one delivers it.
LEMMA ReachBit ==
    ASSUME NEW k \in Frames, NEW j \in Nat, j < Len(FrameBits(k))
    PROVE  LET bit == FrameBits(k)[j + 1]
           IN  /\ j + 1 < Len(FrameBits(k)) =>
                    /\ PushBit(Reached(k, j), bit) = Reached(k, j + 1)
                    /\ Pushed(Reached(k, j), bit) = None
               /\ j + 1 = Len(FrameBits(k)) =>
                    /\ PushBit(Reached(k, j), bit) = RxInit
                    /\ Pushed(Reached(k, j), bit) = [result |-> "OK", payload |-> TestPayload(k)]
<1> DEFINE n == Size(k)
           q == j \div WordBits
           r == j % WordBits
           total == WordBits * (n + 3)
           bit == FrameBits(k)[j + 1]
           rx == Following(k, q, r)
<1>1. n \in Nat /\ total \in Nat /\ Len(FrameBits(k)) = total
    BY FrameBit, PayloadType, Sizes
<1>2. q \in Nat /\ r \in 0 .. WordBits - 1 /\ j = WordBits * q + r
    BY Division, WordSize
<1>a. Reached(k, j) = rx
    BY DEF Reached
<1> HIDE DEF rx, q, r
<1>3. q \in 0 .. n + 2
  <2> SUFFICES ASSUME q >= n + 3 PROVE FALSE
      BY <1>1, <1>2
  <2>1. WordBits * q >= total /\ WordBits * q \in Nat
      BY <1>1, <1>2, Grows, WordSize
  <2> QED BY <1>1, <1>2, <2>1
<1>4. bit = Frame(k)[q + 1][r + 1]
  <2>1. FrameBits(k)[WordBits * q + r + 1] = Frame(k)[q + 1][r + 1]
      BY <1>2, <1>3, FrameBit
  <2> QED BY <1>2, <2>1
<1>5. CASE r + 1 < WordBits
  <2>1. r + 1 \in 0 .. WordBits - 1
      BY <1>2, <1>5, WordSize
  <2>2. PushBit(rx, bit) = Following(k, q, r + 1) /\ Pushed(rx, bit) = None
      BY <1>2, <1>3, <1>4, <1>5, FollowBit DEF rx
  <2>3. (j + 1) \div WordBits = q /\ (j + 1) % WordBits = r + 1
    <3>1. WordBits * q \in Nat
        BY <1>2, <1>3, Grows, WordSize
    <3>2. j + 1 = WordBits * q + (r + 1)
        BY <1>2, <3>1
    <3>3. /\ (WordBits * q + (r + 1)) \div WordBits = q
          /\ (WordBits * q + (r + 1)) % WordBits = r + 1
        BY <1>2, <2>1, DivMod, WordSize
    <3> QED BY <3>2, <3>3
  <2>4. j + 1 < total
    <3>1. WordBits * q + (r + 1) + 1 \in 1 .. total
        BY <1>3, <2>1, FrameBit
    <3>2. WordBits * q \in Nat
        BY <1>2, <1>3, Grows, WordSize
    <3> QED BY SMTT(30), <1>1, <1>2, <3>1, <3>2
  <2>5. Reached(k, j + 1) = Following(k, q, r + 1)
      BY <2>3 DEF Reached
  <2> QED BY <1>1, <1>a, <2>2, <2>4, <2>5
<1>6. CASE r + 1 = WordBits /\ q < n + 2
  <2>1. 0 \in 0 .. WordBits - 1 /\ q + 1 \in 0 .. n + 2
      BY <1>1, <1>3, <1>6, WordSize
  <2>2. PushBit(rx, bit) = Following(k, q + 1, 0) /\ Pushed(rx, bit) = None
      BY <1>2, <1>3, <1>4, <1>6, FollowBit DEF rx
  <2>3. WordBits * q \in Nat /\ WordBits * (q + 1) = WordBits * q + WordBits
      BY <1>2, <1>3, Grows, WordSize
  <2>4. j + 1 = WordBits * (q + 1) + 0
      BY <1>2, <1>6, <2>3, WordSize
  <2>5. (j + 1) \div WordBits = q + 1 /\ (j + 1) % WordBits = 0
    <3>1. q + 1 \in Nat
        BY <1>2
    <3>2. /\ (WordBits * (q + 1) + 0) \div WordBits = q + 1
          /\ (WordBits * (q + 1) + 0) % WordBits = 0
        BY <2>1, <3>1, DivMod, WordSize
    <3> QED BY <2>4, <3>2
  <2>6. j + 1 < total
    <3>1. WordBits * (q + 1) + 0 + 1 \in 1 .. total
        BY <2>1, FrameBit
    <3> QED BY <1>1, <2>3, <2>4, <3>1, WordSize
  <2>7. Reached(k, j + 1) = Following(k, q + 1, 0)
      BY <2>5 DEF Reached
  <2> QED BY <1>1, <1>a, <2>2, <2>6, <2>7
<1>7. CASE r + 1 = WordBits /\ q = n + 2
  <2>1. /\ PushBit(rx, bit) = RxInit
        /\ Pushed(rx, bit) = [result |-> "OK", payload |-> TestPayload(k)]
      BY <1>2, <1>3, <1>4, <1>7, FollowBit DEF rx
  <2>2. WordBits * q \in Nat /\ WordBits * (q + 1) = WordBits * q + WordBits
      BY <1>2, <1>3, Grows, WordSize
  <2>3. j + 1 = total
    <3>1. q + 1 = n + 3
        BY <1>1, <1>7
    <3>2. j + 1 = WordBits * (q + 1)
      <4> DEFINE x == WordBits * q
                 y == WordBits * (q + 1)
      <4>1. x \in Nat /\ y = x + WordBits /\ j = x + r
          BY <1>2, <2>2
      <4> HIDE DEF x, y
      <4>2. j + 1 = y
          BY <1>2, <1>7, <4>1, WordSize
      <4> QED BY <4>2 DEF y
    <3> QED BY <3>1, <3>2
  <2> QED BY <1>1, <1>a, <2>1, <2>3
<1>8. r + 1 < WordBits \/ (r + 1 = WordBits /\ q < n + 2) \/ (r + 1 = WordBits /\ q = n + 2)
    BY <1>1, <1>2, <1>3, WordSize
<1> QED BY <1>5, <1>6, <1>7, <1>8

LEMMA ReachNothing ==
    ASSUME NEW k \in Frames
    PROVE  Reached(k, 0) = RxInit /\ Len(FrameBits(k)) > 1
<1>1. 0 \div WordBits = 0 /\ 0 % WordBits = 0
    BY DivMod, WordSize
<1>2. Frame(k)[0 + 1] \in Word
    BY FrameLayout, Constants
<1>3. Partial(Frame(k)[0 + 1], 0) = Zero
    BY <1>2, ShiftRegister, WordSize
<1>4. Following(k, 0, 0) = Rx("HUNT", Zero, 0, 0, Zero, <<>>)
    BY <1>3 DEF Following, StateAt, SumAt, PayloadAt
<1>5. Rx("HUNT", Zero, 0, 0, Zero, <<>>) = RxInit
    BY DEF Rx, RxInit
<1>6. Len(FrameBits(k)) > 1
  <2>1. Size(k) + 3 \in Nat /\ Size(k) + 3 >= 2
      BY PayloadType, Sizes
  <2>2. WordBits * 2 <= WordBits * (Size(k) + 3) /\ WordBits * 2 >= 2
      BY <2>1, Grows, WordSize
  <2> QED BY <2>2, FrameBit, WordSize
<1> QED BY <1>1, <1>4, <1>5, <1>6 DEF Reached

-----------------------------------------------------------------------------
(* Every completed frame is counted.                                       *)

Results == {"OK", "CRC_ERR", "LEN_ERR"}
Stats == [ok : Nat, crc_err : Nat, len_err : Nat, bit_errors : BOOLEAN]

\* What the count rests on: the shape of the counters, and a queue that holds
\* nothing but completed frames.
Counters ==
    /\ s_rx_dropped \in Nat
    /\ completed \in Nat
    /\ s_stats \in Stats
    /\ \E S : s_rx_q \in Seq(S)
    /\ \A i \in 1 .. Len(s_rx_q) : s_rx_q[i].result \in Results

AInv == Counters /\ EveryFrameAccounted

counted == <<s_rx_q, s_rx_dropped, completed, s_stats>>

\* What a bit completes is nothing, or a frame with a verdict.
LEMMA PushedResult ==
    ASSUME NEW rx, NEW bit, Pushed(rx, bit) # None
    PROVE  Pushed(rx, bit).result \in Results
BY DEF Pushed, Completed, None, Results

\* The task takes one frame off the queue and adds one to one counter.
LEMMA HandleStep == AInv /\ HandleRx => AInv'
<1> SUFFICES ASSUME AInv, HandleRx PROVE AInv'
    OBVIOUS
<1> DEFINE msg == Head(s_rx_q)
<1>1. PICK S : s_rx_q \in Seq(S)
    BY DEF AInv, Counters
<1>2. /\ s_rx_q # <<>> /\ s_rx_q' = Tail(s_rx_q)
      /\ s_rx_dropped' = s_rx_dropped /\ completed' = completed
    BY DEF HandleRx, history, receiver
<1>3. /\ Tail(s_rx_q) \in Seq(S) /\ Len(Tail(s_rx_q)) = Len(s_rx_q) - 1
      /\ Len(s_rx_q) \in Nat
      /\ \A i \in 1 .. Len(Tail(s_rx_q)) : Tail(s_rx_q)[i] = s_rx_q[i + 1]
      /\ msg = s_rx_q[1] /\ 1 \in 1 .. Len(s_rx_q)
    BY <1>1, <1>2
<1>4. msg.result \in Results
    BY <1>3 DEF AInv, Counters
<1>5. /\ s_stats' \in Stats
      /\ s_stats'.ok + s_stats'.crc_err + s_stats'.len_err
            = s_stats.ok + s_stats.crc_err + s_stats.len_err + 1
  <2> DEFINE st == s_stats
  <2>1. st \in Stats /\ st.ok \in Nat /\ st.crc_err \in Nat /\ st.len_err \in Nat
      BY DEF AInv, Counters, Stats
  <2>2. CASE msg.result = "LEN_ERR"
    <3>1. s_stats' = [st EXCEPT !.len_err = st.len_err + 1]
        BY <2>2 DEF HandleRx
    <3>2. s_stats' \in Stats
        BY <2>1, <3>1 DEF Stats
    <3>3. /\ s_stats'.ok = st.ok /\ s_stats'.crc_err = st.crc_err
          /\ s_stats'.len_err = st.len_err + 1
        BY <2>1, <3>1 DEF Stats
    <3> QED BY <2>1, <3>2, <3>3
  <2>3. CASE msg.result # "LEN_ERR"
    <3>1. PICK k : s_stats' = Account(msg, k)
        BY <2>3 DEF HandleRx
    <3> DEFINE bad == st.bit_errors \/ Differs(msg.payload, TestPayload(k))
               good == IF msg.result = "OK" THEN st.ok + 1 ELSE st.ok
               wrong == IF msg.result = "CRC_ERR" THEN st.crc_err + 1 ELSE st.crc_err
    <3>2. s_stats' = [st EXCEPT !.ok = good, !.crc_err = wrong, !.bit_errors = bad]
        BY <3>1 DEF Account
    <3>3. bad \in BOOLEAN /\ good \in Nat /\ wrong \in Nat
        BY <2>1
    <3>4. good + wrong = st.ok + st.crc_err + 1
        BY <2>1, <2>3, <1>4 DEF Results
    <3> HIDE DEF bad, good, wrong
    <3>5. s_stats' \in Stats
        BY <2>1, <3>2, <3>3 DEF Stats
    <3>6. /\ s_stats'.ok = good /\ s_stats'.crc_err = wrong
          /\ s_stats'.len_err = st.len_err
        BY <2>1, <3>2 DEF Stats
    <3> QED BY <2>1, <3>3, <3>4, <3>5, <3>6
  <2> QED BY <2>2, <2>3
<1>6. \A i \in 1 .. Len(s_rx_q') : s_rx_q'[i].result \in Results
    BY <1>2, <1>3 DEF AInv, Counters
<1>7. Counters'
    BY <1>2, <1>3, <1>5, <1>6 DEF AInv, Counters
<1>8. /\ s_stats.ok \in Nat /\ s_stats.crc_err \in Nat /\ s_stats.len_err \in Nat
      /\ s_stats'.ok \in Nat /\ s_stats'.crc_err \in Nat /\ s_stats'.len_err \in Nat
      /\ s_rx_dropped \in Nat
    BY <1>5 DEF AInv, Counters, Stats
<1>9. EveryFrameAccounted'
  <2>1. completed = s_stats.ok + s_stats.crc_err + s_stats.len_err + Len(s_rx_q) + s_rx_dropped
      BY DEF AInv, EveryFrameAccounted
  <2>2. Len(s_rx_q') = Len(s_rx_q) - 1
      BY <1>2, <1>3
  <2> DEFINE sum == s_stats.ok + s_stats.crc_err + s_stats.len_err
             before == Len(s_rx_q)
             after == Len(s_rx_q')
  <2>3. sum \in Nat /\ before \in Nat /\ sum' = sum + 1
      BY <1>3, <1>5, <1>8
  <2>4. completed' = completed /\ s_rx_dropped' = s_rx_dropped
      BY <1>2
  <2>5. completed = sum + before + s_rx_dropped /\ after = before - 1
      BY <2>1, <2>2
  <2> HIDE DEF sum, before, after
  <2>6. completed' = sum' + after + s_rx_dropped'
      BY <1>8, <2>3, <2>4, <2>5
  <2> QED BY <2>6 DEF EveryFrameAccounted, sum, after
<1> QED BY <1>7, <1>9 DEF AInv

\* A bit that completes a frame adds one to the count, and the frame to the
\* queue or one to the refused; any other bit changes nothing.
LEMMA BitStep ==
    ASSUME AInv, NEW bit, OnBit(bit), UNCHANGED s_stats
    PROVE  AInv'
<1> DEFINE msg == Pushed(Receiver, bit)
<1>1. PICK S : s_rx_q \in Seq(S)
    BY DEF AInv, Counters
<1>2. CASE msg = None
    BY <1>2 DEF OnBit, Refused, AInv, Counters, EveryFrameAccounted
<1>3. CASE msg # None /\ Len(s_rx_q) >= QueueDepth
    BY <1>3 DEF OnBit, Refused, AInv, Counters, EveryFrameAccounted, Stats
<1>4. CASE msg # None /\ ~(Len(s_rx_q) >= QueueDepth)
  <2>1. /\ s_rx_q' = Append(s_rx_q, msg)
        /\ s_rx_dropped' = s_rx_dropped /\ completed' = completed + 1
      BY <1>4 DEF OnBit, Refused
  <2>2. msg.result \in Results
      BY <1>4, PushedResult
  <2>3. /\ Append(s_rx_q, msg) \in Seq(S \cup {msg})
        /\ Len(s_rx_q) \in Nat /\ Len(Append(s_rx_q, msg)) = Len(s_rx_q) + 1
        /\ \A i \in 1 .. Len(s_rx_q) : Append(s_rx_q, msg)[i] = s_rx_q[i]
        /\ Append(s_rx_q, msg)[Len(s_rx_q) + 1] = msg
    <3> s_rx_q \in Seq(S \cup {msg})
        BY <1>1
    <3> QED OBVIOUS
  <2>4. \A i \in 1 .. Len(s_rx_q') : s_rx_q'[i].result \in Results
      BY <2>1, <2>2, <2>3 DEF AInv, Counters
  <2>5. Counters'
      BY <2>1, <2>3, <2>4 DEF AInv, Counters
  <2>6. /\ s_stats.ok \in Nat /\ s_stats.crc_err \in Nat /\ s_stats.len_err \in Nat
        /\ s_rx_dropped \in Nat /\ completed \in Nat
      BY DEF AInv, Counters, Stats
  <2>7. EveryFrameAccounted'
    <3>1. completed = s_stats.ok + s_stats.crc_err + s_stats.len_err + Len(s_rx_q)
                      + s_rx_dropped
        BY DEF AInv, EveryFrameAccounted
    <3>2. Len(s_rx_q') = Len(s_rx_q) + 1
        BY <2>1, <2>3
    <3>3. /\ s_rx_dropped' = s_rx_dropped /\ completed' = completed + 1 /\ s_stats' = s_stats
          /\ Len(s_rx_q) \in Nat
        BY <2>1, <2>3
    <3> DEFINE sum == s_stats.ok + s_stats.crc_err + s_stats.len_err
    <3>4. sum \in Nat /\ sum' = sum
        BY <2>6, <3>3
    <3>5. completed = sum + Len(s_rx_q) + s_rx_dropped
        BY <3>1
    <3> HIDE DEF msg, sum
    <3>6. completed' = sum' + Len(s_rx_q') + s_rx_dropped'
        BY <2>6, <3>2, <3>3, <3>4, <3>5
    <3> QED BY <3>6 DEF EveryFrameAccounted, sum
  <2> QED BY <2>5, <2>7 DEF AInv
<1> QED BY <1>2, <1>3, <1>4

LEMMA ClockStep ==
    ASSUME AInv, NEW flip, ClockBit(flip)
    PROVE  AInv'
<1>1. CASE plugged
  <2>1. PICK bit : OnBit(bit)
      BY <1>1 DEF ClockBit
  <2>2. UNCHANGED s_stats
      BY DEF ClockBit
  <2> QED BY <2>1, <2>2, BitStep
<1>2. CASE ~plugged
    BY <1>2 DEF ClockBit, receiver, AInv, Counters, EveryFrameAccounted
<1> QED BY <1>1, <1>2

LEMMA UnchangedStep == AInv /\ UNCHANGED counted => AInv'
BY DEF counted, AInv, Counters, EveryFrameAccounted

LEMMA InitAInv == Init => AInv
<1> SUFFICES ASSUME Init PROVE AInv
    OBVIOUS
<1>1. /\ s_rx_q = <<>> /\ s_rx_dropped = 0 /\ completed = 0
      /\ s_stats = [ok |-> 0, crc_err |-> 0, len_err |-> 0, bit_errors |-> FALSE]
    BY DEF Init, StatsInit
<1>2. s_rx_q \in Seq({}) /\ Len(s_rx_q) = 0
    BY <1>1
<1> QED BY <1>1, <1>2 DEF AInv, Counters, EveryFrameAccounted, Stats

LEMMA NextAInv == AInv /\ [Next]_vars => AInv'
<1> SUFFICES ASSUME AInv, [Next]_vars PROVE AInv'
    OBVIOUS
<1>1. CASE roleA \/ FlipBit
  <2>1. CASE SendBit \/ FlipBit
      BY <2>1, ClockStep DEF SendBit, FlipBit
  <2>2. CASE StartBurst \/ StartFrame
      BY <2>2, UnchangedStep
      DEF StartBurst, StartFrame, receiver, consumer, history, counted
  <2> QED BY <1>1, <2>1, <2>2 DEF roleA
<1>2. CASE HandleRx
    BY <1>2, HandleStep
<1>3. CASE Silence \/ Housekeeping \/ Pull \/ Plug \/ ResetA
    BY <1>3, UnchangedStep
    DEF Silence, Housekeeping, ReadClock, ReadLastBit, ReadState, Ask, Pull, Plug, ResetA,
        receiver, consumer, history, counted
<1>4. CASE ResetB
  <2>1. /\ s_rx_q' = <<>> /\ s_rx_dropped' = 0 /\ completed' = 0
        /\ s_stats' = [ok |-> 0, crc_err |-> 0, len_err |-> 0, bit_errors |-> FALSE]
      BY <1>4 DEF ResetB, StatsInit
  <2>2. s_rx_q' \in Seq({}) /\ Len(s_rx_q') = 0
      BY <2>1
  <2> QED BY <2>1, <2>2 DEF AInv, Counters, EveryFrameAccounted, Stats
<1>5. CASE UNCHANGED vars
    BY <1>5, UnchangedStep DEF vars, receiver, consumer, history, counted
<1> QED BY <1>1, <1>2, <1>3, <1>4, <1>5 DEF Next, Fault

\* Every frame the interrupt handler completed is in the statistics, in the
\* queue, or counted as refused: exactly once, however the interrupts, the task,
\* the cable and the resets of the boards interleave.
THEOREM FramesAccounted == Spec => []EveryFrameAccounted
<1>1. AInv => EveryFrameAccounted
    BY DEF AInv
<1> QED BY <1>1, InitAInv, NextAInv, PTL DEF Spec

-----------------------------------------------------------------------------
(* What role A sends, and what role B may hold.                            *)

Receivers ==
    [state : {"HUNT", "LEN", "PAYLOAD", "CRC"}, acc : Word, nbits : 0 .. WordBits - 1,
     len : 0 .. MaxPayload, crc : Word, payload : Seq(Word)]

GoodRx(rx) ==
    /\ rx \in Receivers
    /\ Len(rx.payload) <= rx.len
    /\ rx.state = "PAYLOAD" => Len(rx.payload) < rx.len
    /\ rx.state = "CRC" => rx.payload # <<>>

GoodMessage(msg) == msg \in Message /\ (msg.result = "OK" => msg.payload # <<>>)

LEMMA RxFields ==
    ASSUME NEW rx, GoodRx(rx)
    PROVE  /\ rx = Rx(rx.state, rx.acc, rx.nbits, rx.len, rx.crc, rx.payload)
           /\ rx.state \in {"HUNT", "LEN", "PAYLOAD", "CRC"} /\ rx.acc \in Word
           /\ rx.nbits \in 0 .. WordBits - 1 /\ rx.len \in 0 .. MaxPayload
           /\ rx.crc \in Word /\ rx.payload \in Seq(Word) /\ Len(rx.payload) <= rx.len
           /\ rx.state = "PAYLOAD" => Len(rx.payload) < rx.len
           /\ rx.state = "CRC" => rx.payload # <<>>
BY DEF GoodRx, Receivers, Rx

LEMMA RxGood ==
    ASSUME NEW s \in {"HUNT", "LEN", "PAYLOAD", "CRC"}, NEW a \in Word,
           NEW nb \in 0 .. WordBits - 1, NEW l \in 0 .. MaxPayload, NEW c \in Word,
           NEW p \in Seq(Word), Len(p) <= l, s = "PAYLOAD" => Len(p) < l, s = "CRC" => p # <<>>
    PROVE  GoodRx(Rx(s, a, nb, l, c, p))
BY DEF GoodRx, Receivers, Rx

LEMMA RxInitGood == GoodRx(RxInit) /\ GoodRx([RxInit EXCEPT !.state = "LEN"])
<1>1. Zero \in Word /\ 0 \in 0 .. WordBits - 1 /\ 0 \in 0 .. MaxPayload /\ Len(<<>>) <= 0
      /\ <<>> \in Seq(Word)
    BY Constants, Sizes
<1>2. GoodRx(Rx("HUNT", Zero, 0, 0, Zero, <<>>)) /\ GoodRx(Rx("LEN", Zero, 0, 0, Zero, <<>>))
    BY <1>1, RxGood
<1>3. /\ RxInit = Rx("HUNT", Zero, 0, 0, Zero, <<>>)
      /\ [RxInit EXCEPT !.state = "LEN"] = Rx("LEN", Zero, 0, 0, Zero, <<>>)
    BY DEF RxInit, Rx
<1> QED BY <1>2, <1>3

LEMMA ShiftType ==
    ASSUME NEW a \in Word, NEW b \in {0, 1}
    PROVE  Append(Tail(a), b) \in Word
<1> DEFINE s == Append(Tail(a), b)
<1>1. a \in Seq({0, 1}) /\ Len(a) = WordBits /\ a # <<>>
    BY WordSize DEF Word
<1>2. Tail(a) \in Seq({0, 1}) /\ Len(Tail(a)) = WordBits - 1
    BY <1>1
<1>3. s \in Seq({0, 1}) /\ Len(s) = WordBits
  <2> DEFINE t == Tail(a)
  <2>1. t \in Seq({0, 1}) /\ Len(t) = WordBits - 1
      BY <1>2
  <2> HIDE DEF t
  <2>2. Append(t, b) \in Seq({0, 1}) /\ Len(Append(t, b)) = WordBits
      BY <2>1, WordSize
  <2> QED BY <2>2 DEF t
<1> HIDE DEF s
<1>4. s \in [1 .. WordBits -> {0, 1}]
    BY <1>3
<1> QED BY <1>4 DEF Word, s

LEMMA RefuseLength ==
    ASSUME NEW a, NEW nb, NEW l, NEW c, NEW p, NEW w, ~LenValid(Value(w))
    PROVE  LET rx == Rx("LEN", a, nb, l, c, p)
           IN  /\ TakeWord(rx, w) = RxInit
               /\ Completed(rx, w) = [result |-> "LEN_ERR", payload |-> <<>>]
<1> DEFINE rx == Rx("LEN", a, nb, l, c, p)
<1>1. rx.state = "LEN"
    BY DEF Rx
<1> HIDE DEF rx
<1>2. TakeWord(rx, w) = RxInit
    BY <1>1 DEF TakeWord
<1>3. Completed(rx, w) = [None EXCEPT !.result = "LEN_ERR"]
    BY <1>1 DEF Completed
<1>4. [None EXCEPT !.result = "LEN_ERR"] = [result |-> "LEN_ERR", payload |-> <<>>]
    BY DEF None
<1> QED BY <1>2, <1>3, <1>4 DEF rx

LEMMA TakeGood ==
    ASSUME NEW rx, GoodRx(rx), rx.state # "HUNT", NEW w \in Word
    PROVE  /\ GoodRx(TakeWord(rx, w))
           /\ Completed(rx, w) # None => GoodMessage(Completed(rx, w))
<1> DEFINE a == rx.acc
           nb == rx.nbits
           l == rx.len
           c == rx.crc
           p == rx.payload
<1>1. /\ rx = Rx(rx.state, a, nb, l, c, p) /\ rx.state \in {"LEN", "PAYLOAD", "CRC"}
      /\ l \in 0 .. MaxPayload /\ c \in Word /\ p \in Seq(Word)
      /\ Len(p) <= l
      /\ rx.state = "PAYLOAD" => Len(p) < l
      /\ rx.state = "CRC" => p # <<>>
    BY RxFields
<1> HIDE DEF a, nb, l, c, p
<1>2. CASE rx.state = "LEN" /\ LenValid(Value(w))
  <2>1. rx = Rx("LEN", a, nb, l, c, p)
      BY <1>1, <1>2
  <2>2. /\ TakeWord(rx, w) = Rx("PAYLOAD", Zero, 0, Value(w), Crc(Zero, w), <<>>)
        /\ Completed(rx, w) = None
      BY <1>2, <2>1, TakeLength
  <2>3. /\ Zero \in Word /\ 0 \in 0 .. WordBits - 1 /\ Value(w) \in 0 .. MaxPayload
        /\ Crc(Zero, w) \in Word /\ <<>> \in Seq(Word) /\ Len(<<>>) < Value(w)
        /\ Len(<<>>) <= Value(w)
      BY <1>2, CrcType, Constants, Sizes DEF LenValid
  <2>4. GoodRx(Rx("PAYLOAD", Zero, 0, Value(w), Crc(Zero, w), <<>>))
      BY <2>3, RxGood
  <2> QED BY <2>2, <2>4
<1>3. CASE rx.state = "LEN" /\ ~LenValid(Value(w))
  <2>1. rx = Rx("LEN", a, nb, l, c, p)
      BY <1>1, <1>3
  <2>2. /\ TakeWord(rx, w) = RxInit
        /\ Completed(rx, w) = [result |-> "LEN_ERR", payload |-> <<>>]
      BY <1>3, <2>1, RefuseLength
  <2>3. GoodMessage([result |-> "LEN_ERR", payload |-> <<>>])
      BY DEF GoodMessage, Message
  <2> QED BY <2>2, <2>3, RxInitGood
<1>4. CASE rx.state = "PAYLOAD"
  <2> DEFINE next == IF Len(p) + 1 >= l THEN "CRC" ELSE "PAYLOAD"
  <2>1. rx = Rx("PAYLOAD", a, nb, l, c, p) /\ Len(p) < l
      BY <1>1, <1>4
  <2>2. /\ TakeWord(rx, w) = Rx(next, Zero, 0, l, Crc(c, w), Append(p, w))
        /\ Completed(rx, w) = None
      BY <2>1, TakePayload
  <2>3. /\ Zero \in Word /\ 0 \in 0 .. WordBits - 1 /\ Crc(c, w) \in Word
        /\ next \in {"HUNT", "LEN", "PAYLOAD", "CRC"}
      BY <1>1, CrcType, Constants, Sizes
  <2>4. /\ Append(p, w) \in Seq(Word) /\ Len(Append(p, w)) = Len(p) + 1
        /\ Append(p, w) # <<>> /\ Len(p) \in Nat
      BY <1>1
  <2>5. Len(Append(p, w)) <= l /\ (next = "PAYLOAD" => Len(Append(p, w)) < l)
      BY <1>1, <2>1, <2>4
  <2> HIDE DEF next
  <2>6. GoodRx(Rx(next, Zero, 0, l, Crc(c, w), Append(p, w)))
      BY <1>1, <2>3, <2>4, <2>5, RxGood
  <2> QED BY <2>2, <2>6
<1>5. CASE rx.state = "CRC"
  <2>1. rx = Rx("CRC", a, nb, l, c, p)
      BY <1>1, <1>5
  <2>2. /\ TakeWord(rx, w) = RxInit
        /\ Completed(rx, w) = [result |-> IF w = c THEN "OK" ELSE "CRC_ERR", payload |-> p]
      BY <2>1, TakeChecksum
  <2>3. GoodMessage([result |-> IF w = c THEN "OK" ELSE "CRC_ERR", payload |-> p])
      BY <1>1, <1>5 DEF GoodMessage, Message
  <2> QED BY <2>2, <2>3, RxInitGood
<1> QED BY <1>1, <1>2, <1>3, <1>4, <1>5

\* Any bit leads from a sound receiver to a sound one, and what it completes is
\* a message.
LEMMA PushGood ==
    ASSUME NEW rx, GoodRx(rx), NEW b \in {0, 1}
    PROVE  /\ GoodRx(PushBit(rx, b))
           /\ Pushed(rx, b) # None => GoodMessage(Pushed(rx, b))
<1> DEFINE next == Append(Tail(rx.acc), b)
<1>1. next \in Word /\ Shifted(rx, b) = next
    BY RxFields, ShiftType DEF Shifted
<1> HIDE DEF next
<1>2. CASE WordDone(rx)
  <2>1. rx.state # "HUNT"
      BY <1>2 DEF WordDone
  <2> QED BY <1>1, <1>2, <2>1, TakeGood DEF PushBit, Pushed
<1>3. CASE ~WordDone(rx)
  <2>1. Pushed(rx, b) = None
      BY <1>3 DEF Pushed
  <2> DEFINE a == rx.acc
             nb == rx.nbits
             l == rx.len
             c == rx.crc
             p == rx.payload
             s == rx.state
  <2>2. /\ rx = Rx(s, a, nb, l, c, p) /\ s \in {"HUNT", "LEN", "PAYLOAD", "CRC"}
        /\ nb \in 0 .. WordBits - 1
        /\ l \in 0 .. MaxPayload /\ c \in Word /\ p \in Seq(Word)
        /\ Len(p) <= l
        /\ s = "PAYLOAD" => Len(p) < l
        /\ s = "CRC" => p # <<>>
        /\ s # "HUNT" => nb # WordBits - 1
      BY <1>3, RxFields DEF WordDone
  <2>3. CASE s # "HUNT"
    <3>1. next = Append(Tail(a), b)
        BY DEF next
    <3> HIDE DEF s, a, nb, l, c, p
    <3>2. PushBit(rx, b) = Rx(s, next, nb + 1, l, c, p)
      <4>1. PushBit(Rx(s, a, nb, l, c, p), b) = Rx(s, Append(Tail(a), b), nb + 1, l, c, p)
          BY <2>2, <2>3, PushWithin
      <4>2. rx = Rx(s, a, nb, l, c, p)
          BY <2>2
      <4> QED BY <3>1, <4>1, <4>2
    <3>3. nb + 1 \in 0 .. WordBits - 1
        BY <2>2, <2>3, WordSize
    <3>4. GoodRx(Rx(s, next, nb + 1, l, c, p))
        BY <1>1, <2>2, <3>3, RxGood
    <3> QED BY <2>1, <3>2, <3>4
  <2>4. CASE s = "HUNT"
    <3>1. PushBit(rx, b) = IF next = Sync THEN [RxInit EXCEPT !.state = "LEN"]
                           ELSE [rx EXCEPT !.acc = next]
        BY <1>1, <1>3, <2>4 DEF PushBit
    <3> HIDE DEF s, a, nb, l, c, p
    <3>2. [rx EXCEPT !.acc = next] = Rx(s, next, nb, l, c, p)
        BY <2>2 DEF Rx
    <3>3. GoodRx(Rx(s, next, nb, l, c, p))
        BY <1>1, <2>2, RxGood
    <3> QED BY <2>1, <3>1, <3>2, <3>3, RxInitGood
  <2> QED BY <2>3, <2>4
<1> QED BY <1>2, <1>3

\* What role A sends, bit by bit, is the rest of the present frame.
Total(k) == Len(FrameBits(k))

Sending ==
    /\ s_tx_seq \in Nat /\ left \in 0 .. BurstFrames
    /\ bursts \in 0 .. MaxBursts
    /\ s_tx_seq + left <= bursts * BurstFrames
    /\ out \in Seq({0, 1})
    /\ out # <<>> =>
          /\ left > 0
          /\ Len(out) <= Total(s_tx_seq)
          /\ \A i \in 1 .. Len(out) :
                out[i] = FrameBits(s_tx_seq)[Total(s_tx_seq) - Len(out) + i]

Receiving ==
    /\ GoodRx(s_rx)
    /\ s_rx_q \in Seq(Message) /\ Len(s_rx_q) <= QueueDepth
    /\ \A i \in 1 .. Len(s_rx_q) : s_rx_q[i].result = "OK" => s_rx_q[i].payload # <<>>
    /\ s_expect \in Nat
    /\ task \in [pc : {"loop", "clock", "idle", "ask"}, idle : BOOLEAN]
    /\ quiet \in BOOLEAN

TInv == AInv /\ Sending /\ Receiving

LEMMA Multiples ==
    ASSUME NEW R \in Nat, NEW a \in Nat, NEW b \in Nat, a <= b
    PROVE  a * R <= b * R /\ a * R \in Nat /\ (a + 1) * R = a * R + R
OBVIOUS

\* The frame being sent is one that has a payload.
LEMMA SendingFrame ==
    ASSUME Sending, left > 0
    PROVE  s_tx_seq \in Frames /\ s_tx_seq + 1 \in Frames
<1>1. bursts * BurstFrames <= MaxBursts * BurstFrames /\ bursts * BurstFrames \in Nat
      /\ MaxBursts * BurstFrames \in Nat
    BY Multiples, Sizes, FramesNat, LinkAssumption, ValuesType DEF Sending
<1>2. s_tx_seq + 1 <= bursts * BurstFrames
    BY <1>1 DEF Sending
<1> QED BY <1>1, <1>2, FramesNat DEF Sending

LEMMA InitSending == Init => Sending
<1> SUFFICES ASSUME Init PROVE Sending
    OBVIOUS
<1>1. 0 * BurstFrames = 0
    BY LinkAssumption, ValuesType
<1>2. out = <<>> /\ out \in Seq({0, 1})
    BY DEF Init
<1> QED BY <1>1, <1>2, LinkAssumption, ValuesType DEF Init, Sending

LEMMA BitSending ==
    ASSUME Sending, NEW flip, ClockBit(flip)
    PROVE  /\ Sending'
           /\ Head(out) = FrameBits(s_tx_seq)[Total(s_tx_seq) - Len(out) + 1]
           /\ Head(out) \in {0, 1}
           /\ Len(out) \in Nat /\ Len(out) >= 1 /\ Len(out') = Len(out) - 1
           /\ Total(s_tx_seq) \in Nat /\ Len(out) <= Total(s_tx_seq)
           /\ s_tx_seq \in Frames
           /\ (out' = <<>>) <=> (Len(out) = 1)
<1>1. /\ out # <<>> /\ out' = Tail(out) /\ bursts' = bursts
      /\ s_tx_seq' = IF Len(out) = 1 THEN s_tx_seq + 1 ELSE s_tx_seq
      /\ left' = IF Len(out) = 1 THEN left - 1 ELSE left
    BY DEF ClockBit
<1>2. /\ out \in Seq({0, 1}) /\ left > 0 /\ Len(out) <= Total(s_tx_seq)
      /\ \A i \in 1 .. Len(out) :
            out[i] = FrameBits(s_tx_seq)[Total(s_tx_seq) - Len(out) + i]
    BY <1>1 DEF Sending
<1>3. s_tx_seq \in Frames
    BY <1>2, SendingFrame
<1>4. Total(s_tx_seq) \in Nat
    BY <1>3, FrameBit DEF Total
<1>5. /\ Len(out) \in Nat /\ Len(out) >= 1 /\ Head(out) = out[1] /\ Head(out) \in {0, 1}
      /\ Tail(out) \in Seq({0, 1}) /\ Len(Tail(out)) = Len(out) - 1
      /\ \A i \in 1 .. Len(out) - 1 : Tail(out)[i] = out[i + 1]
      /\ (Tail(out) = <<>>) <=> (Len(out) = 1)
  <2>1. /\ Len(out) \in Nat /\ Len(out) >= 1 /\ Head(out) = out[1] /\ Head(out) \in {0, 1}
        /\ Tail(out) \in Seq({0, 1}) /\ Len(Tail(out)) = Len(out) - 1
        /\ \A i \in 1 .. Len(out) - 1 : Tail(out)[i] = out[i + 1]
      BY <1>1, <1>2
  <2>2. (Tail(out) = <<>>) <=> (Len(Tail(out)) = 0)
      BY <2>1, EmptySeq
  <2> QED BY <2>1, <2>2
<1>6. Head(out) = FrameBits(s_tx_seq)[Total(s_tx_seq) - Len(out) + 1]
    BY <1>2, <1>5
<1>7. CASE Len(out) = 1
  <2>1. out' = <<>>
      BY <1>1, <1>5, <1>7
  <2>2. /\ s_tx_seq' \in Nat /\ left' \in 0 .. BurstFrames
        /\ s_tx_seq' + left' = s_tx_seq + left
      BY <1>1, <1>2, <1>7, LinkAssumption, ValuesType DEF Sending
  <2>3. Sending'
      BY <1>1, <1>5, <2>1, <2>2 DEF Sending
  <2> QED BY <1>1, <1>3, <1>4, <1>5, <1>6, <1>2, <2>3
<1>8. CASE Len(out) # 1
  <2>1. s_tx_seq' = s_tx_seq /\ left' = left
      BY <1>1, <1>8
  <2>2. Len(out') = Len(out) - 1 /\ Len(out') <= Total(s_tx_seq)
      BY <1>1, <1>2, <1>4, <1>5
  <2>3. ASSUME NEW i \in 1 .. Len(out')
        PROVE  out'[i] = FrameBits(s_tx_seq)[Total(s_tx_seq) - Len(out') + i]
    <3>1. i \in 1 .. Len(out) - 1 /\ i + 1 \in 1 .. Len(out)
        BY <1>5, <2>2
    <3>2. out'[i] = out[i + 1]
        BY <1>1, <1>5, <3>1
    <3>3. Total(s_tx_seq) - Len(out) + (i + 1) = Total(s_tx_seq) - Len(out') + i
        BY <1>4, <1>5, <2>2
    <3>4. out[i + 1] = FrameBits(s_tx_seq)[Total(s_tx_seq) - Len(out) + (i + 1)]
        BY <1>2, <3>1
    <3> QED BY <3>2, <3>3, <3>4
  <2>4. Sending'
    <3>1. out' \in Seq({0, 1})
        BY <1>1, <1>5
    <3>2. Total(s_tx_seq)' = Total(s_tx_seq) /\ FrameBits(s_tx_seq)' = FrameBits(s_tx_seq)
        BY <2>1
    <3>3. /\ s_tx_seq' \in Nat /\ left' \in 0 .. BurstFrames /\ bursts' \in 0 .. MaxBursts
          /\ s_tx_seq' + left' <= bursts' * BurstFrames /\ left' > 0
        BY <1>1, <1>2, <2>1 DEF Sending
    <3> QED BY <2>2, <2>3, <3>1, <3>2, <3>3 DEF Sending
  <2> QED BY <1>1, <1>3, <1>4, <1>5, <1>6, <1>2, <2>4
<1> QED BY <1>7, <1>8

LEMMA NextSending == Sending /\ [Next]_vars => Sending'
<1> SUFFICES ASSUME Sending, [Next]_vars PROVE Sending'
    OBVIOUS
<1>0. BurstFrames \in Nat
    BY LinkAssumption, ValuesType
<1>1. CASE SendBit \/ FlipBit
    BY <1>1, BitSending DEF SendBit, FlipBit
<1>2. CASE StartBurst
  <2>1. /\ left = 0 /\ bursts < MaxBursts /\ left' = BurstFrames /\ bursts' = bursts + 1
        /\ s_tx_seq' = s_tx_seq /\ out' = out
      BY <1>2 DEF StartBurst
  <2>2. bursts' * BurstFrames = bursts * BurstFrames + BurstFrames
        /\ bursts * BurstFrames \in Nat
      BY <1>0, <2>1, Multiples DEF Sending
  <2>3. bursts' \in 0 .. MaxBursts /\ left' \in 0 .. BurstFrames
      BY <1>0, <2>1, Sizes DEF Sending
  <2>4. s_tx_seq' + left' <= bursts' * BurstFrames
      BY <1>0, <2>1, <2>2 DEF Sending
  <2>5. out = <<>>
      BY <2>1 DEF Sending
  <2> QED BY <2>1, <2>3, <2>4, <2>5 DEF Sending
<1>3. CASE StartFrame
  <2>1. left > 0 /\ out' = FrameBits(s_tx_seq) /\ UNCHANGED <<s_tx_seq, left, bursts>>
      BY <1>3 DEF StartFrame
  <2>2. s_tx_seq \in Frames
      BY <2>1, SendingFrame
  <2>3. FrameBits(s_tx_seq) \in Seq({0, 1}) /\ Total(s_tx_seq) \in Nat
      BY <2>2, FrameBit DEF Total
  <2>4. Len(out') = Total(s_tx_seq) /\ Total(s_tx_seq)' = Total(s_tx_seq)
      BY <2>1 DEF Total
  <2>5. \A i \in 1 .. Len(out') : Total(s_tx_seq) - Len(out') + i = i
      BY <2>3, <2>4
  <2>6. \A i \in 1 .. Len(out') :
            out'[i] = FrameBits(s_tx_seq)[Total(s_tx_seq) - Len(out') + i]
      BY <2>1, <2>5
  <2> QED BY <2>1, <2>3, <2>4, <2>6 DEF Sending
<1>4. CASE ResetA
  <2>1. s_tx_seq' = 0 /\ left' = 0 /\ out' = <<>> /\ bursts' = bursts
      BY <1>4 DEF ResetA
  <2>2. bursts * BurstFrames \in Nat
      BY <1>0, Multiples DEF Sending
  <2>3. out' \in Seq({0, 1})
      BY <2>1
  <2> QED BY <1>0, <2>1, <2>2, <2>3 DEF Sending
<1>5. CASE UNCHANGED sender
    BY <1>5 DEF sender, Sending
<1> QED BY <1>1, <1>2, <1>3, <1>4, <1>5
    DEF Next, roleA, Fault, Housekeeping, Silence, HandleRx, ReadClock, ReadLastBit, ReadState,
        Ask, Pull, Plug, ResetB, sender, vars

\* A bit adds at most one message to the queue, and never beyond its depth.
LEMMA BitReceiving ==
    ASSUME Receiving, NEW b \in {0, 1}, OnBit(b), task' = Overtaken, s_expect' = s_expect
    PROVE  Receiving'
<1> DEFINE msg == Pushed(Receiver, b)
<1>1. GoodRx(Receiver)
    BY RxInitGood DEF Receiver, Receiving
<1>2. GoodRx(s_rx') /\ (msg # None => GoodMessage(msg))
    BY <1>1, PushGood DEF OnBit
<1>3. /\ s_rx_q' \in Seq(Message) /\ Len(s_rx_q') <= QueueDepth
      /\ \A i \in 1 .. Len(s_rx_q') : s_rx_q'[i].result = "OK" => s_rx_q'[i].payload # <<>>
  <2> DEFINE grows == msg # None /\ ~(msg # None /\ Len(s_rx_q) >= QueueDepth)
  <2>1. s_rx_q' = IF grows THEN Append(s_rx_q, msg) ELSE s_rx_q
      BY DEF OnBit
  <2>2. /\ s_rx_q \in Seq(Message) /\ Len(s_rx_q) \in Nat /\ Len(s_rx_q) <= QueueDepth
        /\ \A i \in 1 .. Len(s_rx_q) : s_rx_q[i].result = "OK" => s_rx_q[i].payload # <<>>
      BY DEF Receiving
  <2>3. CASE grows
    <3>1. /\ msg \in Message /\ (msg.result = "OK" => msg.payload # <<>>)
          /\ ~(Len(s_rx_q) >= QueueDepth)
        BY <1>2, <2>3 DEF GoodMessage
    <3> HIDE DEF msg, grows
    <3>2. /\ Append(s_rx_q, msg) \in Seq(Message)
          /\ Len(Append(s_rx_q, msg)) = Len(s_rx_q) + 1
          /\ \A i \in 1 .. Len(s_rx_q) : Append(s_rx_q, msg)[i] = s_rx_q[i]
          /\ Append(s_rx_q, msg)[Len(s_rx_q) + 1] = msg
        BY <2>2, <3>1
    <3>3. ASSUME NEW i \in 1 .. Len(s_rx_q) + 1
          PROVE  Append(s_rx_q, msg)[i].result = "OK" => Append(s_rx_q, msg)[i].payload # <<>>
      <4>1. CASE i = Len(s_rx_q) + 1
          BY <3>1, <3>2, <4>1
      <4>2. CASE i # Len(s_rx_q) + 1
        <5>1. i \in 1 .. Len(s_rx_q)
            BY <2>2, <4>2
        <5> QED BY <2>2, <3>2, <5>1
      <4> QED BY <4>1, <4>2
    <3> QED BY <2>1, <2>2, <2>3, <3>1, <3>2, <3>3, Sizes
  <2>4. CASE ~grows
      BY <2>1, <2>2, <2>4
  <2> QED BY <2>3, <2>4
<1>4. task' \in [pc : {"loop", "clock", "idle", "ask"}, idle : BOOLEAN]
    BY DEF Overtaken, Receiving
<1>5. quiet' \in BOOLEAN /\ s_expect' \in Nat
    BY DEF OnBit, Receiving
<1> QED BY <1>2, <1>3, <1>4, <1>5 DEF Receiving

LEMMA ClockReceiving ==
    ASSUME Sending, Receiving, NEW flip \in BOOLEAN, ClockBit(flip)
    PROVE  Receiving'
<1>1. CASE plugged
  <2> DEFINE b == IF flip THEN 1 - Head(out) ELSE Head(out)
  <2>1. OnBit(b) /\ task' = Overtaken /\ s_expect' = s_expect
      BY <1>1 DEF ClockBit
  <2>2. b \in {0, 1}
      BY BitSending
  <2> HIDE DEF b
  <2> QED BY <2>1, <2>2, BitReceiving
<1>2. CASE ~plugged
    BY <1>2 DEF ClockBit, receiver, Receiving
<1> QED BY <1>1, <1>2

LEMMA ResyncType ==
    ASSUME NEW expected \in Nat, NEW w \in Word
    PROVE  ResyncIndex(expected, w) \in Nat
<1>1. Value(w) \in Nat
    BY ValueType
<1>2. (Value(w) - expected) % Values \in Nat
    BY <1>1, ValuesType
<1> QED BY <1>2 DEF ResyncIndex

LEMMA HandleReceiving == Receiving /\ HandleRx => Receiving'
<1> SUFFICES ASSUME Receiving, HandleRx PROVE Receiving'
    OBVIOUS
<1> DEFINE msg == Head(s_rx_q)
           k == IF msg.result = "OK" THEN ResyncIndex(s_expect, msg.payload[1]) ELSE s_expect
<1>1. /\ s_rx_q # <<>> /\ s_rx_q' = Tail(s_rx_q)
      /\ s_expect' = s_expect \/ s_expect' = k + 1
      /\ UNCHANGED <<s_rx, quiet, task>>
    BY DEF HandleRx
<1>2. /\ s_rx_q \in Seq(Message) /\ Len(s_rx_q) \in Nat /\ Len(s_rx_q) <= QueueDepth
      /\ \A i \in 1 .. Len(s_rx_q) : s_rx_q[i].result = "OK" => s_rx_q[i].payload # <<>>
    BY DEF Receiving
<1>3. /\ Tail(s_rx_q) \in Seq(Message) /\ Len(Tail(s_rx_q)) = Len(s_rx_q) - 1
      /\ \A i \in 1 .. Len(s_rx_q) - 1 : Tail(s_rx_q)[i] = s_rx_q[i + 1]
      /\ msg = s_rx_q[1] /\ 1 \in 1 .. Len(s_rx_q) /\ msg \in Message
    BY <1>1, <1>2
<1>4. k \in Nat
  <2>1. CASE msg.result = "OK"
    <3>1. msg.payload \in Seq(Word) /\ msg.payload # <<>>
        BY <1>2, <1>3, <2>1 DEF Message
    <3>2. msg.payload[1] \in Word
        BY <3>1
    <3>3. s_expect \in Nat
        BY DEF Receiving
    <3>4. ResyncIndex(s_expect, msg.payload[1]) \in Nat
        BY <3>2, <3>3, ResyncType
    <3> QED BY <2>1, <3>4
  <2>2. CASE msg.result # "OK"
      BY <2>2 DEF Receiving
  <2> QED BY <2>1, <2>2
<1> HIDE DEF k, msg
<1>5. s_expect' \in Nat
    BY <1>1, <1>4 DEF Receiving
<1>6. \A i \in 1 .. Len(s_rx_q') : s_rx_q'[i].result = "OK" => s_rx_q'[i].payload # <<>>
  <2>1. ASSUME NEW i \in 1 .. Len(s_rx_q')
        PROVE  s_rx_q'[i] = s_rx_q[i + 1] /\ i + 1 \in 1 .. Len(s_rx_q)
      BY <1>1, <1>2, <1>3
  <2> QED BY <1>2, <2>1
<1>7. s_rx_q' \in Seq(Message) /\ Len(s_rx_q') <= QueueDepth
    BY <1>1, <1>2, <1>3, Sizes
<1> QED BY <1>1, <1>5, <1>6, <1>7 DEF Receiving

LEMMA InitReceiving == Init => Receiving
<1> SUFFICES ASSUME Init PROVE Receiving
    OBVIOUS
<1>1. s_rx_q = <<>> /\ s_rx_q \in Seq(Message) /\ Len(s_rx_q) = 0
    BY DEF Init
<1> QED BY <1>1, RxInitGood, Sizes DEF Init, Receiving, TaskInit

LEMMA NextReceiving == Sending /\ Receiving /\ [Next]_vars => Receiving'
<1> SUFFICES ASSUME Sending, Receiving, [Next]_vars PROVE Receiving'
    OBVIOUS
<1>1. CASE SendBit \/ FlipBit
    BY <1>1, ClockReceiving DEF SendBit, FlipBit
<1>2. CASE HandleRx
    BY <1>2, HandleReceiving
<1>3. CASE StartBurst \/ StartFrame \/ Pull \/ Plug \/ ResetA
    BY <1>3 DEF StartBurst, StartFrame, Pull, Plug, ResetA, receiver, consumer, Receiving
<1>4. CASE Silence
    BY <1>4 DEF Silence, consumer, Receiving
<1>5. CASE Housekeeping
  <2>1. UNCHANGED <<s_rx, s_rx_q, s_expect, quiet>>
      BY <1>5 DEF Housekeeping, ReadClock, ReadLastBit, ReadState, Ask, receiver
  <2>2. task' \in [pc : {"loop", "clock", "idle", "ask"}, idle : BOOLEAN]
    <3>1. task \in [pc : {"loop", "clock", "idle", "ask"}, idle : BOOLEAN] /\ quiet \in BOOLEAN
        BY DEF Receiving
    <3>2. CASE ReadClock
      <4>1. \E pc \in {"clock", "idle"} : task' = [pc |-> pc, idle |-> quiet]
          BY <3>2 DEF ReadClock
      <4> QED BY <3>1, <4>1
    <3>3. CASE ReadLastBit \/ ReadState \/ Ask
      <4>1. \/ task' = [pc |-> "loop", idle |-> FALSE]
            \/ task' = [task EXCEPT !.pc = "idle"]
            \/ task' = [task EXCEPT !.pc = "ask"]
          BY <3>3 DEF ReadLastBit, ReadState, Ask, TaskInit
      <4>2. /\ [task EXCEPT !.pc = "idle"] \in [pc : {"loop", "clock", "idle", "ask"}, idle : BOOLEAN]
            /\ [task EXCEPT !.pc = "ask"] \in [pc : {"loop", "clock", "idle", "ask"}, idle : BOOLEAN]
            /\ [pc |-> "loop", idle |-> FALSE] \in [pc : {"loop", "clock", "idle", "ask"}, idle : BOOLEAN]
          BY <3>1
      <4> QED BY <4>1, <4>2
    <3> QED BY <1>5, <3>2, <3>3 DEF Housekeeping
  <2> QED BY <2>1, <2>2 DEF Receiving
<1>6. CASE ResetB
  <2>1. s_rx_q' = <<>> /\ s_rx_q' \in Seq(Message) /\ Len(s_rx_q') = 0
      BY <1>6 DEF ResetB
  <2>2. s_rx' = RxInit /\ quiet' = TRUE /\ task' = TaskInit /\ s_expect' = 0
      BY <1>6 DEF ResetB
  <2> QED BY <2>1, <2>2, RxInitGood, Sizes DEF Receiving, TaskInit
<1>7. CASE UNCHANGED vars
    BY <1>7 DEF vars, receiver, consumer, Receiving
<1> QED BY <1>1, <1>2, <1>3, <1>4, <1>5, <1>6, <1>7 DEF Next, roleA, Fault

\* The types: among them that role A never sends beyond the frames of its bursts,
\* that the queue stays within its depth, and that the receiver never takes more
\* words than the length it read.
THEOREM TypeCorrect == Spec => []TypeOK
<1>1. TInv => TypeOK
  <2> SUFFICES ASSUME TInv PROVE TypeOK
      OBVIOUS
  <2>1. s_tx_seq \in 0 .. MaxBursts * BurstFrames
    <3>1. bursts * BurstFrames <= MaxBursts * BurstFrames /\ bursts * BurstFrames \in Nat
          /\ MaxBursts * BurstFrames \in Nat
        BY Multiples, Sizes, LinkAssumption, ValuesType DEF TInv, Sending
    <3> QED BY <3>1, LinkAssumption, ValuesType DEF TInv, Sending
  <2> QED BY <2>1 DEF TInv, AInv, Counters, Sending, Receiving, GoodRx, Receivers, TypeOK
<1>2. Init => TInv
    BY InitAInv, InitSending, InitReceiving DEF TInv
<1>3. TInv /\ [Next]_vars => TInv'
    BY NextAInv, NextSending, NextReceiving DEF TInv
<1> QED BY <1>1, <1>2, <1>3, PTL DEF Spec

-----------------------------------------------------------------------------
(* A frame that arrives whole is delivered.                                *)

\* In the middle of a frame that has been intact so far, the receiver is where
\* the bits sent have led it.
Follow ==
    intact /\ out # <<>> /\ Len(out) < Total(s_tx_seq) =>
        s_rx = Reached(s_tx_seq, Total(s_tx_seq) - Len(out))

DInv == Sending /\ Follow /\ IntactFrameIsDelivered

LEMMA IntactBit ==
    ASSUME Sending, Follow, NEW flip \in BOOLEAN, ClockBit(flip), intact'
    PROVE  LET msg == Pushed(Receiver, Head(out))
           IN  /\ OnBit(Head(out)) /\ got' = msg
               /\ Len(out) = 1 =>
                    /\ msg = [result |-> "OK", payload |-> TestPayload(s_tx_seq)]
                    /\ s_rx' = RxInit
               /\ Len(out) # 1 =>
                    /\ msg = None
                    /\ s_rx' = Reached(s_tx_seq, Total(s_tx_seq) - Len(out'))
<1> DEFINE j == Total(s_tx_seq) - Len(out)
           msg == Pushed(Receiver, Head(out))
<1>1. /\ plugged /\ ~flip
      /\ IF FirstBit THEN s_rx_resync_req \/ s_rx = RxInit ELSE intact /\ ~s_rx_resync_req
    BY DEF ClockBit
<1>2. OnBit(Head(out))
    BY <1>1 DEF ClockBit
<1>3. /\ Head(out) = FrameBits(s_tx_seq)[j + 1] /\ s_tx_seq \in Frames
      /\ Len(out) \in Nat /\ Len(out) >= 1 /\ Len(out') = Len(out) - 1
      /\ Total(s_tx_seq) \in Nat /\ Len(out) <= Total(s_tx_seq) /\ out # <<>>
    BY BitSending DEF ClockBit
<1>4. j \in Nat /\ j < Total(s_tx_seq) /\ j + 1 = Total(s_tx_seq) - Len(out')
    BY <1>3
<1>5. Receiver = Reached(s_tx_seq, j)
  <2>1. CASE FirstBit
    <3>1. j = 0
        BY <1>3, <2>1 DEF FirstBit, Total
    <3>2. Receiver = RxInit
        BY <1>1, <2>1 DEF Receiver
    <3> HIDE DEF j
    <3> QED BY <1>3, <3>1, <3>2, ReachNothing
  <2>2. CASE ~FirstBit
    <3>1. Len(out) < Total(s_tx_seq)
        BY <1>3, <2>2 DEF FirstBit, Total
    <3>2. Receiver = s_rx
        BY <1>1, <2>2 DEF Receiver
    <3> QED BY <1>1, <1>3, <2>2, <3>1, <3>2 DEF Follow
  <2> QED BY <2>1, <2>2
<1>6. s_rx' = PushBit(Receiver, Head(out)) /\ got' = msg
    BY <1>2 DEF OnBit
<1>7. CASE Len(out) = 1
  <2>1. j + 1 = Len(FrameBits(s_tx_seq))
      BY <1>3, <1>7 DEF Total
  <2>2. /\ PushBit(Reached(s_tx_seq, j), FrameBits(s_tx_seq)[j + 1]) = RxInit
        /\ Pushed(Reached(s_tx_seq, j), FrameBits(s_tx_seq)[j + 1])
              = [result |-> "OK", payload |-> TestPayload(s_tx_seq)]
    <3> HIDE DEF j
    <3> QED BY <1>3, <1>4, <2>1, ReachBit DEF Total
  <2> HIDE DEF j
  <2> QED BY <1>2, <1>3, <1>5, <1>6, <1>7, <2>2
<1>8. CASE Len(out) # 1
  <2>1. j + 1 < Len(FrameBits(s_tx_seq))
      BY <1>3, <1>8 DEF Total
  <2>2. /\ PushBit(Reached(s_tx_seq, j), FrameBits(s_tx_seq)[j + 1]) = Reached(s_tx_seq, j + 1)
        /\ Pushed(Reached(s_tx_seq, j), FrameBits(s_tx_seq)[j + 1]) = None
    <3> HIDE DEF j
    <3> QED BY <1>3, <1>4, <2>1, ReachBit DEF Total
  <2>3. s_rx' = Reached(s_tx_seq, Total(s_tx_seq) - Len(out')) /\ msg = None
    <3> HIDE DEF j
    <3> QED BY <1>3, <1>4, <1>5, <1>6, <2>2
  <2> QED BY <1>2, <1>6, <1>8, <2>3
<1> QED BY <1>7, <1>8

LEMMA ClockDelivers ==
    ASSUME DInv, NEW flip \in BOOLEAN, ClockBit(flip)
    PROVE  Follow' /\ IntactFrameIsDelivered'
<1>1. /\ Len(out) \in Nat /\ Len(out) >= 1 /\ Len(out') = Len(out) - 1
      /\ ((out' = <<>>) <=> (Len(out) = 1)) /\ s_tx_seq \in Frames
    BY BitSending DEF DInv
<1>2. CASE ~intact'
    BY <1>2 DEF Follow, IntactFrameIsDelivered
<1>3. CASE intact' /\ Len(out) = 1
  <2>1. s_tx_seq' - 1 = s_tx_seq
    <3>1. s_tx_seq' = s_tx_seq + 1
        BY <1>3 DEF ClockBit
    <3> QED BY <1>1, <3>1, FramesNat
  <2>2. got' = [result |-> "OK", payload |-> TestPayload(s_tx_seq)]
      BY <1>3, IntactBit DEF DInv
  <2> QED BY <1>1, <1>3, <2>1, <2>2 DEF Follow, IntactFrameIsDelivered
<1>4. CASE intact' /\ Len(out) # 1
  <2>1. s_tx_seq' = s_tx_seq
      BY <1>4 DEF ClockBit
  <2>2. Total(s_tx_seq)' = Total(s_tx_seq)
      BY <2>1
  <2>3. s_rx' = Reached(s_tx_seq, Total(s_tx_seq) - Len(out'))
      BY <1>4, IntactBit DEF DInv
  <2>4. Follow'
      BY <2>1, <2>2, <2>3 DEF Follow
  <2> QED BY <1>1, <1>4, <2>4 DEF IntactFrameIsDelivered
<1> QED BY <1>2, <1>3, <1>4

followed == <<intact, out, s_tx_seq, s_rx, got>>

LEMMA NextDelivers == DInv /\ [Next]_vars => DInv'
<1> SUFFICES ASSUME DInv, [Next]_vars PROVE Follow' /\ IntactFrameIsDelivered'
    BY NextSending DEF DInv
<1>1. CASE SendBit \/ FlipBit
    BY <1>1, ClockDelivers DEF SendBit, FlipBit
<1>2. CASE StartFrame
  <2>1. s_tx_seq \in Frames /\ out' = FrameBits(s_tx_seq) /\ s_tx_seq' = s_tx_seq
      BY <1>2, SendingFrame DEF StartFrame, DInv
  <2>2. Len(out') = Total(s_tx_seq)' /\ Total(s_tx_seq)' \in Nat
      BY <2>1, FrameBit DEF Total
  <2>3. out' # <<>>
      BY <2>1, ReachNothing
  <2> QED BY <2>2, <2>3 DEF Follow, IntactFrameIsDelivered
<1>3. CASE ResetA \/ ResetB
    BY <1>3 DEF ResetA, ResetB, Follow, IntactFrameIsDelivered
<1>4. CASE UNCHANGED followed
    BY <1>4 DEF followed, DInv, Follow, IntactFrameIsDelivered, Total
<1> QED BY <1>1, <1>2, <1>3, <1>4
    DEF Next, roleA, Fault, Housekeeping, StartBurst, Silence, HandleRx, ReadClock, ReadLastBit,
        ReadState, Ask, Pull, Plug, sender, receiver, history, vars, followed

\* A frame whose bits all arrive at a receiver that hunts with an empty register,
\* or whose reset is pending, is completed by its last bit, whole and valid,
\* whatever happened before it: for every length of word and payload, and for
\* every polynomial.
THEOREM Delivered == Spec => []IntactFrameIsDelivered
<1>1. Init => DInv
    BY InitSending DEF Init, DInv, Follow, IntactFrameIsDelivered
<1>2. DInv => IntactFrameIsDelivered
    BY DEF DInv
<1> QED BY <1>1, <1>2, NextDelivers, PTL DEF Spec

-----------------------------------------------------------------------------
(* Without noise, nothing is blamed on the cable.                          *)

LEMMA Remainder ==
    ASSUME NEW R \in Nat, R >= 1, NEW q \in Int, NEW r \in 0 .. R - 1
    PROVE  (R * q + r) % R = r
OBVIOUS

\* The low bits tell which frame it is, unless a word's worth of frames is gone.
LEMMA Resyncs ==
    ASSUME NEW e \in Nat, NEW k \in Nat, k - e \in 0 .. Values - 1
    PROVE  ResyncIndex(e, ToWord(k)) = k
<1> DEFINE a == k \div Values
           b == k % Values
           d == k - e
<1>1. Values \in Nat /\ Values >= 1
    BY ValuesType
<1>2. a \in Nat /\ b \in 0 .. Values - 1 /\ k = Values * a + b
    BY <1>1, Division
<1>3. Value(ToWord(k)) = b
    BY ToWordLaws
<1>4. d \in 0 .. Values - 1 /\ k = e + d
    OBVIOUS
<1> HIDE DEF a, b, d
<1>5. Values * (-a) = -(Values * a) /\ Values * a \in Nat /\ -a \in Int
    BY <1>1, <1>2
<1>6. b - e = Values * (-a) + d
  <2> DEFINE x == Values * a
             y == Values * (-a)
  <2>1. x \in Nat /\ y = -x /\ k = x + b /\ b \in Nat /\ k = e + d
      BY <1>1, <1>2, <1>4, <1>5
  <2> HIDE DEF x, y
  <2>2. b - e = y + d
      BY <1>1, <1>4, <2>1
  <2> QED BY <2>2 DEF y
<1>7. (Values * (-a) + d) % Values = d
    BY <1>1, <1>4, <1>5, Remainder
<1>8. (b - e) % Values = d
    BY <1>6, <1>7
<1> QED BY <1>3, <1>4, <1>8 DEF ResyncIndex

Test(k) == [result |-> "OK", payload |-> TestPayload(k)]

\* Frames numbered by number, waiting in queue for a task that expects frame
\* expect: the frame after the one before the i-th.
After(expect, number, i) == IF i = 1 THEN expect ELSE number[i - 1] + 1

Numbered(number, queue, expect) ==
    /\ number \in [1 .. Len(queue) -> Frames]
    /\ \A i \in 1 .. Len(queue) :
          /\ queue[i] = Test(number[i])
          /\ number[i] - After(expect, number, i) \in 0 .. Values - 1

\* The queue holds test frames in the order in which they were sent; fewer than a
\* word can tell apart are missing between two of them, and at most lag between
\* the last one and the next that will be sent.
InOrder(queue, expect, next, lag) ==
    \E number : /\ Numbered(number, queue, expect)
                /\ next - After(expect, number, Len(queue) + 1) \in 0 .. lag

\* How many frames in a row may have been refused: all of a burst but the first.
Lag(l) == IF l = BurstFrames THEN BurstFrames - 1 ELSE BurstFrames - l - 1

LEMMA HeadInOrder ==
    ASSUME NEW queue \in Seq(Message), queue # <<>>, NEW expect \in Nat, NEW next \in Nat,
           NEW lag \in Int, InOrder(queue, expect, next, lag)
    PROVE  \E first \in Frames :
              /\ Head(queue) = Test(first) /\ first - expect \in 0 .. Values - 1
              /\ InOrder(Tail(queue), first + 1, next, lag)
<1>1. PICK number : /\ Numbered(number, queue, expect)
                    /\ next - After(expect, number, Len(queue) + 1) \in 0 .. lag
    BY DEF InOrder
<1> DEFINE n == Len(queue)
           first == number[1]
<1>2. /\ n \in Nat /\ n >= 1 /\ Head(queue) = queue[1] /\ Len(Tail(queue)) = n - 1
      /\ \A i \in 1 .. n - 1 : Tail(queue)[i] = queue[i + 1]
    OBVIOUS
<1>3. number \in [1 .. n -> Frames]
    BY <1>1 DEF Numbered
<1>4. /\ first \in Frames /\ Head(queue) = Test(first)
      /\ first - expect \in 0 .. Values - 1
  <2>1. 1 \in 1 .. n
      BY <1>2
  <2>2. queue[1] = Test(number[1]) /\ number[1] - After(expect, number, 1) \in 0 .. Values - 1
      BY <1>1, <2>1 DEF Numbered
  <2> QED BY <1>2, <1>3, <2>1, <2>2 DEF After
<1>5. PICK rest : rest = [i \in 1 .. n - 1 |-> number[i + 1]]
    OBVIOUS
<1>6. rest \in [1 .. n - 1 -> Frames]
  <2>1. \A i \in 1 .. n - 1 : i + 1 \in 1 .. n
      BY <1>2
  <2> QED BY <1>3, <1>5, <2>1
<1>7. ASSUME NEW i \in 1 .. n
      PROVE  After(first + 1, rest, i) = After(expect, number, i + 1)
  <2>1. After(expect, number, i + 1) = number[i] + 1
      BY <1>2 DEF After
  <2>2. CASE i = 1
      BY <2>1, <2>2 DEF After
  <2>3. CASE i # 1
    <3>1. i - 1 \in 1 .. n - 1 /\ (i - 1) + 1 = i
        BY <1>2, <2>3
    <3>2. rest[i - 1] = number[i]
        BY <1>5, <3>1
    <3> QED BY <2>1, <2>3, <3>2 DEF After
  <2> QED BY <2>2, <2>3
<1>8. Numbered(rest, Tail(queue), first + 1)
  <2>1. ASSUME NEW i \in 1 .. n - 1
        PROVE  /\ Tail(queue)[i] = Test(rest[i])
               /\ rest[i] - After(first + 1, rest, i) \in 0 .. Values - 1
    <3>1. i \in 1 .. n /\ i + 1 \in 1 .. n /\ rest[i] = number[i + 1]
        BY <1>2, <1>5
    <3>2. /\ queue[i + 1] = Test(number[i + 1])
          /\ number[i + 1] - After(expect, number, i + 1) \in 0 .. Values - 1
        BY <1>1, <3>1 DEF Numbered
    <3>3. After(first + 1, rest, i) = After(expect, number, i + 1)
        BY <1>7, <3>1
    <3> HIDE DEF first
    <3> QED BY <1>2, <3>1, <3>2, <3>3
  <2> HIDE DEF first
  <2> QED BY <1>2, <1>6, <2>1 DEF Numbered
<1>9. next - After(first + 1, rest, Len(Tail(queue)) + 1) \in 0 .. lag
  <2>1. n \in 1 .. n /\ Len(Tail(queue)) + 1 = n
      BY <1>2
  <2>2. After(first + 1, rest, n) = After(expect, number, n + 1)
      BY <1>7, <2>1
  <2> HIDE DEF first
  <2> QED BY <1>1, <2>1, <2>2
<1> HIDE DEF first
<1> QED BY <1>4, <1>8, <1>9 DEF InOrder

LEMMA AppendInOrder ==
    ASSUME NEW queue \in Seq(Message), NEW expect \in Nat, NEW next \in Frames, next + 1 \in Nat,
           NEW lag \in Int, lag <= Values - 1, InOrder(queue, expect, next, lag),
           NEW more \in Nat
    PROVE  InOrder(Append(queue, Test(next)), expect, next + 1, more)
<1>1. PICK number : /\ Numbered(number, queue, expect)
                    /\ next - After(expect, number, Len(queue) + 1) \in 0 .. lag
    BY DEF InOrder
<1> DEFINE n == Len(queue)
           longer == Append(queue, Test(next))
<1>2. /\ n \in Nat /\ Len(longer) = n + 1 /\ longer[n + 1] = Test(next)
      /\ \A i \in 1 .. n : longer[i] = queue[i]
    OBVIOUS
<1>3. number \in [1 .. n -> Frames]
    BY <1>1 DEF Numbered
<1>4. PICK all : all = [i \in 1 .. n + 1 |-> IF i = n + 1 THEN next ELSE number[i]]
    OBVIOUS
<1>5. /\ all \in [1 .. n + 1 -> Frames] /\ all[n + 1] = next
      /\ \A i \in 1 .. n : all[i] = number[i]
  <2>1. n + 1 \in 1 .. n + 1 /\ \A i \in 1 .. n + 1 : i # n + 1 => i \in 1 .. n
      BY <1>2
  <2>2. \A i \in 1 .. n : i \in 1 .. n + 1 /\ i # n + 1
      BY <1>2
  <2> QED BY <1>3, <1>4, <2>1, <2>2
<1>6. ASSUME NEW i \in 1 .. n + 1
      PROVE  After(expect, all, i) = After(expect, number, i)
  <2>1. CASE i = 1
      BY <2>1 DEF After
  <2>2. CASE i # 1
    <3>1. i - 1 \in 1 .. n
        BY <1>2, <2>2
    <3> QED BY <1>5, <2>2, <3>1 DEF After
  <2> QED BY <2>1, <2>2
<1>7. Numbered(all, longer, expect)
  <2>1. ASSUME NEW i \in 1 .. n + 1
        PROVE  /\ longer[i] = Test(all[i])
               /\ all[i] - After(expect, all, i) \in 0 .. Values - 1
    <3>1. CASE i = n + 1
      <4>1. next - After(expect, number, n + 1) \in 0 .. Values - 1
          BY <1>1, ValuesType
      <4> HIDE DEF longer
      <4> QED BY <1>2, <1>5, <1>6, <3>1, <4>1
    <3>2. CASE i # n + 1
      <4>1. i \in 1 .. n
          BY <1>2, <3>2
      <4>2. queue[i] = Test(number[i]) /\ number[i] - After(expect, number, i) \in 0 .. Values - 1
          BY <1>1, <4>1 DEF Numbered
      <4> HIDE DEF longer
      <4> QED BY <1>2, <1>5, <1>6, <4>1, <4>2
    <3> QED BY <3>1, <3>2
  <2> HIDE DEF longer
  <2> QED BY <1>2, <1>5, <2>1 DEF Numbered
<1>8. (next + 1) - After(expect, all, Len(longer) + 1) \in 0 .. more
  <2>1. After(expect, all, n + 1 + 1) = next + 1
      BY <1>2, <1>5 DEF After
  <2>2. (next + 1) - (next + 1) = 0
      BY FramesNat
  <2> HIDE DEF longer
  <2> QED BY <1>2, <2>1, <2>2
<1> HIDE DEF longer
<1>9. InOrder(longer, expect, next + 1, more)
    BY <1>7, <1>8 DEF InOrder
<1> QED BY <1>9 DEF longer

\* A longer lag is a weaker claim; a refused frame makes the lag longer by one.
LEMMA RefuseInOrder ==
    ASSUME NEW queue \in Seq(Message), NEW expect \in Nat, NEW next \in Frames,
           NEW lag \in Int, InOrder(queue, expect, next, lag)
    PROVE  InOrder(queue, expect, next + 1, lag + 1)
<1>1. PICK number : /\ Numbered(number, queue, expect)
                    /\ next - After(expect, number, Len(queue) + 1) \in 0 .. lag
    BY DEF InOrder
<1> DEFINE last == After(expect, number, Len(queue) + 1)
<1>2. last \in Nat
  <2>1. number \in [1 .. Len(queue) -> Frames] /\ Len(queue) \in Nat
      BY <1>1 DEF Numbered
  <2>2. CASE Len(queue) = 0
      BY <2>2 DEF After
  <2>3. CASE Len(queue) # 0
    <3>1. Len(queue) \in 1 .. Len(queue) /\ Len(queue) + 1 # 1 /\ (Len(queue) + 1) - 1 = Len(queue)
        BY <2>1, <2>3
    <3>2. number[Len(queue)] \in Nat
        BY <2>1, <3>1, FramesNat
    <3> QED BY <3>1, <3>2 DEF After
  <2> QED BY <2>2, <2>3
<1>3. (next + 1) - last \in 0 .. lag + 1
  <2>1. next - last \in 0 .. lag /\ next \in Nat
      BY <1>1, FramesNat
  <2> HIDE DEF last
  <2> QED BY <1>2, <2>1
<1> QED BY <1>1, <1>3 DEF InOrder

Clean ==
    /\ IF out = <<>> \/ FirstBit THEN s_rx = RxInit ELSE intact
    /\ completed = s_tx_seq
    /\ left = BurstFrames => s_rx_q = <<>>

Unblamed == s_stats.crc_err = 0 /\ s_stats.len_err = 0 /\ ~s_stats.bit_errors

Undisturbed ==
    ~noise => Clean /\ Unblamed /\ InOrder(s_rx_q, s_expect, s_tx_seq, Lag(left))

NInv == TInv /\ DInv /\ Undisturbed

LEMMA LagType ==
    ASSUME NEW l \in 0 .. BurstFrames
    PROVE  /\ BurstFrames \in Nat /\ BurstFrames >= 1
           /\ Lag(l) \in Int /\ Lag(l) <= Values - 1
           /\ l < BurstFrames => Lag(l) \in Nat
           /\ l > 0 /\ l < BurstFrames => Lag(l - 1) = Lag(l) + 1
           /\ Lag(0) = Lag(BurstFrames)
BY LinkAssumption, ValuesType DEF Lag

LEMMA HandleUndisturbed ==
    ASSUME NInv, HandleRx, ~noise
    PROVE  Undisturbed'
<1> DEFINE msg == Head(s_rx_q)
<1>1. /\ s_rx_q \in Seq(Message) /\ s_rx_q # <<>> /\ s_rx_q' = Tail(s_rx_q)
      /\ s_expect \in Nat /\ s_tx_seq \in Nat /\ left \in 0 .. BurstFrames
      /\ UNCHANGED <<s_tx_seq, left, out, s_rx, intact, completed, noise>>
    BY DEF HandleRx, NInv, TInv, Receiving, Sending, sender, history
<1>2. InOrder(s_rx_q, s_expect, s_tx_seq, Lag(left)) /\ Lag(left) \in Int
    BY <1>1, LagType DEF NInv, Undisturbed
<1>3. PICK first \in Frames :
          /\ msg = Test(first) /\ first - s_expect \in 0 .. Values - 1
          /\ InOrder(Tail(s_rx_q), first + 1, s_tx_seq, Lag(left))
    BY <1>1, <1>2, HeadInOrder
<1>4. /\ msg.result = "OK" /\ msg.payload = TestPayload(first)
      /\ ResyncIndex(s_expect, msg.payload[1]) = first
  <2>1. msg.payload = TestPayload(first) /\ msg.result = "OK"
      BY <1>3 DEF Test
  <2>2. TestPayload(first)[1] = ToWord(first)
      BY PayloadType
  <2>3. ResyncIndex(s_expect, ToWord(first)) = first
      BY <1>1, <1>3, FramesNat, Resyncs
  <2> QED BY <2>1, <2>2, <2>3
<1>5. s_stats' = Account(msg, first) /\ s_expect' = first + 1
    BY <1>4 DEF HandleRx
<1>6. Unblamed'
  <2>1. s_stats \in Stats /\ Unblamed
      BY DEF NInv, TInv, AInv, Counters, Undisturbed
  <2>2. ~Differs(msg.payload, TestPayload(first))
    <3>1. TestPayload(first) \in Seq(Word)
        BY PayloadType
    <3> QED BY <1>4, <3>1 DEF Differs
  <2> DEFINE bad == s_stats.bit_errors \/ Differs(msg.payload, TestPayload(first))
             good == s_stats.ok + 1
             wrong == s_stats.crc_err
  <2>3. s_stats' = [s_stats EXCEPT !.ok = good, !.crc_err = wrong, !.bit_errors = bad]
      BY <1>4, <1>5 DEF Account
  <2>4. ~bad /\ wrong = 0
      BY <2>1, <2>2 DEF Unblamed
  <2> HIDE DEF bad, good, wrong
  <2>5. s_stats'.crc_err = wrong /\ s_stats'.bit_errors = bad /\ s_stats'.len_err = s_stats.len_err
      BY <2>1, <2>3 DEF Stats
  <2> QED BY <2>1, <2>4, <2>5 DEF Unblamed
<1>7. Clean'
  <2>1. Clean
      BY DEF NInv, Undisturbed
  <2>2. left # BurstFrames
      BY <1>1, <2>1 DEF Clean
  <2> QED BY <1>1, <2>1, <2>2 DEF Clean, FirstBit
<1>8. InOrder(s_rx_q, s_expect, s_tx_seq, Lag(left))'
  <2>1. Lag(left)' = Lag(left)
      BY <1>1
  <2> QED BY <1>1, <1>3, <1>5, <2>1
<1> QED BY <1>6, <1>7, <1>8 DEF Undisturbed

\* The bit that completes a frame hands it to the queue, or finds the queue full
\* of frames of the same burst.
LEMMA BitUndisturbed ==
    ASSUME NInv, NEW flip \in BOOLEAN, ClockBit(flip), ~noise'
    PROVE  Undisturbed'
<1> DEFINE msg == Pushed(Receiver, Head(out))
           full == msg # None /\ Len(s_rx_q) >= QueueDepth
<1>1. /\ ~noise /\ plugged /\ ~flip /\ (s_rx_resync_req => FirstBit)
      /\ out # <<>> /\ UNCHANGED <<s_expect, s_stats>>
      /\ intact' = (/\ plugged /\ ~flip
                    /\ IF FirstBit THEN s_rx_resync_req \/ s_rx = RxInit
                       ELSE intact /\ ~s_rx_resync_req)
    BY DEF ClockBit
<1>2. Clean /\ Unblamed /\ InOrder(s_rx_q, s_expect, s_tx_seq, Lag(left))
    BY <1>1 DEF NInv, Undisturbed
<1>3. intact'
    BY <1>1, <1>2 DEF Clean
<1>4. /\ Len(out) \in Nat /\ Len(out) >= 1 /\ Len(out') = Len(out) - 1 /\ s_tx_seq \in Frames
      /\ Total(s_tx_seq) \in Nat /\ Len(out) <= Total(s_tx_seq)
      /\ ((out' = <<>>) <=> (Len(out) = 1))
    BY BitSending DEF NInv, TInv
<1>5. /\ s_rx_q \in Seq(Message) /\ s_expect \in Nat /\ left \in 1 .. BurstFrames
  <2>1. left \in 0 .. BurstFrames /\ left > 0
      BY <1>1 DEF NInv, TInv, Sending
  <2> QED BY <2>1, LagType DEF NInv, TInv, Receiving
<1>6. /\ OnBit(Head(out))
      /\ Len(out) = 1 => msg = Test(s_tx_seq) /\ s_rx' = RxInit
      /\ Len(out) # 1 => msg = None
    BY <1>3, IntactBit DEF NInv, DInv, Test
<1>7. /\ s_rx_q' = IF msg # None /\ ~full THEN Append(s_rx_q, msg) ELSE s_rx_q
      /\ completed' = IF msg # None THEN completed + 1 ELSE completed
    BY <1>6 DEF OnBit
<1>8. /\ s_tx_seq' = IF Len(out) = 1 THEN s_tx_seq + 1 ELSE s_tx_seq
      /\ left' = IF Len(out) = 1 THEN left - 1 ELSE left
    BY DEF ClockBit
<1>9. Unblamed'
    BY <1>1, <1>2 DEF Unblamed
<1>a. CASE Len(out) # 1
  <2>1. UNCHANGED <<s_rx_q, completed, s_tx_seq, left, s_expect>>
      BY <1>1, <1>6, <1>7, <1>8, <1>a
  <2>2. ~FirstBit'
    <3>1. Total(s_tx_seq)' = Total(s_tx_seq)
        BY <2>1
    <3>2. FirstBit' <=> Len(out') = Total(s_tx_seq)'
        BY DEF FirstBit, Total
    <3> QED BY <1>4, <3>1, <3>2
  <2>3. Clean'
      BY <1>2, <1>3, <1>4, <1>a, <2>1, <2>2 DEF Clean
  <2>4. Lag(left)' = Lag(left)
      BY <2>1
  <2> QED BY <1>2, <1>9, <2>1, <2>3, <2>4 DEF Undisturbed
<1>b. CASE Len(out) = 1
  <2>1. msg = Test(s_tx_seq) /\ msg # None /\ s_rx' = RxInit /\ out' = <<>>
      BY <1>4, <1>6, <1>b DEF Test, None
  <2>2. completed' = completed + 1 /\ s_tx_seq' = s_tx_seq + 1 /\ left' = left - 1
      BY <1>7, <1>8, <1>b, <2>1
  <2>3. Clean'
    <3>1. left' # BurstFrames
        BY <1>5, <2>2, LagType
    <3> QED BY <1>2, <2>1, <2>2, <3>1 DEF Clean
  <2>4. s_tx_seq \in Nat /\ left \in 0 .. BurstFrames /\ left - 1 \in 0 .. BurstFrames
        /\ left - 1 < BurstFrames /\ Lag(left) \in Int /\ Lag(left) <= Values - 1
        /\ Lag(left - 1) \in Nat
      BY <1>4, <1>5, FramesNat, LagType
  <2>5. InOrder(s_rx_q', s_expect, s_tx_seq + 1, Lag(left - 1))
    <3>1. CASE ~full
      <4>1. s_rx_q' = Append(s_rx_q, Test(s_tx_seq))
          BY <1>7, <2>1, <3>1
      <4> QED BY <1>2, <1>4, <1>5, <2>4, <4>1, AppendInOrder
    <3>2. CASE full
      <4>1. s_rx_q' = s_rx_q
          BY <1>7, <3>2
      <4>2. s_rx_q # <<>>
        <5>1. Len(s_rx_q) >= 1
            BY <1>5, <3>2, LinkAssumption
        <5> QED BY <5>1
      <4>3. left # BurstFrames
          BY <1>2, <4>2 DEF Clean
      <4>4. Lag(left - 1) = Lag(left) + 1
          BY <1>5, <2>4, <4>3, LagType
      <4> QED BY <1>2, <1>4, <1>5, <2>4, <4>1, <4>4, RefuseInOrder
    <3> QED BY <3>1, <3>2
  <2>6. InOrder(s_rx_q, s_expect, s_tx_seq, Lag(left))'
    <3>1. Lag(left)' = Lag(left - 1)
        BY <2>2 DEF Lag
    <3> QED BY <1>1, <2>2, <2>5, <3>1
  <2> QED BY <1>9, <2>3, <2>6 DEF Undisturbed
<1> QED BY <1>a, <1>b

undisturbed ==
    <<out, s_tx_seq, left, intact, s_rx, s_rx_q, s_expect, s_stats, completed, noise>>

LEMMA NextUndisturbed == NInv /\ [Next]_vars => Undisturbed'
<1> SUFFICES ASSUME NInv, [Next]_vars, ~noise' PROVE Undisturbed'
    BY DEF Undisturbed
<1>1. CASE SendBit \/ FlipBit
    BY <1>1, BitUndisturbed DEF SendBit, FlipBit
<1>2. CASE HandleRx
  <2>1. ~noise
      BY <1>2 DEF HandleRx, history
  <2> QED BY <1>2, <2>1, HandleUndisturbed
<1>3. CASE StartBurst
  <2>1. /\ left = 0 /\ s_rx_q = <<>> /\ left' = BurstFrames /\ ~noise
        /\ UNCHANGED <<out, s_tx_seq, intact, s_rx, s_rx_q, s_expect, s_stats, completed>>
      BY <1>3 DEF StartBurst, receiver, consumer, history
  <2>2. Lag(left)' = Lag(left)
    <3>1. Lag(left)' = Lag(BurstFrames) /\ Lag(left) = Lag(0)
        BY <2>1 DEF Lag
    <3>2. 0 \in 0 .. BurstFrames
        BY LinkAssumption, ValuesType
    <3> QED BY <3>1, <3>2, LagType
  <2>3. Clean /\ Unblamed /\ InOrder(s_rx_q, s_expect, s_tx_seq, Lag(left))
      BY <2>1 DEF NInv, Undisturbed
  <2> QED BY <2>1, <2>2, <2>3 DEF Undisturbed, Clean, FirstBit, Unblamed
<1>4. CASE StartFrame
  <2>1. /\ out = <<>> /\ out' = FrameBits(s_tx_seq) /\ ~noise
        /\ UNCHANGED <<left, s_tx_seq, intact, s_rx, s_rx_q, s_expect, s_stats, completed>>
      BY <1>4 DEF StartFrame, receiver, consumer, history
  <2>2. Clean /\ Unblamed /\ InOrder(s_rx_q, s_expect, s_tx_seq, Lag(left))
      BY <2>1 DEF NInv, Undisturbed
  <2>3. FirstBit'
      BY <2>1 DEF FirstBit
  <2>4. Lag(left)' = Lag(left)
      BY <2>1
  <2> QED BY <2>1, <2>2, <2>3, <2>4 DEF Undisturbed, Clean, Unblamed
<1>5. CASE ResetA \/ ResetB
    BY <1>5 DEF ResetA, ResetB
<1>6. CASE UNCHANGED undisturbed
  <2>1. Clean /\ Unblamed /\ InOrder(s_rx_q, s_expect, s_tx_seq, Lag(left))
      BY <1>6 DEF NInv, Undisturbed, undisturbed
  <2>2. Lag(left)' = Lag(left)
      BY <1>6 DEF undisturbed
  <2> QED BY <1>6, <2>1, <2>2 DEF Undisturbed, Clean, FirstBit, Unblamed, undisturbed
<1> QED BY <1>1, <1>2, <1>3, <1>4, <1>5, <1>6
    DEF Next, roleA, Fault, Housekeeping, Silence, ReadClock, ReadLastBit, ReadState, Ask, Pull,
        Plug, sender, receiver, consumer, history, vars, undisturbed

\* On a line without noise nothing is blamed on the cable, however the task and
\* the interrupts interleave and however many frames the full queue refuses: the
\* task finds each frame's number from its low bits, because a queue that is
\* emptied between bursts never loses a word's worth of frames in a row.
THEOREM NothingBlamed == Spec => []NoPhantomErrors
<1>1. Init => NInv
  <2> SUFFICES ASSUME Init PROVE NInv
      OBVIOUS
  <2>1. TInv
      BY InitAInv, InitSending, InitReceiving DEF TInv
  <2>2. DInv
      BY InitSending DEF Init, DInv, Follow, IntactFrameIsDelivered
  <2>3. Clean /\ Unblamed
    <3>1. 0 # BurstFrames
        BY LinkAssumption, ValuesType
    <3> QED BY <3>1 DEF Init, StatsInit, Clean, Unblamed
  <2>4. InOrder(s_rx_q, s_expect, s_tx_seq, Lag(left))
    <3>1. /\ s_rx_q = <<>> /\ Len(s_rx_q) = 0 /\ s_expect = 0 /\ s_tx_seq = 0 /\ left = 0
        BY DEF Init
    <3>2. PICK number : number = [i \in 1 .. 0 |-> 0]
        OBVIOUS
    <3>3. Numbered(number, s_rx_q, s_expect)
        BY <3>1, <3>2 DEF Numbered
    <3>4. After(s_expect, number, Len(s_rx_q) + 1) = 0
        BY <3>1 DEF After
    <3>5. 0 - 0 \in 0 .. Lag(0)
        BY LinkAssumption, ValuesType DEF Lag
    <3> QED BY <3>1, <3>3, <3>4, <3>5 DEF InOrder
  <2> QED BY <2>1, <2>2, <2>3, <2>4 DEF NInv, Undisturbed
<1>2. NInv /\ [Next]_vars => NInv'
    BY NextAInv, NextSending, NextReceiving, NextDelivers, NextUndisturbed DEF NInv, TInv
<1>3. NInv => NoPhantomErrors
  <2> SUFFICES ASSUME NInv, ~noise PROVE NoPhantomErrors
      BY DEF NoPhantomErrors
  <2>1. Clean /\ Unblamed
      BY DEF NInv, Undisturbed
  <2>2. /\ completed = s_stats.ok + s_stats.crc_err + s_stats.len_err + Len(s_rx_q) + s_rx_dropped
        /\ s_stats \in Stats
      BY DEF NInv, TInv, AInv, Counters, EveryFrameAccounted
  <2>3. s_rx_q \in Seq(Message) /\ s_rx_dropped \in Nat
      BY DEF NInv, TInv, AInv, Counters, Receiving
  <2> QED BY <2>1, <2>2, <2>3 DEF NoPhantomErrors, Clean, Unblamed, Stats
<1> QED BY <1>1, <1>2, <1>3, PTL DEF Spec

-----------------------------------------------------------------------------
(* The simulated link.  What its receiver knows of a word, the firmware's  *)
(* has in its register.                                                    *)

\* A word has one value, and the word of a value is that word.
LEMMA ValueDetermines ==
    ASSUME NEW v \in Word, NEW w \in Word, Value(v) = Value(w)
    PROVE  v = w
<1>1. PICK g : Sums(g, v, WordBits) /\ Value(v) = g[WordBits]
    BY ValueUnfolds
<1>2. PICK h : Sums(h, w, WordBits) /\ Value(w) = h[WordBits]
    BY ValueUnfolds
<1>3. /\ g \in [0 .. WordBits -> Nat] /\ \A i \in 1 .. WordBits : g[i] = 2 * g[i - 1] + v[i]
      /\ h \in [0 .. WordBits -> Nat] /\ \A i \in 1 .. WordBits : h[i] = 2 * h[i - 1] + w[i]
    BY <1>1, <1>2 DEF Sums
<1>4. /\ v \in [1 .. WordBits -> {0, 1}] /\ w \in [1 .. WordBits -> {0, 1}]
      /\ WordBits \in Nat
    BY WordSize DEF Word
<1>5. \A a, b \in Nat : \A x, y \in {0, 1} : 2 * a + x = 2 * b + y => a = b /\ x = y
    OBVIOUS
<1>6. ASSUME NEW i \in 1 .. WordBits, g[i] = h[i]
      PROVE  g[i - 1] = h[i - 1] /\ v[i] = w[i]
  <2>1. g[i - 1] \in Nat /\ h[i - 1] \in Nat /\ v[i] \in {0, 1} /\ w[i] \in {0, 1}
      BY <1>3, <1>4
  <2>2. 2 * g[i - 1] + v[i] = 2 * h[i - 1] + w[i]
      BY <1>3, <1>6
  <2> QED BY <1>5, <2>1, <2>2
<1> DEFINE S == {j \in 0 .. WordBits : g[WordBits - j] = h[WordBits - j]}
<1>7. 0 \in S
  <2>1. WordBits - 0 = WordBits /\ 0 \in 0 .. WordBits
      BY <1>4
  <2> QED BY <1>1, <1>2, <2>1
<1>8. ASSUME NEW j \in 1 .. WordBits, j - 1 \in S PROVE j \in S
  <2>1. WordBits - (j - 1) \in 1 .. WordBits /\ (WordBits - (j - 1)) - 1 = WordBits - j
      BY <1>4
  <2> QED BY <1>6, <1>8, <2>1
<1>9. 0 .. WordBits \subseteq S
  <2> HIDE DEF S
  <2> QED BY <1>4, <1>7, <1>8, Induct
<1>10. ASSUME NEW i \in 1 .. WordBits PROVE v[i] = w[i]
  <2>1. WordBits - i \in 0 .. WordBits /\ WordBits - (WordBits - i) = i
      BY <1>4
  <2>2. WordBits - i \in S
      BY <1>9, <2>1
  <2>3. g[i] = h[i]
      BY <2>1, <2>2
  <2> QED BY <1>6, <2>3
<1> QED BY <1>4, <1>10

LEMMA WordOfValue ==
    ASSUME NEW w \in Word, Value(w) < Values
    PROVE  ToWord(Value(w)) = w
<1>1. Value(w) \in Nat
    BY ValueType
<1>2. ToWord(Value(w)) \in Word /\ Value(ToWord(Value(w))) = Value(w)
    BY <1>1, ToWordLaws
<1> QED BY <1>2, ValueDetermines

\* One word more under a checksum.
LEMMA ChecksumGrows ==
    ASSUME NEW w \in Word, NEW p \in Seq(Word), NEW x \in Word
    PROVE  /\ Checksum(<<w>> \o Append(p, x)) = Crc(Checksum(<<w>> \o p), x)
           /\ Checksum(<<w>> \o <<>>) = Crc(Zero, w)
<1> DEFINE short == <<w>> \o p
           long == <<w>> \o Append(p, x)
           n == Len(p) + 1
<1>1. /\ short \in Seq(Word) /\ long \in Seq(Word)
      /\ Len(short) = n /\ Len(long) = n + 1 /\ n \in Nat /\ long[n + 1] = x
      /\ \A i \in 1 .. n : short[i] = long[i]
    OBVIOUS
<1> HIDE DEF short, long, n
<1>2. /\ Checksum(short) = Sum(short)[n] /\ Sum(short)[0] = Zero
      /\ \A i \in 1 .. n : Sum(short)[i] = Crc(Sum(short)[i - 1], short[i])
    BY <1>1, SumUnfolds
<1>3. /\ Checksum(long) = Sum(long)[n + 1] /\ Sum(long)[0] = Zero
      /\ \A i \in 1 .. n + 1 : Sum(long)[i] = Crc(Sum(long)[i - 1], long[i])
    BY <1>1, SumUnfolds
<1> DEFINE S == {i \in 0 .. n : Sum(short)[i] = Sum(long)[i]}
<1>4. 0 \in S
    BY <1>1, <1>2, <1>3
<1>5. \A i \in 1 .. n : i - 1 \in S => i \in S
    BY <1>1, <1>2, <1>3
<1>6. 0 .. n \subseteq S
  <2> HIDE DEF S
  <2> QED BY <1>1, <1>4, <1>5, Induct
<1>7. Sum(short)[n] = Sum(long)[n]
    BY <1>1, <1>6
<1>8. n + 1 \in 1 .. n + 1 /\ (n + 1) - 1 = n
    BY <1>1
<1>9. Checksum(long) = Crc(Checksum(short), x)
    BY <1>1, <1>2, <1>3, <1>7, <1>8
<1> DEFINE one == <<w>> \o <<>>
<1>10. one \in Seq(Word) /\ Len(one) = 1 /\ one[1] = w
    OBVIOUS
<1> HIDE DEF one
<1>11. Checksum(one) = Sum(one)[1] /\ Sum(one)[0] = Zero /\ Sum(one)[1] = Crc(Sum(one)[0], one[1])
  <2>1. 1 \in 1 .. Len(one) /\ 1 - 1 = 0
      BY <1>10
  <2> QED BY <1>10, <2>1, SumUnfolds
<1>12. Checksum(one) = Crc(Zero, w)
    BY <1>10, <1>11
<1> QED BY <1>9, <1>12 DEF short, long, one

Sx(state, shift, cur, len, buf) ==
    [state |-> state, shift |-> shift, cur |-> cur, len |-> len, buf |-> buf]

FrameRxs ==
    [state : {"HUNT", "LEN", "PAYLOAD", "CRC"}, shift : Word, cur : Seq({0, 1}), len : Nat,
     buf : Seq(Word)]

\* The bits of the word being read, in the order they came and in the register.
Filling(cur, acc, n) == Len(cur) = n /\ \A i \in 1 .. n : cur[i] = acc[WordBits - n + i]

\* The payload being read, and the checksum up to here.
Covers(crc, len, payload) == crc = Checksum(<<ToWord(len)>> \o payload)

SameRx(rx, fw) ==
    /\ GoodRx(fw) /\ rx \in FrameRxs /\ rx.state = fw.state
    /\ fw.state = "HUNT" => rx.shift = fw.acc /\ rx.cur = <<>>
    /\ fw.state # "HUNT" => Filling(rx.cur, fw.acc, fw.nbits)
    /\ fw.state \in {"PAYLOAD", "CRC"} =>
          rx.len = fw.len /\ rx.buf = fw.payload /\ Covers(fw.crc, fw.len, fw.payload)

\* What the last bit completed, by the one and by the other.
SameReport(r, msg) ==
    /\ r.payload = msg.payload
    /\ \/ r.status = "none" /\ msg.result = "NONE"
       \/ r.status = "ok" /\ msg.result = "OK"
       \/ r.status = "crc_err" /\ msg.result = "CRC_ERR"
       \/ r.status = "len_err" /\ msg.result = "LEN_ERR"

LEMMA SxFields ==
    ASSUME NEW rx, NEW fw, SameRx(rx, fw)
    PROVE  /\ rx = Sx(fw.state, rx.shift, rx.cur, rx.len, rx.buf)
           /\ rx.shift \in Word /\ rx.cur \in Seq({0, 1}) /\ rx.len \in Nat /\ rx.buf \in Seq(Word)
BY DEF SameRx, Sx, FrameRxs

LEMMA SxGood ==
    ASSUME NEW s \in {"HUNT", "LEN", "PAYLOAD", "CRC"}, NEW h \in Word, NEW c \in Seq({0, 1}),
           NEW l \in Nat, NEW p \in Seq(Word)
    PROVE  Sx(s, h, c, l, p) \in FrameRxs
BY DEF Sx, FrameRxs

\* The next bit goes to the end of both.
LEMMA FillingGrows ==
    ASSUME NEW c \in Seq({0, 1}), NEW a \in Word, NEW n \in 0 .. WordBits - 1, NEW b \in {0, 1},
           Filling(c, a, n)
    PROVE  /\ Append(c, b) \in Seq({0, 1})
           /\ n < WordBits - 1 => Filling(Append(c, b), Append(Tail(a), b), n + 1)
           /\ n = WordBits - 1 => Append(c, b) = Append(Tail(a), b)
<1> DEFINE d == Append(c, b)
           e == Append(Tail(a), b)
<1>1. /\ WordBits \in Nat /\ WordBits >= 1 /\ n \in Nat
      /\ a \in Seq({0, 1}) /\ Len(a) = WordBits /\ DOMAIN a = 1 .. WordBits
  <2>1. a \in [1 .. WordBits -> {0, 1}] /\ WordBits \in Nat /\ WordBits >= 1
      BY WordSize DEF Word
  <2> QED BY <2>1, IsASeq, LenProperties
<1>2. /\ d \in Seq({0, 1}) /\ Len(d) = n + 1 /\ d[n + 1] = b
      /\ \A i \in 1 .. n : d[i] = a[WordBits - n + i]
    BY DEF Filling
<1>3. /\ e \in Seq({0, 1}) /\ Len(e) = WordBits /\ e[WordBits] = b
      /\ \A i \in 1 .. WordBits - 1 : e[i] = a[i + 1]
  <2>1. Tail(a) \in Seq({0, 1}) /\ Len(Tail(a)) = WordBits - 1
        /\ \A i \in 1 .. WordBits - 1 : Tail(a)[i] = a[i + 1]
      BY <1>1
  <2> HIDE DEF d
  <2> QED BY <1>1, <2>1
<1> HIDE DEF d, e
<1>4. ASSUME n < WordBits - 1, NEW i \in 1 .. n + 1 PROVE d[i] = e[WordBits - (n + 1) + i]
  <2>1. CASE i = n + 1
      BY <1>1, <1>2, <1>3, <1>4, <2>1
  <2>2. CASE i # n + 1
    <3>1. /\ i \in 1 .. n /\ WordBits - (n + 1) + i \in 1 .. WordBits - 1
          /\ (WordBits - (n + 1) + i) + 1 = WordBits - n + i
        BY <1>1, <1>4, <2>2
    <3> QED BY <1>2, <1>3, <3>1
  <2> QED BY <2>1, <2>2
<1>5. ASSUME n = WordBits - 1 PROVE d = e
  <2>1. ASSUME NEW i \in 1 .. WordBits PROVE d[i] = e[i]
    <3>1. CASE i = WordBits
        BY <1>1, <1>2, <1>3, <1>5, <3>1
    <3>2. CASE i # WordBits
      <4>1. i \in 1 .. n /\ i \in 1 .. WordBits - 1 /\ WordBits - n + i = i + 1
          BY <1>1, <1>5, <3>2
      <4> QED BY <1>2, <1>3, <4>1
    <3> QED BY <3>1, <3>2
  <2>2. Len(d) = WordBits
      BY <1>1, <1>2, <1>5
  <2> QED BY <1>2, <1>3, <2>1, <2>2, SeqEqual
<1> QED BY <1>2, <1>4, <1>5 DEF Filling, d, e

LEMMA FedHunting ==
    ASSUME NEW h, NEW c, NEW l, NEW p, NEW b
    PROVE  /\ Fed(Sx("HUNT", h, c, l, p), b) =
                 Sx(IF Append(Tail(h), b) = Sync THEN "LEN" ELSE "HUNT", Append(Tail(h), b), c, l, p)
           /\ FedReport(Sx("HUNT", h, c, l, p), b) = NoReport
<1> DEFINE rx == Sx("HUNT", h, c, l, p)
           next == Append(Tail(h), b)
           state == IF next = Sync THEN "LEN" ELSE "HUNT"
<1>1. ~ByteIsFull(rx) /\ rx.state = "HUNT" /\ rx.shift = h
    BY DEF ByteIsFull, Sx
<1>2. Fed(rx, b) = [rx EXCEPT !.shift = next, !.state = state]
  <2> HIDE DEF rx
  <2> QED BY <1>1 DEF Fed
<1>3. FedReport(rx, b) = NoReport
  <2> HIDE DEF rx
  <2> QED BY <1>1 DEF FedReport
<1> HIDE DEF state, next
<1>4. [rx EXCEPT !.shift = next, !.state = state] = Sx(state, next, c, l, p)
  <2>1. [rx EXCEPT !.shift = next] = Sx("HUNT", next, c, l, p)
      BY DEF Sx
  <2> DEFINE shifted == Sx("HUNT", next, c, l, p)
  <2>3. [shifted EXCEPT !.state = state] = Sx(state, next, c, l, p)
      BY DEF Sx
  <2> HIDE DEF rx
  <2>2. [rx EXCEPT !.shift = next, !.state = state]
            = [[rx EXCEPT !.shift = next] EXCEPT !.state = state]
      OBVIOUS
  <2> QED BY <2>1, <2>2, <2>3
<1> QED BY <1>2, <1>3, <1>4 DEF state, next

LEMMA FedWithin ==
    ASSUME NEW s, NEW h, NEW c, NEW l, NEW p, NEW b, s # "HUNT", Len(c) # WordBits - 1
    PROVE  /\ Fed(Sx(s, h, c, l, p), b) = Sx(s, h, Append(c, b), l, p)
           /\ FedReport(Sx(s, h, c, l, p), b) = NoReport
<1> DEFINE rx == Sx(s, h, c, l, p)
<1>1. ~ByteIsFull(rx) /\ rx.state # "HUNT" /\ rx.cur = c
    BY DEF ByteIsFull, Sx
<1>2. Fed(rx, b) = [rx EXCEPT !.cur = Append(c, b)] /\ FedReport(rx, b) = NoReport
  <2> HIDE DEF rx
  <2> QED BY <1>1 DEF Fed, FedReport
<1>3. [rx EXCEPT !.cur = Append(c, b)] = Sx(s, h, Append(c, b), l, p)
    BY DEF Sx
<1> QED BY <1>2, <1>3

LEMMA FedLast ==
    ASSUME NEW s, NEW h, NEW c, NEW l, NEW p, NEW b, s # "HUNT", Len(c) = WordBits - 1
    PROVE  /\ Fed(Sx(s, h, c, l, p), b) = ByteTaken(Sx(s, h, c, l, p), Append(c, b))
           /\ FedReport(Sx(s, h, c, l, p), b) = ByteReport(Sx(s, h, c, l, p), Append(c, b))
<1> DEFINE rx == Sx(s, h, c, l, p)
<1>1. ByteIsFull(rx) /\ rx.cur = c
    BY DEF ByteIsFull, Sx
<1> HIDE DEF rx
<1> QED BY <1>1 DEF Fed, FedReport, rx

LEMMA ByteInLength ==
    ASSUME NEW h, NEW c, NEW l, NEW p, NEW w
    PROVE  LET rx == Sx("LEN", h, c, l, p)
           IN  /\ Value(w) \in 1 .. MaxPayload =>
                     /\ ByteTaken(rx, w) = Sx("PAYLOAD", Zero, <<>>, Value(w), <<>>)
                     /\ ByteReport(rx, w) = NoReport
               /\ Value(w) \notin 1 .. MaxPayload =>
                     /\ ByteTaken(rx, w) = RxReset
                     /\ ByteReport(rx, w) = [NoReport EXCEPT !.status = "len_err"]
<1> DEFINE rx == Sx("LEN", h, c, l, p)
           fresh == [rx EXCEPT !.cur = <<>>, !.shift = Zero]
<1>1. rx.state = "LEN"
    BY DEF Sx
<1>2. CASE Value(w) \in 1 .. MaxPayload
  <2>1. ByteTaken(rx, w) = [fresh EXCEPT !.state = "PAYLOAD", !.len = Value(w), !.buf = <<>>]
    <3> HIDE DEF rx
    <3> QED BY <1>1, <1>2 DEF ByteTaken
  <2>2. ByteReport(rx, w) = NoReport
    <3> HIDE DEF rx
    <3> QED BY <1>1, <1>2 DEF ByteReport
  <2> QED BY <1>2, <2>1, <2>2 DEF Sx
<1>3. CASE Value(w) \notin 1 .. MaxPayload
  <2> HIDE DEF rx
  <2> QED BY <1>1, <1>3 DEF ByteTaken, ByteReport, rx
<1> QED BY <1>2, <1>3

LEMMA ByteInPayload ==
    ASSUME NEW h, NEW c, NEW l, NEW p, NEW w
    PROVE  LET rx == Sx("PAYLOAD", h, c, l, p)
           IN  /\ ByteTaken(rx, w) =
                     Sx(IF Len(Append(p, w)) = l THEN "CRC" ELSE "PAYLOAD", Zero, <<>>, l, Append(p, w))
               /\ ByteReport(rx, w) = NoReport
<1> DEFINE rx == Sx("PAYLOAD", h, c, l, p)
           fresh == [rx EXCEPT !.cur = <<>>, !.shift = Zero]
           next == IF Len(Append(p, w)) = l THEN "CRC" ELSE "PAYLOAD"
<1>1. rx.state = "PAYLOAD" /\ rx.buf = p /\ rx.len = l
    BY DEF Sx
<1>2. /\ ByteTaken(rx, w) = [fresh EXCEPT !.buf = Append(p, w), !.state = next]
      /\ ByteReport(rx, w) = NoReport
  <2> HIDE DEF rx
  <2> QED BY <1>1 DEF ByteTaken, ByteReport
<1> HIDE DEF next
<1> DEFINE q == Append(p, w)
<1>3. [fresh EXCEPT !.buf = q, !.state = next] = Sx(next, Zero, <<>>, l, q)
  <2> HIDE DEF q
  <2> DEFINE emptied == Sx("PAYLOAD", h, <<>>, l, p)
             forgot == Sx("PAYLOAD", Zero, <<>>, l, p)
             grown == Sx("PAYLOAD", Zero, <<>>, l, q)
  <2>1. [rx EXCEPT !.cur = <<>>] = emptied
      BY DEF Sx
  <2>6. [emptied EXCEPT !.shift = Zero] = forgot
      BY DEF Sx
  <2>7. [forgot EXCEPT !.buf = q] = grown
      BY DEF Sx
  <2>8. [grown EXCEPT !.state = next] = Sx(next, Zero, <<>>, l, q)
      BY DEF Sx
  <2>2. fresh = [[rx EXCEPT !.cur = <<>>] EXCEPT !.shift = Zero]
    <3> HIDE DEF rx
    <3> QED OBVIOUS
  <2>3. fresh = forgot
      BY <2>1, <2>2, <2>6
  <2> HIDE DEF fresh
  <2>5. [fresh EXCEPT !.buf = q, !.state = next] = [[fresh EXCEPT !.buf = q] EXCEPT !.state = next]
      OBVIOUS
  <2> HIDE DEF forgot, grown
  <2> QED BY <2>3, <2>5, <2>7, <2>8
<1> QED BY <1>2, <1>3 DEF next

LEMMA ByteInChecksum ==
    ASSUME NEW h, NEW c, NEW l, NEW p, NEW w
    PROVE  LET rx == Sx("CRC", h, c, l, p)
           IN  /\ ByteTaken(rx, w) = RxReset
               /\ ByteReport(rx, w) =
                     [status |-> IF Checksum(<<ToWord(l)>> \o p) = w THEN "ok" ELSE "crc_err",
                      len |-> l, payload |-> p]
<1> DEFINE rx == Sx("CRC", h, c, l, p)
<1>1. rx.state = "CRC" /\ rx.buf = p /\ rx.len = l
    BY DEF Sx
<1> HIDE DEF rx
<1> QED BY <1>1 DEF ByteTaken, ByteReport, rx

LEMMA ResetIsSame == SameRx(RxReset, RxInit)
<1>1. RxReset = Sx("HUNT", Zero, <<>>, 0, <<>>) /\ RxInit = Rx("HUNT", Zero, 0, 0, Zero, <<>>)
    BY DEF RxReset, Sx, RxInit, Rx
<1>2. RxReset \in FrameRxs
    BY <1>1, Constants DEF Sx, FrameRxs
<1>3. RxReset.state = "HUNT" /\ RxReset.shift = Zero /\ RxReset.cur = <<>>
      /\ RxInit.state = "HUNT" /\ RxInit.acc = Zero
    BY DEF RxReset, RxInit
<1> QED BY <1>2, <1>3, RxInitGood DEF SameRx

\* One bit: both know the same of the next word, and report the same.
LEMMA SameBit ==
    ASSUME NEW rx, NEW fw, SameRx(rx, fw), NEW b \in {0, 1}
    PROVE  SameRx(Fed(rx, b), PushBit(fw, b)) /\ SameReport(FedReport(rx, b), Pushed(fw, b))
<1> DEFINE s == fw.state
           a == fw.acc
           nb == fw.nbits
           l == fw.len
           c == fw.crc
           p == fw.payload
           h == rx.shift
           cur == rx.cur
           sl == rx.len
           sp == rx.buf
           fw1 == PushBit(fw, b)
           msg == Pushed(fw, b)
           rx1 == Fed(rx, b)
           r == FedReport(rx, b)
<1>1. /\ rx = Sx(s, h, cur, sl, sp)
      /\ h \in Word /\ cur \in Seq({0, 1}) /\ sl \in Nat /\ sp \in Seq(Word)
    BY SxFields
<1>2. /\ fw = Rx(s, a, nb, l, c, p) /\ s \in {"HUNT", "LEN", "PAYLOAD", "CRC"} /\ a \in Word
      /\ nb \in 0 .. WordBits - 1 /\ l \in 0 .. MaxPayload /\ c \in Word /\ p \in Seq(Word)
      /\ Len(p) <= l /\ (s = "PAYLOAD" => Len(p) < l)
    BY RxFields DEF SameRx
<1>3. GoodRx(fw1)
    BY PushGood DEF SameRx
<1>4. /\ s = "HUNT" => h = a /\ cur = <<>>
      /\ s # "HUNT" => Filling(cur, a, nb)
      /\ s \in {"PAYLOAD", "CRC"} => sl = l /\ sp = p /\ Covers(c, l, p)
    BY DEF SameRx
<1>5. SameReport(NoReport, None)
    BY DEF SameReport, NoReport, None
<1> HIDE DEF s, a, nb, l, c, p, h, cur, sl, sp
<1> DEFINE next == Append(Tail(a), b)
<1>6. next \in Word
    BY <1>2, ShiftType
<1>7. WordBits \in Nat /\ WordBits >= 1 /\ MaxPayload \in Nat /\ MaxPayload < Values
    BY WordAssumption
<1>8. CASE s = "HUNT"
  <2>1. /\ fw1 = IF next = Sync THEN [RxInit EXCEPT !.state = "LEN"] ELSE Rx("HUNT", next, nb, l, c, p)
        /\ msg = None
      BY <1>2, <1>8, PushHunting
  <2>2. /\ rx1 = Sx(IF next = Sync THEN "LEN" ELSE "HUNT", next, <<>>, sl, sp)
        /\ r = NoReport
      BY <1>1, <1>4, <1>8, FedHunting
  <2> HIDE DEF fw1, rx1, next, r, msg
  <2>3. rx1 \in FrameRxs /\ rx1.state = fw1.state
        /\ (fw1.state = "HUNT" => rx1.shift = fw1.acc /\ rx1.cur = <<>>)
        /\ (fw1.state # "HUNT" => rx1.cur = <<>> /\ fw1.nbits = 0)
        /\ fw1.state \in {"HUNT", "LEN"}
    <3>1. CASE next = Sync
      <4>1. rx1 = Sx("LEN", next, <<>>, sl, sp) /\ fw1 = [RxInit EXCEPT !.state = "LEN"]
          BY <2>1, <2>2, <3>1
      <4>2. fw1.state = "LEN" /\ fw1.nbits = 0
          BY <4>1 DEF RxInit
      <4> QED BY <1>1, <1>6, <4>1, <4>2 DEF Sx, FrameRxs
    <3>2. CASE next # Sync
      <4>1. rx1 = Sx("HUNT", next, <<>>, sl, sp) /\ fw1 = Rx("HUNT", next, nb, l, c, p)
          BY <2>1, <2>2, <3>2
      <4> QED BY <1>1, <1>6, <4>1 DEF Sx, FrameRxs, Rx
    <3> QED BY <3>1, <3>2
  <2>4. fw1.state # "HUNT" => Filling(rx1.cur, fw1.acc, fw1.nbits)
      BY <2>3 DEF Filling
  <2> QED BY <1>3, <1>5, <2>1, <2>2, <2>3, <2>4 DEF SameRx, fw1, rx1, r, msg
<1>9. CASE s # "HUNT" /\ nb # WordBits - 1
  <2> DEFINE grown == Append(cur, b)
  <2>1. fw1 = Rx(s, next, nb + 1, l, c, p) /\ msg = None
      BY <1>2, <1>9, PushWithin
  <2>2. Len(cur) = nb /\ Len(cur) # WordBits - 1
      BY <1>4, <1>9 DEF Filling
  <2>3. rx1 = Sx(s, h, grown, sl, sp) /\ r = NoReport
      BY <1>1, <1>9, <2>2, FedWithin
  <2>4. grown \in Seq({0, 1}) /\ Filling(grown, next, nb + 1)
      BY <1>1, <1>2, <1>4, <1>7, <1>9, FillingGrows
  <2> HIDE DEF fw1, rx1, next, r, msg, grown
  <2>5. rx1 \in FrameRxs
      BY <1>1, <1>2, <2>3, <2>4, SxGood
  <2>6. /\ rx1.state = s /\ rx1.cur = grown /\ rx1.len = sl /\ rx1.buf = sp
        /\ fw1.state = s /\ fw1.acc = next /\ fw1.nbits = nb + 1 /\ fw1.len = l /\ fw1.crc = c
        /\ fw1.payload = p
      BY <2>1, <2>3 DEF Sx, Rx
  <2>7. SameRx(rx1, fw1)
      BY <1>3, <1>4, <1>9, <2>4, <2>5, <2>6 DEF SameRx, fw1
  <2> QED BY <1>5, <2>1, <2>3, <2>7 DEF fw1, rx1, r, msg
<1>10. CASE s # "HUNT" /\ nb = WordBits - 1
  <2>1. Len(cur) = WordBits - 1
      BY <1>4, <1>10 DEF Filling
  <2>2. Append(cur, b) = next
      BY <1>1, <1>2, <1>4, <1>10, FillingGrows
  <2>3. fw1 = TakeWord(fw, next) /\ msg = Completed(fw, next)
      BY <1>2, <1>10, PushLast
  <2>4. rx1 = ByteTaken(rx, next) /\ r = ByteReport(rx, next)
    <3> HIDE DEF next
    <3>1. /\ Fed(Sx(s, h, cur, sl, sp), b) = ByteTaken(Sx(s, h, cur, sl, sp), Append(cur, b))
          /\ FedReport(Sx(s, h, cur, sl, sp), b) = ByteReport(Sx(s, h, cur, sl, sp), Append(cur, b))
        BY <1>10, <2>1, FedLast
    <3> QED BY <1>1, <2>2, <3>1
  <2> HIDE DEF fw1, rx1, next, r, msg
  <2>5. CASE s = "LEN" /\ Value(next) \in 1 .. MaxPayload
    <3> DEFINE v == Value(next)
    <3>1. fw1 = Rx("PAYLOAD", Zero, 0, v, Crc(Zero, next), <<>>) /\ msg = None
        BY <1>2, <2>3, <2>5, TakeLength DEF LenValid
    <3>2. rx1 = Sx("PAYLOAD", Zero, <<>>, v, <<>>) /\ r = NoReport
        BY <1>1, <2>4, <2>5, ByteInLength
    <3>3. v \in Nat /\ v < Values
        BY <1>7, <2>5, ValuesType
    <3>4. ToWord(v) = next /\ Checksum(<<next>> \o <<>>) = Crc(Zero, next)
      <4>1. <<>> \in Seq(Word)
          OBVIOUS
      <4>2. Checksum(<<next>> \o <<>>) = Crc(Zero, next)
          BY <1>6, <4>1, ChecksumGrows
      <4> QED BY <1>6, <3>3, <4>2, WordOfValue
    <3> HIDE DEF v
    <3>5. rx1 \in FrameRxs
        BY <3>2, <3>3, Constants DEF Sx, FrameRxs
    <3>6. Covers(Crc(Zero, next), v, <<>>) /\ Filling(<<>>, Zero, 0)
        BY <3>4 DEF Covers, Filling
    <3>7. /\ rx1.state = "PAYLOAD" /\ rx1.cur = <<>> /\ rx1.len = v /\ rx1.buf = <<>>
          /\ fw1.state = "PAYLOAD" /\ fw1.acc = Zero /\ fw1.nbits = 0 /\ fw1.len = v
          /\ fw1.crc = Crc(Zero, next) /\ fw1.payload = <<>>
        BY <3>1, <3>2 DEF Sx, Rx
    <3>8. SameRx(rx1, fw1)
        BY <1>3, <3>5, <3>6, <3>7 DEF SameRx, fw1
    <3> QED BY <1>5, <3>1, <3>2, <3>8 DEF fw1, rx1, r, msg
  <2>6. CASE s = "LEN" /\ Value(next) \notin 1 .. MaxPayload
    <3>1. fw1 = RxInit /\ msg = [result |-> "LEN_ERR", payload |-> <<>>]
        BY <1>2, <2>3, <2>6, RefuseLength DEF LenValid
    <3>2. rx1 = RxReset /\ r = [NoReport EXCEPT !.status = "len_err"]
        BY <1>1, <2>4, <2>6, ByteInLength
    <3>3. SameReport(r, msg)
        BY <3>1, <3>2 DEF SameReport, NoReport
    <3> QED BY <3>1, <3>2, <3>3, ResetIsSame DEF fw1, rx1, r, msg
  <2>7. CASE s = "PAYLOAD"
    <3> DEFINE q == Append(p, next)
               state == IF Len(q) = l THEN "CRC" ELSE "PAYLOAD"
    <3>1. Len(q) = Len(p) + 1 /\ (Len(p) + 1 >= l <=> Len(q) = l) /\ q \in Seq(Word)
        BY <1>2, <1>6, <2>7
    <3>2. fw1 = Rx(state, Zero, 0, l, Crc(c, next), q) /\ msg = None
        BY <1>2, <2>3, <2>7, <3>1, TakePayload
    <3>3. rx1 = Sx(state, Zero, <<>>, l, q) /\ r = NoReport
        BY <1>1, <1>4, <2>4, <2>7, ByteInPayload
    <3>4. ToWord(l) \in Word
        BY <1>2, <1>7, ToWordLaws
    <3>5. Covers(Crc(c, next), l, q)
        BY <1>2, <1>4, <1>6, <2>7, <3>4, ChecksumGrows DEF Covers
    <3>6. state \in {"PAYLOAD", "CRC"}
        OBVIOUS
    <3> HIDE DEF q, state
    <3>7. rx1 \in FrameRxs
        BY <1>2, <1>7, <3>1, <3>3, <3>6, Constants DEF Sx, FrameRxs
    <3>8. /\ rx1.state = state /\ rx1.cur = <<>> /\ rx1.len = l /\ rx1.buf = q
          /\ fw1.state = state /\ fw1.acc = Zero /\ fw1.nbits = 0 /\ fw1.len = l
          /\ fw1.crc = Crc(c, next) /\ fw1.payload = q
        BY <3>2, <3>3 DEF Sx, Rx
    <3>9. Filling(<<>>, Zero, 0)
        BY DEF Filling
    <3>10. SameRx(rx1, fw1)
        BY <1>3, <3>5, <3>6, <3>7, <3>8, <3>9 DEF SameRx, fw1
    <3> QED BY <1>5, <3>2, <3>3, <3>10 DEF fw1, rx1, r, msg
  <2>8. CASE s = "CRC"
    <3>1. fw1 = RxInit /\ msg = [result |-> IF next = c THEN "OK" ELSE "CRC_ERR", payload |-> p]
        BY <1>2, <2>3, <2>8, TakeChecksum
    <3>2. /\ rx1 = RxReset
          /\ r = [status |-> IF Checksum(<<ToWord(l)>> \o p) = next THEN "ok" ELSE "crc_err",
                  len |-> l, payload |-> p]
        BY <1>1, <1>4, <2>4, <2>8, ByteInChecksum
    <3>3. Checksum(<<ToWord(l)>> \o p) = c
        BY <1>4, <2>8 DEF Covers
    <3>4. SameReport(r, msg)
        BY <3>1, <3>2, <3>3 DEF SameReport
    <3> QED BY <3>1, <3>2, <3>4, ResetIsSame DEF fw1, rx1, r, msg
  <2> QED BY <1>2, <1>10, <2>5, <2>6, <2>7, <2>8
<1> QED BY <1>8, <1>9, <1>10

-----------------------------------------------------------------------------
(* What is done for the members of a sequence, one after the other.        *)

Step(kind, a, x) ==
    CASE kind = "monitored" -> Monitored(a, x)
      [] kind = "heard"     -> Heard(a, x)
      [] kind = "firmware"  -> Firmware(a, x)
      [] kind = "clocked"   -> Clocked(a, x)
      [] kind = "emitted"   -> Emitted(a, x)
      [] kind = "seen"      -> Seen(a, x)
      [] kind = "carried"   -> CarryFrame(a, x)

LEMMA StepKinds ==
    /\ \A a, x : Step("monitored", a, x) = Monitored(a, x)
    /\ \A a, x : Step("heard", a, x) = Heard(a, x)
    /\ \A a, x : Step("firmware", a, x) = Firmware(a, x)
    /\ \A a, x : Step("clocked", a, x) = Clocked(a, x)
    /\ \A a, x : Step("emitted", a, x) = Emitted(a, x)
    /\ \A a, x : Step("seen", a, x) = Seen(a, x)
    /\ \A a, x : Step("carried", a, x) = CarryFrame(a, x)
BY DEF Step

Stepped(g, kind, base, s, k) ==
    g = [i \in 0 .. k |-> IF i = 0 THEN base ELSE Step(kind, g[i - 1], s[i])]

\* The results g, one for each member.
Folded(g, kind, base, s) ==
    /\ g[0] = base
    /\ \A i \in 1 .. Len(s) : g[i] = Step(kind, g[i - 1], s[i])

LEMMA StepsExist ==
    ASSUME NEW kind, NEW base, NEW s, NEW k \in Nat
    PROVE  \E g : Stepped(g, kind, base, s, k)
<1> DEFINE S == {j \in 0 .. k : \E g : Stepped(g, kind, base, s, j)}
<1>1. 0 \in S
  <2> DEFINE g == [i \in 0 .. 0 |-> base]
  <2>1. Stepped(g, kind, base, s, 0)
      BY DEF Stepped
  <2> HIDE DEF g
  <2> QED BY <2>1
<1>2. ASSUME NEW j \in 1 .. k, j - 1 \in S PROVE j \in S
  <2>1. PICK g : Stepped(g, kind, base, s, j - 1)
      BY <1>2
  <2> DEFINE last == Step(kind, g[j - 1], s[j])
             h == [i \in 0 .. j |-> IF i = j THEN last ELSE g[i]]
  <2>2. DOMAIN h = 0 .. j /\ h = [i \in 0 .. j |-> h[i]]
        /\ h[j] = last /\ \A i \in 0 .. j - 1 : h[i] = g[i]
      OBVIOUS
  <2>3. \A i \in 0 .. j - 1 : g[i] = IF i = 0 THEN base ELSE Step(kind, g[i - 1], s[i])
      BY <2>1 DEF Stepped
  <2> HIDE DEF h
  <2>4. ASSUME NEW i \in 0 .. j PROVE h[i] = IF i = 0 THEN base ELSE Step(kind, h[i - 1], s[i])
    <3>1. CASE i = j
      <4>1. i # 0 /\ i - 1 \in 0 .. j - 1
          BY <3>1
      <4> QED BY <2>2, <3>1, <4>1
    <3>2. CASE i # j /\ i # 0
      <4>1. i \in 0 .. j - 1 /\ i - 1 \in 0 .. j - 1
          BY <3>2
      <4>2. h[i] = g[i] /\ h[i - 1] = g[i - 1]
          BY <2>2, <4>1
      <4> QED BY <2>3, <3>2, <4>1, <4>2
    <3>3. CASE i = 0
      <4>1. 0 \in 0 .. j - 1
          OBVIOUS
      <4> QED BY <2>2, <2>3, <3>3, <4>1
    <3> QED BY <3>1, <3>2, <3>3
  <2>5. Stepped(h, kind, base, s, j)
      BY <2>2, <2>4 DEF Stepped
  <2> QED BY <2>5
<1>3. 0 .. k \subseteq S
  <2> HIDE DEF S
  <2> QED BY <1>1, <1>2, Induct
<1> QED BY <1>3

LEMMA FoldMonitored ==
    ASSUME NEW base, NEW s, Len(s) \in Nat
    PROVE  \E g : Folded(g, "monitored", base, s) /\ Over(Monitored, base, s) = g[Len(s)]
<1> DEFINE Is(g) == g = [i \in 0 .. Len(s) |-> IF i = 0 THEN base ELSE Monitored(g[i - 1], s[i])]
           C == CHOOSE g : Is(g)
<1>1. \E g : Is(g)
  <2>1. PICK g : Stepped(g, "monitored", base, s, Len(s))
      BY StepsExist
  <2>2. Is(g)
      BY <2>1, StepKinds DEF Stepped
  <2> QED BY <2>2
<1>2. Is(C)
  <2> HIDE DEF Is
  <2> QED BY <1>1
<1>3. Over(Monitored, base, s) = C[Len(s)]
    BY DEF Over
<1>4. Folded(C, "monitored", base, s)
  <2> HIDE DEF C
  <2>1. C[0] = base /\ \A i \in 1 .. Len(s) : C[i] = Monitored(C[i - 1], s[i])
      BY <1>2
  <2> QED BY <2>1, StepKinds DEF Folded
<1> HIDE DEF C
<1> QED BY <1>3, <1>4

LEMMA FoldHeard ==
    ASSUME NEW base, NEW s, Len(s) \in Nat
    PROVE  \E g : Folded(g, "heard", base, s) /\ Over(Heard, base, s) = g[Len(s)]
<1> DEFINE Is(g) == g = [i \in 0 .. Len(s) |-> IF i = 0 THEN base ELSE Heard(g[i - 1], s[i])]
           C == CHOOSE g : Is(g)
<1>1. \E g : Is(g)
  <2>1. PICK g : Stepped(g, "heard", base, s, Len(s))
      BY StepsExist
  <2>2. Is(g)
      BY <2>1, StepKinds DEF Stepped
  <2> QED BY <2>2
<1>2. Is(C)
  <2> HIDE DEF Is
  <2> QED BY <1>1
<1>3. Over(Heard, base, s) = C[Len(s)]
    BY DEF Over
<1>4. Folded(C, "heard", base, s)
  <2> HIDE DEF C
  <2>1. C[0] = base /\ \A i \in 1 .. Len(s) : C[i] = Heard(C[i - 1], s[i])
      BY <1>2
  <2> QED BY <2>1, StepKinds DEF Folded
<1> HIDE DEF C
<1> QED BY <1>3, <1>4

LEMMA FoldFirmware ==
    ASSUME NEW base, NEW s, Len(s) \in Nat
    PROVE  \E g : Folded(g, "firmware", base, s) /\ Over(Firmware, base, s) = g[Len(s)]
<1> DEFINE Is(g) == g = [i \in 0 .. Len(s) |-> IF i = 0 THEN base ELSE Firmware(g[i - 1], s[i])]
           C == CHOOSE g : Is(g)
<1>1. \E g : Is(g)
  <2>1. PICK g : Stepped(g, "firmware", base, s, Len(s))
      BY StepsExist
  <2>2. Is(g)
      BY <2>1, StepKinds DEF Stepped
  <2> QED BY <2>2
<1>2. Is(C)
  <2> HIDE DEF Is
  <2> QED BY <1>1
<1>3. Over(Firmware, base, s) = C[Len(s)]
    BY DEF Over
<1>4. Folded(C, "firmware", base, s)
  <2> HIDE DEF C
  <2>1. C[0] = base /\ \A i \in 1 .. Len(s) : C[i] = Firmware(C[i - 1], s[i])
      BY <1>2
  <2> QED BY <2>1, StepKinds DEF Folded
<1> HIDE DEF C
<1> QED BY <1>3, <1>4

LEMMA FoldClocked ==
    ASSUME NEW base, NEW s, Len(s) \in Nat
    PROVE  \E g : Folded(g, "clocked", base, s) /\ Over(Clocked, base, s) = g[Len(s)]
<1> DEFINE Is(g) == g = [i \in 0 .. Len(s) |-> IF i = 0 THEN base ELSE Clocked(g[i - 1], s[i])]
           C == CHOOSE g : Is(g)
<1>1. \E g : Is(g)
  <2>1. PICK g : Stepped(g, "clocked", base, s, Len(s))
      BY StepsExist
  <2>2. Is(g)
      BY <2>1, StepKinds DEF Stepped
  <2> QED BY <2>2
<1>2. Is(C)
  <2> HIDE DEF Is
  <2> QED BY <1>1
<1>3. Over(Clocked, base, s) = C[Len(s)]
    BY DEF Over
<1>4. Folded(C, "clocked", base, s)
  <2> HIDE DEF C
  <2>1. C[0] = base /\ \A i \in 1 .. Len(s) : C[i] = Clocked(C[i - 1], s[i])
      BY <1>2
  <2> QED BY <2>1, StepKinds DEF Folded
<1> HIDE DEF C
<1> QED BY <1>3, <1>4

LEMMA FoldEmitted ==
    ASSUME NEW base, NEW s, Len(s) \in Nat
    PROVE  \E g : Folded(g, "emitted", base, s) /\ Over(Emitted, base, s) = g[Len(s)]
<1> DEFINE Is(g) == g = [i \in 0 .. Len(s) |-> IF i = 0 THEN base ELSE Emitted(g[i - 1], s[i])]
           C == CHOOSE g : Is(g)
<1>1. \E g : Is(g)
  <2>1. PICK g : Stepped(g, "emitted", base, s, Len(s))
      BY StepsExist
  <2>2. Is(g)
      BY <2>1, StepKinds DEF Stepped
  <2> QED BY <2>2
<1>2. Is(C)
  <2> HIDE DEF Is
  <2> QED BY <1>1
<1>3. Over(Emitted, base, s) = C[Len(s)]
    BY DEF Over
<1>4. Folded(C, "emitted", base, s)
  <2> HIDE DEF C
  <2>1. C[0] = base /\ \A i \in 1 .. Len(s) : C[i] = Emitted(C[i - 1], s[i])
      BY <1>2
  <2> QED BY <2>1, StepKinds DEF Folded
<1> HIDE DEF C
<1> QED BY <1>3, <1>4

LEMMA FoldSeen ==
    ASSUME NEW base, NEW s, Len(s) \in Nat
    PROVE  \E g : Folded(g, "seen", base, s) /\ Over(Seen, base, s) = g[Len(s)]
<1> DEFINE Is(g) == g = [i \in 0 .. Len(s) |-> IF i = 0 THEN base ELSE Seen(g[i - 1], s[i])]
           C == CHOOSE g : Is(g)
<1>1. \E g : Is(g)
  <2>1. PICK g : Stepped(g, "seen", base, s, Len(s))
      BY StepsExist
  <2>2. Is(g)
      BY <2>1, StepKinds DEF Stepped
  <2> QED BY <2>2
<1>2. Is(C)
  <2> HIDE DEF Is
  <2> QED BY <1>1
<1>3. Over(Seen, base, s) = C[Len(s)]
    BY DEF Over
<1>4. Folded(C, "seen", base, s)
  <2> HIDE DEF C
  <2>1. C[0] = base /\ \A i \in 1 .. Len(s) : C[i] = Seen(C[i - 1], s[i])
      BY <1>2
  <2> QED BY <2>1, StepKinds DEF Folded
<1> HIDE DEF C
<1> QED BY <1>3, <1>4

LEMMA FoldCarried ==
    ASSUME NEW base, NEW s, Len(s) \in Nat
    PROVE  \E g : Folded(g, "carried", base, s) /\ Over(CarryFrame, base, s) = g[Len(s)]
<1> DEFINE Is(g) == g = [i \in 0 .. Len(s) |-> IF i = 0 THEN base ELSE CarryFrame(g[i - 1], s[i])]
           C == CHOOSE g : Is(g)
<1>1. \E g : Is(g)
  <2>1. PICK g : Stepped(g, "carried", base, s, Len(s))
      BY StepsExist
  <2>2. Is(g)
      BY <2>1, StepKinds DEF Stepped
  <2> QED BY <2>2
<1>2. Is(C)
  <2> HIDE DEF Is
  <2> QED BY <1>1
<1>3. Over(CarryFrame, base, s) = C[Len(s)]
    BY DEF Over
<1>4. Folded(C, "carried", base, s)
  <2> HIDE DEF C
  <2>1. C[0] = base /\ \A i \in 1 .. Len(s) : C[i] = CarryFrame(C[i - 1], s[i])
      BY <1>2
  <2> QED BY <2>1, StepKinds DEF Folded
<1> HIDE DEF C
<1> QED BY <1>3, <1>4

-----------------------------------------------------------------------------
(* The twins.                                                              *)

\* Every frame has a payload, also those beyond the last that is sent.
BodyIsTotal == \A k \in Nat : Body(k) \in Seq(Word)

Mon(rx, expected, ok, crc_err, len_err, bit_errors) ==
    [rx |-> rx, expected |-> expected, ok |-> ok, crc_err |-> crc_err, len_err |-> len_err,
     bit_errors |-> bit_errors]

Board(rx, expect, ok, crc_err, len_err, bit_errors) ==
    [rx |-> rx, expect |-> expect, ok |-> ok, crc_err |-> crc_err, len_err |-> len_err,
     bit_errors |-> bit_errors]

Ear(m, ev) == [monitor |-> m, events |-> ev]

LEMMA SimSizes ==
    /\ FramesPerBurst \in Nat /\ FramesPerBurst >= 1 /\ LostAfter \in Nat /\ LostAfter >= 1
    /\ Wrap \in Nat /\ Wrap >= 1 /\ GapBits \in Nat /\ GlitchWidth \in Nat /\ StepEvery \in Nat
    /\ MaxOps \in Nat /\ MaxMishaps \in Nat /\ Delays \subseteq Nat
<1>1. {FramesPerBurst, LostAfter, Wrap} \subseteq Nat \ {0} /\ Delays \subseteq Nat
      /\ {GapBits, GlitchWidth, StepEvery, MaxOps, MaxMishaps} \subseteq Nat
    BY SimAssumption
<1>2. /\ FramesPerBurst \in Nat \ {0} /\ LostAfter \in Nat \ {0} /\ Wrap \in Nat \ {0}
      /\ GapBits \in Nat /\ GlitchWidth \in Nat /\ StepEvery \in Nat
      /\ MaxOps \in Nat /\ MaxMishaps \in Nat
    BY <1>1
<1> QED BY <1>1, <1>2

LEMMA DifferSomewhere ==
    ASSUME NEW v \in Word, NEW w \in Word, v # w
    PROVE  \E j \in 1 .. WordBits : v[j] # w[j]
<1> SUFFICES ASSUME \A j \in 1 .. WordBits : v[j] = w[j] PROVE v = w
    OBVIOUS
<1>1. /\ v \in [1 .. WordBits -> {0, 1}] /\ w \in [1 .. WordBits -> {0, 1}]
      /\ WordBits \in Nat
    BY WordSize DEF Word
<1> QED BY <1>1

\* Some bit is counted if and only if some word differs.
LEMMA BitErrorsType ==
    ASSUME BodyIsTotal, NEW p \in Seq(Word), NEW k \in Nat
    PROVE  /\ BitErrors(p, TestPayload(k)) \in Nat
           /\ Differs(p, TestPayload(k)) <=> BitErrors(p, TestPayload(k)) > 0
<1> DEFINE q == TestPayload(k)
           E(i) == IF i <= Len(q) THEN q[i] ELSE Zero
           bad == {ij \in (DOMAIN p) \X (1 .. WordBits) : p[ij[1]][ij[2]] # E(ij[1])[ij[2]]}
<1>1. q \in Seq(Word)
  <2>1. ToWord(k) \in Word /\ Body(k) \in Seq(Word)
      BY ToWordLaws DEF BodyIsTotal
  <2> QED BY <2>1 DEF TestPayload
<1> HIDE DEF q
<1>2. ASSUME NEW i \in DOMAIN p PROVE p[i] \in Word /\ E(i) \in Word
  <2>1. i \in 1 .. Len(p) /\ Len(p) \in Nat /\ Len(q) \in Nat
      BY <1>1
  <2>2. p[i] \in Word
      BY <2>1
  <2>3. i <= Len(q) => q[i] \in Word
      BY <1>1, <2>1
  <2> QED BY <2>2, <2>3, Constants
<1>3. IsFiniteSet(bad)
  <2>1. DOMAIN p = 1 .. Len(p) /\ Len(p) \in Nat /\ WordBits \in Nat
      BY WordSize
  <2>2. IsFiniteSet(DOMAIN p) /\ IsFiniteSet(1 .. WordBits)
      BY <2>1, FS_Interval
  <2>3. IsFiniteSet((DOMAIN p) \X (1 .. WordBits))
      BY <2>2, FS_Product
  <2>4. bad \subseteq (DOMAIN p) \X (1 .. WordBits)
      OBVIOUS
  <2> HIDE DEF bad
  <2> QED BY <2>3, <2>4, FS_Subset
<1>4. BitErrors(p, q) = Cardinality(bad)
    BY DEF BitErrors
<1>5. Differs(p, q) <=> bad # {}
  <2>1. ASSUME NEW i \in DOMAIN p, p[i] # E(i) PROVE bad # {}
    <3>1. p[i] \in Word /\ E(i) \in Word
        BY <1>2
    <3> HIDE DEF E
    <3>2. \E j \in 1 .. WordBits : p[i][j] # E(i)[j]
        BY <2>1, <3>1, DifferSomewhere
    <3>3. PICK j \in 1 .. WordBits : p[i][j] # E(i)[j]
        BY <3>2
    <3>4. <<i, j>> \in bad
        BY <3>3
    <3> QED BY <3>4
  <2>2. ASSUME bad # {} PROVE \E i \in DOMAIN p : p[i] # E(i)
    <3>1. PICK ij \in bad : TRUE
        BY <2>2
    <3>2. ij[1] \in DOMAIN p /\ p[ij[1]][ij[2]] # E(ij[1])[ij[2]]
        BY <3>1
    <3> QED BY <3>2
  <2>3. Differs(p, q) <=> \E i \in DOMAIN p : p[i] # E(i)
      BY DEF Differs
  <2> QED BY <2>1, <2>2, <2>3
<1> HIDE DEF bad
<1>6. Cardinality(bad) \in Nat /\ (Cardinality(bad) = 0 <=> bad = {})
    BY <1>3, FS_CardinalityType, FS_EmptySet
<1> QED BY <1>4, <1>5, <1>6 DEF q

\* What one bit does to the counters of the one, and of the other.
LEMMA MonitorCounts ==
    ASSUME NEW rx, NEW e, NEW ok, NEW ce, NEW le, NEW be, NEW r
    PROVE  /\ r.status = "len_err" =>
                 Accounted(Mon(rx, e, ok, ce, le, be), r) = Mon(rx, e, ok, ce, le + 1, be)
           /\ r.status = "ok" =>
                 Accounted(Mon(rx, e, ok, ce, le, be), r) =
                     Mon(rx, Resynced(e, r.payload[1]) + 1, ok + 1, ce, le,
                         be + BitErrors(r.payload, TestPayload(Resynced(e, r.payload[1]))))
           /\ r.status = "crc_err" =>
                 Accounted(Mon(rx, e, ok, ce, le, be), r) =
                     Mon(rx, e + 1, ok, ce + 1, le, be + BitErrors(r.payload, TestPayload(e)))
<1> DEFINE m == Mon(rx, e, ok, ce, le, be)
           k == IF r.status = "ok" THEN Resynced(m.expected, r.payload[1]) ELSE m.expected
           n == BitErrors(r.payload, TestPayload(k))
<1>1. m.expected = e
    BY DEF Mon
<1>2. CASE r.status = "len_err"
  <2>1. Accounted(m, r) = [m EXCEPT !.len_err = @ + 1]
      BY <1>2 DEF Accounted
  <2>2. [m EXCEPT !.len_err = @ + 1] = Mon(rx, e, ok, ce, le + 1, be)
      BY DEF Mon
  <2> QED BY <1>2, <2>1, <2>2
<1>3. CASE r.status # "len_err"
  <2> DEFINE o == IF r.status = "ok" THEN ok + 1 ELSE ok
             c == IF r.status = "crc_err" THEN ce + 1 ELSE ce
  <2>1. Accounted(m, r) =
            [m EXCEPT !.expected = k + 1,
                      !.ok = IF r.status = "ok" THEN @ + 1 ELSE @,
                      !.crc_err = IF r.status = "crc_err" THEN @ + 1 ELSE @,
                      !.bit_errors = @ + n]
    <3> HIDE DEF m
    <3> QED BY <1>3 DEF Accounted
  <2> HIDE DEF k, n
  <2>2. Accounted(m, r) = Mon(rx, k + 1, o, c, le, be + n)
      BY <2>1 DEF Mon
  <2> QED BY <1>1, <1>3, <2>2 DEF k, n
<1> QED BY <1>2, <1>3

LEMMA BoardCounts ==
    ASSUME NEW rx, NEW e, NEW ok, NEW ce, NEW le, NEW be, NEW b
    PROVE  LET t == Board(rx, e, ok, ce, le, be)
               msg == Pushed(rx, b)
               rx1 == PushBit(rx, b)
               k == ResyncIndex(e, msg.payload[1])
           IN  /\ msg.result = "NONE" => Firmware(t, b) = Board(rx1, e, ok, ce, le, be)
               /\ msg.result = "LEN_ERR" => Firmware(t, b) = Board(rx1, e, ok, ce, le + 1, be)
               /\ msg.result = "OK" =>
                     Firmware(t, b) = Board(rx1, k + 1, ok + 1, ce, le,
                                            be \/ Differs(msg.payload, TestPayload(k)))
               /\ msg.result = "CRC_ERR" =>
                     Firmware(t, b) = Board(rx1, e + 1, ok, ce + 1, le,
                                            be \/ Differs(msg.payload, TestPayload(e)))
<1> DEFINE t == Board(rx, e, ok, ce, le, be)
           msg == Pushed(rx, b)
           rx1 == PushBit(rx, b)
           u == Board(rx1, e, ok, ce, le, be)
           k == IF msg.result = "OK" THEN ResyncIndex(e, msg.payload[1]) ELSE e
           d == Differs(msg.payload, TestPayload(k))
<1>1. t.rx = rx /\ t.expect = e
    BY DEF Board
<1>2. [t EXCEPT !.rx = rx1] = u
    BY DEF Board
<1>3. Firmware(t, b) =
         CASE msg.result = "NONE" -> u
           [] msg.result = "LEN_ERR" -> [u EXCEPT !.len_err = @ + 1]
           [] OTHER -> [u EXCEPT !.expect = k + 1,
                                 !.ok = IF msg.result = "OK" THEN @ + 1 ELSE @,
                                 !.crc_err = IF msg.result = "CRC_ERR" THEN @ + 1 ELSE @,
                                 !.bit_errors = @ \/ d]
  <2> HIDE DEF t, u
  <2> QED BY <1>1, <1>2 DEF Firmware
<1> HIDE DEF k, d, msg, rx1
<1>4. [u EXCEPT !.len_err = @ + 1] = Board(rx1, e, ok, ce, le + 1, be)
    BY DEF Board
<1>5. [u EXCEPT !.expect = k + 1,
                !.ok = IF msg.result = "OK" THEN @ + 1 ELSE @,
                !.crc_err = IF msg.result = "CRC_ERR" THEN @ + 1 ELSE @,
                !.bit_errors = @ \/ d]
          = Board(rx1, k + 1, IF msg.result = "OK" THEN ok + 1 ELSE ok,
                  IF msg.result = "CRC_ERR" THEN ce + 1 ELSE ce, le, be \/ d)
  <2> DEFINE o == IF msg.result = "OK" THEN ok + 1 ELSE ok
             c == IF msg.result = "CRC_ERR" THEN ce + 1 ELSE ce
             x == be \/ d
             k1 == k + 1
  <2>1. /\ (IF msg.result = "OK" THEN u.ok + 1 ELSE u.ok) = o
        /\ (IF msg.result = "CRC_ERR" THEN u.crc_err + 1 ELSE u.crc_err) = c
      BY DEF Board
  <2>2. (u.bit_errors \/ d) = x
    <3>1. u.bit_errors = be
        BY DEF Board
    <3> HIDE DEF u
    <3> QED BY <3>1
  <2>3. [u EXCEPT !.expect = k1, !.ok = o, !.crc_err = c, !.bit_errors = x]
            = Board(rx1, k1, o, c, le, x)
    <3> HIDE DEF o, c, x, k1
    <3> DEFINE v == Board(rx1, k1, ok, ce, le, be)
               w == Board(rx1, k1, o, ce, le, be)
               y == Board(rx1, k1, o, c, le, be)
    <3>1. [u EXCEPT !.expect = k1] = v
        BY DEF Board
    <3>2. [v EXCEPT !.ok = o] = w
        BY DEF Board
    <3>3. [w EXCEPT !.crc_err = c] = y
        BY DEF Board
    <3>4. [y EXCEPT !.bit_errors = x] = Board(rx1, k1, o, c, le, x)
        BY DEF Board
    <3> HIDE DEF u, v, w, y
    <3>5. [u EXCEPT !.expect = k1, !.ok = o, !.crc_err = c, !.bit_errors = x]
              = [[[[u EXCEPT !.expect = k1] EXCEPT !.ok = o] EXCEPT !.crc_err = c]
                      EXCEPT !.bit_errors = x]
        OBVIOUS
    <3> QED BY <3>1, <3>2, <3>3, <3>4, <3>5
  <2> HIDE DEF u, o, c, x
  <2>4. [u EXCEPT !.expect = k + 1,
                  !.ok = IF msg.result = "OK" THEN @ + 1 ELSE @,
                  !.crc_err = IF msg.result = "CRC_ERR" THEN @ + 1 ELSE @,
                  !.bit_errors = @ \/ d]
            = [u EXCEPT !.expect = k1, !.ok = o, !.crc_err = c, !.bit_errors = x]
      BY <2>1, <2>2
  <2> QED BY <2>3, <2>4 DEF o, c, x
<1> HIDE DEF t, u
<1> QED BY <1>3, <1>4, <1>5 DEF k, d, msg, rx1, t, u

LEMMA EarHears ==
    ASSUME NEW m, NEW ev, NEW b
    PROVE  LET m1 == [m EXCEPT !.rx = Fed(m.rx, b)]
               r == FedReport(m.rx, b)
           IN  /\ r.status = "none" => Monitored(Ear(m, ev), b) = Ear(m1, ev)
               /\ r.status # "none" =>
                     Monitored(Ear(m, ev), b) = Ear(Accounted(m1, r), ev \o EventsOf(m1, r))
<1> DEFINE m1 == [m EXCEPT !.rx = Fed(m.rx, b)]
           r == FedReport(m.rx, b)
           acc == Ear(m, ev)
<1>1. acc.monitor = m
    BY DEF Ear
<1>2. Monitored(acc, b) =
        IF r.status = "none" THEN [acc EXCEPT !.monitor = m1]
        ELSE [acc EXCEPT !.monitor = Accounted(m1, r), !.events = @ \o EventsOf(m1, r)]
  <2> HIDE DEF acc
  <2> QED BY <1>1 DEF Monitored
<1> HIDE DEF m1, r
<1>3. [acc EXCEPT !.monitor = m1] = Ear(m1, ev)
    BY DEF Ear
<1> DEFINE x == Accounted(m1, r)
           y == EventsOf(m1, r)
<1>4. [acc EXCEPT !.monitor = x, !.events = @ \o y] = Ear(x, ev \o y)
  <2> DEFINE z == ev \o y
  <2> HIDE DEF x, y
  <2>1. acc.events \o y = z
      BY DEF Ear
  <2>2. [acc EXCEPT !.monitor = x, !.events = z] = Ear(x, z)
    <3> HIDE DEF z
    <3> DEFINE half == Ear(x, ev)
    <3>1. [acc EXCEPT !.monitor = x] = half /\ [half EXCEPT !.events = z] = Ear(x, z)
        BY DEF Ear
    <3> HIDE DEF acc, half
    <3>2. [acc EXCEPT !.monitor = x, !.events = z] = [[acc EXCEPT !.monitor = x] EXCEPT !.events = z]
        OBVIOUS
    <3> QED BY <3>1, <3>2
  <2> HIDE DEF acc, z
  <2>3. [acc EXCEPT !.monitor = x, !.events = @ \o y] = [acc EXCEPT !.monitor = x, !.events = z]
      BY <2>1
  <2> QED BY <2>2, <2>3 DEF z
<1> QED BY <1>2, <1>3, <1>4 DEF m1, r

\* They count the same, but for the number of bits in error.
SameCount(m, t) ==
    /\ m = Mon(m.rx, m.expected, m.ok, m.crc_err, m.len_err, m.bit_errors)
    /\ t = Board(t.rx, m.expected, m.ok, m.crc_err, m.len_err, t.bit_errors)
    /\ SameRx(m.rx, t.rx)
    /\ m.expected \in Nat /\ m.bit_errors \in Nat
    /\ t.bit_errors = TRUE \/ t.bit_errors = FALSE
    /\ t.bit_errors = TRUE <=> m.bit_errors > 0

LEMMA CountedSame ==
    ASSUME NEW rx, NEW fw, SameRx(rx, fw), NEW e \in Nat, NEW ok, NEW ce, NEW le, NEW n \in Nat,
           NEW be, be = TRUE \/ be = FALSE, be = TRUE <=> n > 0
    PROVE  SameCount(Mon(rx, e, ok, ce, le, n), Board(fw, e, ok, ce, le, be))
<1> DEFINE m == Mon(rx, e, ok, ce, le, n)
           t == Board(fw, e, ok, ce, le, be)
<1>1. /\ m.rx = rx /\ m.expected = e /\ m.ok = ok /\ m.crc_err = ce /\ m.len_err = le
      /\ m.bit_errors = n
    BY DEF Mon
<1>2. t.rx = fw
    BY DEF Board
<1>3. t.bit_errors = be
    BY DEF Board
<1>4. m = Mon(m.rx, m.expected, m.ok, m.crc_err, m.len_err, m.bit_errors)
    BY <1>1
<1>5. t = Board(t.rx, m.expected, m.ok, m.crc_err, m.len_err, t.bit_errors)
    BY <1>1, <1>2, <1>3
<1> HIDE DEF m, t
<1> QED BY <1>1, <1>2, <1>3, <1>4, <1>5 DEF SameCount

\* One more word in error, or not.
LEMMA ErrorsAdd ==
    ASSUME BodyIsTotal, NEW n \in Nat, NEW be, be = TRUE \/ be = FALSE, be = TRUE <=> n > 0,
           NEW p \in Seq(Word), NEW k \in Nat
    PROVE  LET more == n + BitErrors(p, TestPayload(k))
               bad == be \/ Differs(p, TestPayload(k))
           IN  more \in Nat /\ (bad = TRUE \/ bad = FALSE) /\ (bad = TRUE <=> more > 0)
<1> DEFINE d == BitErrors(p, TestPayload(k))
<1>1. d \in Nat /\ (Differs(p, TestPayload(k)) <=> d > 0)
    BY BitErrorsType
<1> HIDE DEF d
<1>2. n + d \in Nat /\ (n + d > 0 <=> n > 0 \/ d > 0)
    BY <1>1
<1>3. (be \/ Differs(p, TestPayload(k))) <=> n + d > 0
    BY <1>1, <1>2
<1> QED BY <1>2, <1>3 DEF d

LEMMA SameOnBit ==
    ASSUME BodyIsTotal, NEW m, NEW t, SameCount(m, t), NEW ev, NEW b \in {0, 1}
    PROVE  \E m1, ev1 : /\ Monitored(Ear(m, ev), b) = Ear(m1, ev1)
                        /\ SameCount(m1, Firmware(t, b))
<1> DEFINE e == m.expected
           ok == m.ok
           ce == m.crc_err
           le == m.len_err
           n == m.bit_errors
           be == t.bit_errors
           rx1 == Fed(m.rx, b)
           fw1 == PushBit(t.rx, b)
           r == FedReport(m.rx, b)
           msg == Pushed(t.rx, b)
           base == Mon(rx1, e, ok, ce, le, n)
<1>1. /\ SameRx(m.rx, t.rx) /\ e \in Nat /\ n \in Nat
      /\ be = TRUE \/ be = FALSE
      /\ be = TRUE <=> n > 0
    BY DEF SameCount
<1>2. m = Mon(m.rx, e, ok, ce, le, n) /\ t = Board(t.rx, e, ok, ce, le, be)
    BY DEF SameCount
<1>3. SameRx(rx1, fw1) /\ SameReport(r, msg)
    BY <1>1, SameBit
<1>4. [m EXCEPT !.rx = rx1] = base
  <2> DEFINE old == Mon(m.rx, e, ok, ce, le, n)
  <2>1. [old EXCEPT !.rx = rx1] = base
    <3> HIDE DEF rx1, e, ok, ce, le, n
    <3> QED BY DEF Mon
  <2> HIDE DEF base, old, rx1
  <2>2. m = old
      BY <1>2 DEF old
  <2> QED BY <2>1, <2>2
<1>5. /\ r.status = "none" => Monitored(Ear(m, ev), b) = Ear(base, ev)
      /\ r.status # "none" =>
            Monitored(Ear(m, ev), b) = Ear(Accounted(base, r), ev \o EventsOf(base, r))
    BY <1>4, EarHears
<1> DEFINE fw == t.rx
           t1 == Firmware(t, b)
<1>6. t1 = Firmware(Board(fw, e, ok, ce, le, be), b)
    BY <1>2
<1>7. msg # None => GoodMessage(msg)
    BY <1>1, PushGood DEF SameRx
<1>8. /\ r.status = "none" <=> msg.result = "NONE"
      /\ r.status = "ok" <=> msg.result = "OK"
      /\ r.status = "crc_err" <=> msg.result = "CRC_ERR"
      /\ r.status = "len_err" <=> msg.result = "LEN_ERR"
      /\ r.payload = msg.payload
      /\ r.status \in {"none", "ok", "crc_err", "len_err"}
    BY <1>3 DEF SameReport
<1>9. msg.result # "NONE" =>
          msg.payload \in Seq(Word) /\ (msg.result = "OK" => msg.payload # <<>>)
  <2>1. msg.result # "NONE" => msg # None
      BY DEF None
  <2> QED BY <1>7, <2>1 DEF GoodMessage, Message
<1> HIDE DEF e, ok, ce, le, n, be, rx1, fw1, r, msg, fw, t1
<1>10. CASE r.status = "none"
  <2>1. t1 = Board(fw1, e, ok, ce, le, be)
      BY <1>6, <1>8, <1>10, BoardCounts DEF msg, fw1, fw
  <2>2. SameCount(base, t1)
    <3>1. SameCount(Mon(rx1, e, ok, ce, le, n), Board(fw1, e, ok, ce, le, be))
        BY <1>1, <1>3, CountedSame
    <3> QED BY <2>1, <3>1
  <2> HIDE DEF base
  <2> QED BY <1>5, <1>10, <2>2 DEF t1
<1>11. CASE r.status = "len_err"
  <2>1. t1 = Board(fw1, e, ok, ce, le + 1, be)
      BY <1>6, <1>8, <1>11, BoardCounts DEF msg, fw1, fw
  <2>2. Accounted(base, r) = Mon(rx1, e, ok, ce, le + 1, n)
      BY <1>11, MonitorCounts
  <2>3. SameCount(Accounted(base, r), t1)
      BY <1>1, <1>3, <2>1, <2>2, CountedSame
  <2> HIDE DEF base
  <2> QED BY <1>5, <1>11, <2>3 DEF t1
<1>12. CASE r.status = "ok"
  <2> DEFINE k == ResyncIndex(e, msg.payload[1])
             be1 == be \/ Differs(msg.payload, TestPayload(k))
             n1 == n + BitErrors(msg.payload, TestPayload(k))
  <2>1. t1 = Board(fw1, k + 1, ok + 1, ce, le, be1)
      BY <1>6, <1>8, <1>12, BoardCounts DEF msg, fw1, fw
  <2>2. Resynced(e, r.payload[1]) = k
      BY <1>8 DEF Resynced, ResyncIndex
  <2>3. Accounted(base, r) = Mon(rx1, k + 1, ok + 1, ce, le, n1)
      BY <1>8, <1>12, <2>2, MonitorCounts
  <2>4. k \in Nat
    <3>1. msg.payload[1] \in Word
        BY <1>8, <1>9, <1>12
    <3> QED BY <1>1, <3>1, ResyncType
  <2> HIDE DEF k
  <2>5. n1 \in Nat /\ (be1 = TRUE \/ be1 = FALSE) /\ (be1 = TRUE <=> n1 > 0)
    <3>1. msg.payload \in Seq(Word)
        BY <1>8, <1>9, <1>12
    <3> QED BY <1>1, <2>4, <3>1, ErrorsAdd
  <2>6. k + 1 \in Nat
      BY <2>4
  <2> HIDE DEF n1, be1
  <2>7. SameCount(Accounted(base, r), t1)
      BY <1>3, <2>1, <2>3, <2>5, <2>6, CountedSame
  <2> HIDE DEF base
  <2> QED BY <1>5, <1>12, <2>7 DEF t1
<1>13. CASE r.status = "crc_err"
  <2> DEFINE be1 == be \/ Differs(msg.payload, TestPayload(e))
             n1 == n + BitErrors(msg.payload, TestPayload(e))
  <2>1. t1 = Board(fw1, e + 1, ok, ce + 1, le, be1)
      BY <1>6, <1>8, <1>13, BoardCounts DEF msg, fw1, fw
  <2>3. Accounted(base, r) = Mon(rx1, e + 1, ok, ce + 1, le, n1)
      BY <1>8, <1>13, MonitorCounts
  <2>5. n1 \in Nat /\ (be1 = TRUE \/ be1 = FALSE) /\ (be1 = TRUE <=> n1 > 0)
    <3>1. msg.payload \in Seq(Word)
        BY <1>8, <1>9, <1>13
    <3> QED BY <1>1, <3>1, ErrorsAdd
  <2>6. e + 1 \in Nat
      BY <1>1
  <2> HIDE DEF n1, be1
  <2>7. SameCount(Accounted(base, r), t1)
      BY <1>3, <2>1, <2>3, <2>5, <2>6, CountedSame
  <2> HIDE DEF base
  <2> QED BY <1>5, <1>13, <2>7 DEF t1
<1> QED BY <1>8, <1>10, <1>11, <1>12, <1>13

LEMMA SameOnBits ==
    ASSUME BodyIsTotal, NEW m, NEW t, SameCount(m, t), NEW ev, NEW s \in Seq({0, 1})
    PROVE  \E m1, ev1 : /\ Over(Monitored, Ear(m, ev), s) = Ear(m1, ev1)
                        /\ SameCount(m1, Over(Firmware, t, s))
<1>1. Len(s) \in Nat /\ \A i \in 1 .. Len(s) : s[i] \in {0, 1}
    OBVIOUS
<1>2. PICK g : /\ Folded(g, "monitored", Ear(m, ev), s)
               /\ Over(Monitored, Ear(m, ev), s) = g[Len(s)]
    BY <1>1, FoldMonitored
<1>3. PICK h : Folded(h, "firmware", t, s) /\ Over(Firmware, t, s) = h[Len(s)]
    BY <1>1, FoldFirmware
<1> DEFINE Agree(x, y) == \E m1, ev1 : x = Ear(m1, ev1) /\ SameCount(m1, y)
           S == {i \in 0 .. Len(s) : Agree(g[i], h[i])}
<1>4. 0 \in S
    BY <1>1, <1>2, <1>3 DEF Folded
<1>5. ASSUME NEW i \in 1 .. Len(s), i - 1 \in S PROVE i \in S
  <2>1. PICK m1, ev1 : g[i - 1] = Ear(m1, ev1) /\ SameCount(m1, h[i - 1])
      BY <1>5
  <2>2. /\ g[i] = Monitored(Ear(m1, ev1), s[i])
        /\ h[i] = Firmware(h[i - 1], s[i])
      BY <1>2, <1>3, <2>1, StepKinds DEF Folded
  <2>3. s[i] \in {0, 1}
      BY <1>1
  <2>4. Agree(g[i], h[i])
      BY <2>1, <2>2, <2>3, SameOnBit
  <2> HIDE DEF Agree
  <2> QED BY <1>1, <2>4
<1>6. 0 .. Len(s) \subseteq S
  <2> HIDE DEF S
  <2> QED BY <1>1, <1>4, <1>5, Induct
<1>7. Agree(g[Len(s)], h[Len(s)])
    BY <1>1, <1>6
<1> QED BY <1>2, <1>3, <1>7

LEMMA BurstBits ==
    ASSUME NEW f, f.bits \in Seq({0, 1})
    PROVE  Burst(f) \in Seq({0, 1})
<1>1. GapBits \in Nat
    BY SimSizes
<1>2. [i \in 1 .. GapBits |-> 0] \in Seq({0, 1})
    BY <1>1
<1> QED BY <1>2 DEF Burst

LEMMA SameOnFrames ==
    ASSUME BodyIsTotal, NEW m, NEW t, SameCount(m, t), NEW ev, NEW came, Len(came) \in Nat,
           \A i \in 1 .. Len(came) : came[i].bits \in Seq({0, 1})
    PROVE  \E m1, ev1 : /\ Over(Heard, Ear(m, ev), came) = Ear(m1, ev1)
                        /\ SameCount(m1, Over(Clocked, t, came))
<1>2. PICK g : /\ Folded(g, "heard", Ear(m, ev), came)
               /\ Over(Heard, Ear(m, ev), came) = g[Len(came)]
    BY FoldHeard
<1>3. PICK h : Folded(h, "clocked", t, came) /\ Over(Clocked, t, came) = h[Len(came)]
    BY FoldClocked
<1> DEFINE Agree(x, y) == \E m1, ev1 : x = Ear(m1, ev1) /\ SameCount(m1, y)
           S == {i \in 0 .. Len(came) : Agree(g[i], h[i])}
<1>4. 0 \in S
    BY <1>2, <1>3 DEF Folded
<1>5. ASSUME NEW i \in 1 .. Len(came), i - 1 \in S PROVE i \in S
  <2>1. PICK m1, ev1 : g[i - 1] = Ear(m1, ev1) /\ SameCount(m1, h[i - 1])
      BY <1>5
  <2>2. /\ g[i] = Heard(Ear(m1, ev1), came[i])
        /\ h[i] = Clocked(h[i - 1], came[i])
      BY <1>2, <1>3, <2>1, StepKinds DEF Folded
  <2>3. Burst(came[i]) \in Seq({0, 1})
      BY BurstBits
  <2>4. Agree(g[i], h[i])
      BY <2>1, <2>2, <2>3, SameOnBits DEF Heard, Clocked
  <2> HIDE DEF Agree
  <2> QED BY <2>4
<1>6. 0 .. Len(came) \subseteq S
  <2> HIDE DEF S
  <2> QED BY <1>4, <1>5, Induct
<1>7. Agree(g[Len(came)], h[Len(came)])
    BY <1>6
<1> QED BY <1>2, <1>3, <1>7

Watches == [bad : Nat, good : Nat, up : BOOLEAN, known : BOOLEAN]
Shakes == [consec_timeouts : Nat, link_state : {"init", "up", "lost"}]

\* The link state of A, and the link watch.
SameWatch(w, v) ==
    /\ w \in Shakes /\ v \in Watches
    /\ w.consec_timeouts = v.bad
    /\ w.link_state = IF ~v.known THEN "init" ELSE IF v.up THEN "up" ELSE "lost"
    /\ v.known /\ ~v.up => v.bad >= LostAfter

LEMMA WatchFields ==
    ASSUME NEW w, NEW ok
    PROVE  LET good == IF ok THEN w.good + 1 ELSE 0
               bad == IF ok THEN 0 ELSE w.bad + 1
               rises == ok /\ (~w.known \/ ~w.up) /\ good >= 1
               falls == ~ok /\ (~w.known \/ w.up) /\ bad >= LostAfter
               u == LinkWatch(w, ok)
           IN  /\ u = [bad |-> u.bad, good |-> u.good, up |-> u.up, known |-> u.known]
               /\ u.bad = bad /\ u.good = good
               /\ u.up = IF rises THEN TRUE ELSE IF falls THEN FALSE ELSE w.up
               /\ u.known = IF rises \/ falls THEN TRUE ELSE w.known
BY DEF LinkWatch

LEMMA WatchAnswered ==
    ASSUME NEW v \in Watches
    PROVE  LET u == LinkWatch(v, TRUE) IN u \in Watches /\ u.bad = 0 /\ u.known /\ u.up
<1> DEFINE u == LinkWatch(v, TRUE)
<1>1. v.good + 1 \in Nat /\ v.good + 1 >= 1 /\ v.up \in BOOLEAN /\ v.known \in BOOLEAN
    BY DEF Watches
<1>2. u = [bad |-> u.bad, good |-> u.good, up |-> u.up, known |-> u.known]
    BY WatchFields
<1>3. u.bad = 0 /\ u.good = v.good + 1
    BY WatchFields
<1>4. u.up = IF ~v.known \/ ~v.up THEN TRUE ELSE v.up
    BY <1>1, WatchFields
<1>5. u.known = IF ~v.known \/ ~v.up THEN TRUE ELSE v.known
    BY <1>1, WatchFields
<1> HIDE DEF u
<1>6. u.up /\ u.known
    BY <1>1, <1>4, <1>5
<1>7. u.up \in BOOLEAN /\ u.known \in BOOLEAN
    BY <1>1, <1>4, <1>5
<1>8. u \in Watches
    BY <1>1, <1>2, <1>3, <1>7 DEF Watches
<1> QED BY <1>3, <1>6, <1>8 DEF u

LEMMA WatchMissed ==
    ASSUME NEW v \in Watches
    PROVE  LET u == LinkWatch(v, FALSE)
               falls == (~v.known \/ v.up) /\ v.bad + 1 >= LostAfter
           IN  /\ u \in Watches /\ u.bad = v.bad + 1
               /\ falls => u.known /\ ~u.up
               /\ ~falls => (u.known <=> v.known) /\ (u.up <=> v.up)
<1> DEFINE u == LinkWatch(v, FALSE)
           falls == (~v.known \/ v.up) /\ v.bad + 1 >= LostAfter
<1>1. v.bad + 1 \in Nat /\ v.up \in BOOLEAN /\ v.known \in BOOLEAN
    BY DEF Watches
<1>2. u = [bad |-> u.bad, good |-> u.good, up |-> u.up, known |-> u.known]
    BY WatchFields
<1>3. u.bad = v.bad + 1 /\ u.good = 0
    BY WatchFields
<1>4. u.up = IF falls THEN FALSE ELSE v.up
    BY <1>1, WatchFields
<1>5. u.known = IF falls THEN TRUE ELSE v.known
    BY <1>1, WatchFields
<1> HIDE DEF u
<1>6. /\ falls => u.known /\ ~u.up
      /\ ~falls => (u.known <=> v.known) /\ (u.up <=> v.up)
  <2> HIDE DEF falls
  <2> QED BY <1>1, <1>4, <1>5
<1>7. u.up \in BOOLEAN /\ u.known \in BOOLEAN
    BY <1>1, <1>4, <1>5
<1>8. u \in Watches
    BY <1>1, <1>2, <1>3, <1>7 DEF Watches
<1> QED BY <1>3, <1>6, <1>8 DEF u

LEMMA ShakenMoves ==
    ASSUME NEW w \in Shakes
    PROVE  /\ Shaken(w, TRUE) \in Shakes /\ Shaken(w, FALSE) \in Shakes
           /\ Shaken(w, TRUE).consec_timeouts = 0
           /\ Shaken(w, FALSE).consec_timeouts = w.consec_timeouts + 1
           /\ Shaken(w, TRUE).link_state = "up"
           /\ Shaken(w, FALSE).link_state =
                 IF w.consec_timeouts + 1 >= LostAfter THEN "lost" ELSE w.link_state
BY DEF Shaken, Shakes, GivesUp

LEMMA SameOnHandshake ==
    ASSUME NEW w, NEW v, SameWatch(w, v), NEW ok \in BOOLEAN
    PROVE  SameWatch(Shaken(w, ok), LinkWatch(v, ok))
<1>1. v.bad \in Nat /\ v \in Watches /\ w \in Shakes /\ LostAfter \in Nat /\ LostAfter >= 1
    BY SimSizes DEF SameWatch, Watches
<1>2. CASE ok
  <2>1. SameWatch(Shaken(w, TRUE), LinkWatch(v, TRUE))
      BY <1>1, WatchAnswered, ShakenMoves DEF SameWatch
  <2> QED BY <1>2, <2>1
<1>3. CASE ~ok
  <2> DEFINE x == Shaken(w, FALSE)
             y == LinkWatch(v, FALSE)
             falls == (~v.known \/ v.up) /\ v.bad + 1 >= LostAfter
  <2>1. /\ x \in Shakes /\ y \in Watches /\ y.bad = v.bad + 1
        /\ x.consec_timeouts = w.consec_timeouts + 1
        /\ falls => y.known /\ ~y.up
        /\ ~falls => (y.known <=> v.known) /\ (y.up <=> v.up)
        /\ x.link_state = IF w.consec_timeouts + 1 >= LostAfter THEN "lost" ELSE w.link_state
      BY <1>1, WatchMissed, ShakenMoves
  <2> HIDE DEF x, y
  <2>2. SameWatch(x, y)
      BY <1>1, <2>1 DEF SameWatch
  <2> QED BY <1>3, <2>2 DEF x, y
<1> QED BY <1>2, <1>3

-----------------------------------------------------------------------------
(* The wire.                                                               *)

Edge == [in : Int, kind : {"set", "on", "off"}, value : {0, 1}]
OnWire == [in : Int, seq : Nat, bits : Seq({0, 1})]
Cable == [sent : {0, 1}, behind : Nat, heap : Seq(Edge), frames : Seq(OnWire)]

\* An event goes behind the last one that is due no later, and moves nothing else.
Inserted(h, e, n) ==
    /\ Put(h, e) \in Seq(Edge) /\ Len(Put(h, e)) = Len(h) + 1
    /\ \A i \in 1 .. n : Put(h, e)[i] = h[i]
    /\ Put(h, e)[n + 1] = e
    /\ \A i \in n + 1 .. Len(h) : Put(h, e)[i + 1] = h[i] /\ h[i].in > e.in

LEMMA PutLaws ==
    ASSUME NEW h \in Seq(Edge), NEW e \in Edge
    PROVE  \E n \in 0 .. Len(h) : Inserted(h, e, n)
<1> DEFINE sooner == {i \in DOMAIN h : h[i].in <= e.in}
           Last(n) == n \in sooner \cup {0} /\ \A i \in sooner : i <= n
           place == CHOOSE n \in 0 .. Len(h) : Last(n)
           head == SubSeq(h, 1, place)
           tail == SubSeq(h, place + 1, Len(h))
<1>1. /\ Len(h) \in Nat /\ DOMAIN h = 1 .. Len(h) /\ e.in \in Int
      /\ \A i \in 1 .. Len(h) : h[i] \in Edge /\ h[i].in \in Int
  <2>1. \A x \in Edge : x.in \in Int
      BY DEF Edge
  <2> QED BY <2>1
<1>2. \E n \in 0 .. Len(h) : Last(n)
  <2> DEFINE S == {j \in 0 .. Len(h) : \E n \in 0 .. j : n \in sooner \cup {0}
                                          /\ \A i \in sooner : i <= j => i <= n}
  <2>1. 0 \in S
      BY <1>1
  <2>2. ASSUME NEW j \in 1 .. Len(h), j - 1 \in S PROVE j \in S
    <3>1. PICK n \in 0 .. j - 1 : n \in sooner \cup {0} /\ \A i \in sooner : i <= j - 1 => i <= n
        BY <2>2
    <3>2. \A i \in sooner : i \in Nat
        BY <1>1
    <3>3. CASE j \in sooner
        BY <1>1, <3>2, <3>3
    <3>4. CASE j \notin sooner
        BY <1>1, <3>1, <3>2, <3>4
    <3> QED BY <3>3, <3>4
  <2>3. Len(h) \in S
    <3> HIDE DEF S
    <3>1. 0 .. Len(h) \subseteq S
        BY <1>1, <2>1, <2>2, Induct
    <3> QED BY <1>1, <3>1
  <2>4. PICK n \in 0 .. Len(h) : n \in sooner \cup {0} /\ \A i \in sooner : i <= Len(h) => i <= n
      BY <2>3
  <2> QED BY <1>1, <2>4
<1>3. place \in 0 .. Len(h) /\ Last(place)
  <2> HIDE DEF Last
  <2> QED BY <1>2
<1>4. Put(h, e) = head \o <<e>> \o tail
    BY DEF Put
<1>5. ASSUME NEW i \in 1 .. Len(h), i > place PROVE h[i].in > e.in
  <2> HIDE DEF place
  <2>1. i \notin sooner
      BY <1>1, <1>3, <1>5
  <2>2. h[i].in \in Int /\ ~(h[i].in <= e.in)
      BY <1>1, <2>1
  <2> QED BY <1>1, <2>2
<1> HIDE DEF place, sooner, Last
<1>6. /\ head \in Seq(Edge) /\ Len(head) = place
      /\ \A i \in 1 .. place : head[i] = h[i]
  <2>1. \A i \in 1 .. place : h[i] \in Edge
      BY <1>1, <1>3
  <2> QED BY <1>1, <1>3, <2>1, SubSeqProperties
<1>7. /\ tail \in Seq(Edge) /\ Len(tail) = Len(h) - place
      /\ \A i \in 1 .. Len(h) - place : tail[i] = h[place + i]
  <2>1. \A i \in place + 1 .. Len(h) : h[i] \in Edge
      BY <1>1, <1>3
  <2>2. place + 1 \in Int /\ Len(h) \in Int
      BY <1>1, <1>3
  <2>3. /\ tail \in Seq(Edge)
        /\ Len(tail) = IF place + 1 <= Len(h) THEN Len(h) - (place + 1) + 1 ELSE 0
        /\ \A i \in 1 .. Len(h) - (place + 1) + 1 : tail[i] = h[(place + 1) + i - 1]
      BY <2>1, <2>2, SubSeqProperties
  <2> HIDE DEF tail
  <2>5. ASSUME NEW i \in 1 .. Len(h) - place PROVE tail[i] = h[place + i]
    <3>1. i \in 1 .. Len(h) - (place + 1) + 1 /\ (place + 1) + i - 1 = place + i
        BY <1>1, <1>3
    <3>2. tail[i] = h[(place + 1) + i - 1]
        BY <2>3, <3>1
    <3> QED BY <3>1, <3>2
  <2>6. Len(tail) = Len(h) - place
    <3> DEFINE k == Len(h)
               l == Len(tail)
    <3>1. k \in Nat /\ place \in 0 .. k
        BY <1>1, <1>3
    <3>2. l = IF place + 1 <= k THEN k - (place + 1) + 1 ELSE 0
        BY <2>3
    <3> HIDE DEF k, l
    <3>3. l = k - place
        BY <3>1, <3>2
    <3> QED BY <3>3 DEF k, l
  <2> QED BY <2>3, <2>5, <2>6
<1> HIDE DEF head, tail
<1> DEFINE left0 == head \o <<e>>
<1>8. /\ left0 \in Seq(Edge) /\ Len(left0) = place + 1 /\ left0[place + 1] = e
      /\ \A i \in 1 .. place : left0[i] = h[i]
    BY <1>3, <1>6
<1> HIDE DEF left0
<1> DEFINE all == left0 \o tail
<1>9. /\ all \in Seq(Edge) /\ Len(all) = Len(h) + 1
      /\ \A i \in 1 .. place + 1 : all[i] = left0[i]
      /\ \A i \in 1 .. Len(h) - place : all[(place + 1) + i] = tail[i]
    BY <1>1, <1>3, <1>7, <1>8
<1>10. Put(h, e) = all
    BY <1>4 DEF left0
<1> HIDE DEF all
<1>11. ASSUME NEW i \in place + 1 .. Len(h) PROVE all[i + 1] = h[i] /\ h[i].in > e.in
  <2>1. i - place \in 1 .. Len(h) - place /\ (place + 1) + (i - place) = i + 1
        /\ place + (i - place) = i /\ i \in 1 .. Len(h) /\ i > place
      BY <1>1, <1>3
  <2>2. all[i + 1] = tail[i - place] /\ tail[i - place] = h[i]
      BY <1>7, <1>9, <2>1
  <2> QED BY <1>5, <2>1, <2>2
<1>12. \A i \in 1 .. place : all[i] = h[i]
    BY <1>3, <1>8, <1>9
<1>13. all[place + 1] = e
    BY <1>3, <1>8, <1>9
<1>14. Inserted(h, e, place)
    BY <1>9, <1>10, <1>11, <1>12, <1>13 DEF Inserted
<1> QED BY <1>3, <1>14

\* What is due is what comes first.
Split(q, n) ==
    /\ Len(Due(q)) = n /\ \A i \in 1 .. n : Due(q)[i] = q[i] /\ q[i].in <= 0
    /\ Len(NotDue(q)) = Len(q) - n /\ \A i \in 1 .. Len(q) - n : NotDue(q)[i] = q[n + i]

LEMMA DueLaws ==
    ASSUME NEW D, NEW q \in Seq(D), \A i \in 1 .. Len(q) : q[i].in \in Int
    PROVE  /\ Due(q) \in Seq(D) /\ NotDue(q) \in Seq(D)
           /\ \E n \in 0 .. Len(q) : Split(q, n)
<1> DEFINE First(n) == /\ \A i \in 1 .. n : q[i].in <= 0
                       /\ n < Len(q) => q[n + 1].in > 0
           S == {j \in 0 .. Len(q) : (\A i \in 1 .. j : q[i].in <= 0) \/ \E n \in 0 .. Len(q) : First(n)}
<1>1. Len(q) \in Nat
    OBVIOUS
<1>2. 0 \in S
    BY <1>1
<1>3. ASSUME NEW j \in 1 .. Len(q), j - 1 \in S PROVE j \in S
  <2>1. CASE \E n \in 0 .. Len(q) : First(n)
      BY <2>1
  <2>2. CASE (\A i \in 1 .. j - 1 : q[i].in <= 0) /\ q[j].in > 0
    <3>1. j - 1 \in 0 .. Len(q) /\ (j - 1) + 1 = j
        BY <1>1
    <3>2. First(j - 1)
        BY <2>2, <3>1
    <3> HIDE DEF First
    <3> QED BY <3>1, <3>2
  <2>3. CASE (\A i \in 1 .. j - 1 : q[i].in <= 0) /\ q[j].in <= 0
    <3>1. ASSUME NEW i \in 1 .. j PROVE q[i].in <= 0
      <4>1. i = j \/ i \in 1 .. j - 1
          OBVIOUS
      <4> QED BY <2>3, <4>1
    <3> QED BY <3>1
  <2> QED BY <1>3, <2>1, <2>2, <2>3
<1>4. Len(q) \in S
  <2> HIDE DEF S
  <2>1. 0 .. Len(q) \subseteq S
      BY <1>1, <1>2, <1>3, Induct
  <2> QED BY <1>1, <2>1
<1>5. \E n \in 0 .. Len(q) : First(n)
  <2>1. CASE \A i \in 1 .. Len(q) : q[i].in <= 0
    <3>1. First(Len(q)) /\ Len(q) \in 0 .. Len(q)
        BY <1>1, <2>1
    <3> QED BY <3>1
  <2> QED BY <1>4, <2>1
<1> DEFINE r == CHOOSE n \in 0 .. Len(q) : First(n)
<1>6. r \in 0 .. Len(q) /\ First(r)
  <2> HIDE DEF First
  <2> QED BY <1>5
<1>7. Ripe(q) = r
    BY DEF Ripe
<1> HIDE DEF r
<1>8. /\ \A i \in 1 .. r : q[i] \in D
      /\ \A i \in r + 1 .. Len(q) : q[i] \in D
      /\ r \in Int /\ r + 1 \in Int /\ Len(q) \in Int
    BY <1>1, <1>6
<1> DEFINE x == SubSeq(q, 1, r)
           y == SubSeq(q, r + 1, Len(q))
<1>9. /\ x \in Seq(D) /\ Len(x) = r /\ \A i \in 1 .. r : x[i] = q[i]
    BY <1>1, <1>6, <1>8, SubSeqProperties
<1>10. /\ y \in Seq(D) /\ Len(y) = Len(q) - r
       /\ \A i \in 1 .. Len(q) - r : y[i] = q[r + i]
  <2>1. /\ y \in Seq(D)
        /\ Len(y) = IF r + 1 <= Len(q) THEN Len(q) - (r + 1) + 1 ELSE 0
        /\ \A i \in 1 .. Len(q) - (r + 1) + 1 : y[i] = q[(r + 1) + i - 1]
      BY <1>8, SubSeqProperties
  <2> HIDE DEF y
  <2>3. ASSUME NEW i \in 1 .. Len(q) - r PROVE y[i] = q[r + i]
    <3>1. i \in 1 .. Len(q) - (r + 1) + 1 /\ (r + 1) + i - 1 = r + i
        BY <1>1, <1>6
    <3>2. y[i] = q[(r + 1) + i - 1]
        BY <2>1, <3>1
    <3> QED BY <3>1, <3>2
  <2>4. Len(y) = Len(q) - r
      BY <1>1, <1>6, <2>1
  <2> QED BY <2>1, <2>3, <2>4
<1>11. Due(q) = x /\ NotDue(q) = y
    BY <1>7 DEF Due, NotDue
<1> HIDE DEF x, y
<1>12. Split(q, r)
    BY <1>6, <1>9, <1>10, <1>11 DEF Split
<1> QED BY <1>6, <1>9, <1>10, <1>11, <1>12

Wire(sent, behind, heap, frames) ==
    [sent |-> sent, behind |-> behind, heap |-> heap, frames |-> frames]

LEMMA WireIs ==
    ASSUME NEW w \in Cable
    PROVE  /\ w = Wire(w.sent, w.behind, w.heap, w.frames)
           /\ w.sent \in {0, 1} /\ w.behind \in Nat
           /\ w.heap \in Seq(Edge) /\ w.frames \in Seq(OnWire)
BY DEF Cable, Wire

LEMMA WireType ==
    ASSUME NEW sent \in {0, 1}, NEW behind \in Nat, NEW heap \in Seq(Edge), NEW frames \in Seq(OnWire)
    PROVE  Wire(sent, behind, heap, frames) \in Cable
BY DEF Cable, Wire

LEMMA Arrives ==
    ASSUME NEW w \in Cable, NEW delay \in Nat
    PROVE  Arrival(w, delay) \in Nat /\ Arrival(w, delay) >= w.behind
BY WireIs DEF Arrival

\* What send_level leaves.
LEMMA LevelSent ==
    ASSUME NEW w \in Cable, NEW level \in {0, 1}, NEW fate \in EdgeFates
    PROVE  /\ level = w.sent => SendLevel(w, level, fate) = w
           /\ level # w.sent /\ fate.lost =>
                 SendLevel(w, level, fate) = Wire(level, w.behind, w.heap, w.frames)
           /\ level # w.sent /\ ~fate.lost =>
                 \E in \in Nat :
                    /\ in >= w.behind /\ [in |-> in, kind |-> "set", value |-> level] \in Edge
                    /\ SendLevel(w, level, fate) =
                          Wire(level, in, Put(w.heap, [in |-> in, kind |-> "set", value |-> level]),
                               w.frames)
           /\ SendLevel(w, level, fate) \in Cable
<1> DEFINE in == Arrival(w, fate.delay)
           e == [in |-> in, kind |-> "set", value |-> level]
           heap == Put(w.heap, e)
<1>1. fate.lost = FALSE => fate.delay \in Nat
    BY SimSizes DEF EdgeFates
<1>2. fate.lost = TRUE \/ fate.lost = FALSE
    BY DEF EdgeFates
<1>3. w = Wire(w.sent, w.behind, w.heap, w.frames) /\ w.sent \in {0, 1} /\ w.behind \in Nat
      /\ w.heap \in Seq(Edge) /\ w.frames \in Seq(OnWire)
    BY WireIs
<1>4. SendLevel(w, level, fate) =
        IF level = w.sent THEN w
        ELSE IF fate.lost THEN [w EXCEPT !.sent = level]
        ELSE [w EXCEPT !.sent = level, !.behind = in, !.heap = heap]
  <2>1. w.heap = w.heap
      OBVIOUS
  <2> QED BY DEF SendLevel
<1>5. [w EXCEPT !.sent = level] = Wire(level, w.behind, w.heap, w.frames)
    BY <1>3 DEF Wire
<1>6. ASSUME ~fate.lost
      PROVE  in \in Nat /\ in >= w.behind /\ e \in Edge /\ heap \in Seq(Edge)
  <2>1. fate.delay \in Nat
      BY <1>1, <1>2, <1>6
  <2>2. in \in Nat /\ in >= w.behind
      BY <2>1, Arrives
  <2> HIDE DEF in
  <2>3. e \in Edge
      BY <2>2 DEF Edge
  <2> HIDE DEF e
  <2>4. heap \in Seq(Edge)
      BY <1>3, <2>3, PutLaws DEF Inserted
  <2> QED BY <2>2, <2>3, <2>4
<1>7. [w EXCEPT !.sent = level, !.behind = in, !.heap = heap] = Wire(level, in, heap, w.frames)
  <2> HIDE DEF in, heap
  <2> DEFINE w1 == Wire(level, w.behind, w.heap, w.frames)
             w2 == Wire(level, in, w.heap, w.frames)
  <2>1. [w1 EXCEPT !.behind = in] = w2 /\ [w2 EXCEPT !.heap = heap] = Wire(level, in, heap, w.frames)
      BY DEF Wire
  <2> HIDE DEF w1, w2
  <2>2. [w EXCEPT !.sent = level] = w1
      BY <1>5 DEF w1
  <2>3. [w EXCEPT !.sent = level, !.behind = in, !.heap = heap] =
          [[[w EXCEPT !.sent = level] EXCEPT !.behind = in] EXCEPT !.heap = heap]
      OBVIOUS
  <2> QED BY <2>1, <2>2, <2>3
<1> HIDE DEF in
<1>8. CASE level = w.sent
    BY <1>4, <1>8
<1>9. CASE level # w.sent /\ fate.lost
  <2>1. SendLevel(w, level, fate) = Wire(level, w.behind, w.heap, w.frames)
      BY <1>4, <1>5, <1>9
  <2>2. SendLevel(w, level, fate) \in Cable
      BY <1>3, <2>1, WireType
  <2> QED BY <1>9, <2>1, <2>2
<1>10. CASE level # w.sent /\ ~fate.lost
  <2>1. SendLevel(w, level, fate) = Wire(level, in, heap, w.frames)
      BY <1>4, <1>7, <1>10
  <2>2. SendLevel(w, level, fate) \in Cable
      BY <1>3, <1>6, <1>10, <2>1, WireType
  <2> QED BY <1>6, <1>10, <2>1, <2>2
<1> QED BY <1>8, <1>9, <1>10

\* A frame as it is sent, and what carry_frame leaves.
Sent == [seq : 0 .. MaxOps * FramesPerBurst, fate : FrameFates]

LEMMA SentFrames ==
    ASSUME NEW k \in 0 .. MaxOps * FramesPerBurst
    PROVE  k \in Frames /\ k \in Nat /\ FrameBits(k) \in Seq({0, 1})
<1>1. MaxOps * FramesPerBurst \in Nat
    BY SimSizes
<1>2. \A j \in 0 .. MaxOps * FramesPerBurst : Body(j) \in Seq(Word) /\ Len(Body(j)) < MaxPayload
    BY SimAssumption
<1>3. k \in Frames /\ k \in Nat
    BY <1>1, <1>2 DEF Frames
<1> QED BY <1>3, FrameBit

LEMMA FlippedBits ==
    ASSUME NEW bits \in Seq({0, 1}), NEW flip
    PROVE  Flipped(bits, flip) \in Seq({0, 1})
<1>1. DOMAIN bits = 1 .. Len(bits) /\ Len(bits) \in Nat /\ \A i \in 1 .. Len(bits) : bits[i] \in {0, 1}
    OBVIOUS
<1>2. \A i \in 1 .. Len(bits) : (IF i = flip THEN 1 - bits[i] ELSE bits[i]) \in {0, 1}
    BY <1>1
<1>3. Flipped(bits, flip) \in [1 .. Len(bits) -> {0, 1}]
    BY <1>1, <1>2 DEF Flipped
<1> QED BY <1>1, <1>3, SeqDef

LEMMA FrameSent ==
    ASSUME NEW w \in Cable, NEW c \in Sent
    PROVE  /\ c.fate.lost => CarryFrame(w, c) = w
           /\ ~c.fate.lost =>
                 \E in \in Nat :
                    LET f == [in |-> in, seq |-> c.seq, bits |-> Flipped(FrameBits(c.seq), c.fate.flip)]
                    IN  /\ f \in OnWire /\ in >= w.behind
                        /\ CarryFrame(w, c) = Wire(w.sent, in, w.heap, Append(w.frames, f))
           /\ CarryFrame(w, c) \in Cable
<1> DEFINE in == Arrival(w, c.fate.delay)
           f == [in |-> in, seq |-> c.seq, bits |-> Flipped(FrameBits(c.seq), c.fate.flip)]
           frames == Append(w.frames, f)
<1>0. c.fate \in FrameFates /\ c.seq \in 0 .. MaxOps * FramesPerBurst
    BY DEF Sent
<1>1. c.fate.lost = FALSE => c.fate.delay \in Nat
    BY <1>0, SimSizes DEF FrameFates
<1>2. c.fate.lost = TRUE \/ c.fate.lost = FALSE
    BY <1>0 DEF FrameFates
<1>3. w = Wire(w.sent, w.behind, w.heap, w.frames) /\ w.sent \in {0, 1} /\ w.behind \in Nat
      /\ w.heap \in Seq(Edge) /\ w.frames \in Seq(OnWire)
    BY WireIs
<1>4. CarryFrame(w, c) = IF c.fate.lost THEN w ELSE [w EXCEPT !.behind = in, !.frames = frames]
    BY DEF CarryFrame
<1>5. ASSUME ~c.fate.lost
      PROVE  in \in Nat /\ in >= w.behind /\ f \in OnWire /\ frames \in Seq(OnWire)
  <2>1. c.fate.delay \in Nat
      BY <1>1, <1>2, <1>5
  <2>2. in \in Nat /\ in >= w.behind
      BY <2>1, Arrives
  <2>3. Flipped(FrameBits(c.seq), c.fate.flip) \in Seq({0, 1}) /\ c.seq \in Nat
      BY <1>0, SentFrames, FlippedBits
  <2> HIDE DEF in
  <2>4. f \in OnWire
      BY <2>2, <2>3 DEF OnWire
  <2> HIDE DEF f
  <2> QED BY <1>3, <2>2, <2>4
<1>6. [w EXCEPT !.behind = in, !.frames = frames] = Wire(w.sent, in, w.heap, frames)
  <2> HIDE DEF in, frames
  <2> DEFINE w1 == Wire(w.sent, in, w.heap, w.frames)
  <2>1. [w EXCEPT !.behind = in] = w1 /\ [w1 EXCEPT !.frames = frames] = Wire(w.sent, in, w.heap, frames)
      BY <1>3 DEF Wire
  <2> HIDE DEF w1
  <2>2. [w EXCEPT !.behind = in, !.frames = frames] = [[w EXCEPT !.behind = in] EXCEPT !.frames = frames]
      OBVIOUS
  <2> QED BY <2>1, <2>2
<1> HIDE DEF in
<1>7. CASE c.fate.lost
    BY <1>4, <1>7
<1>8. CASE ~c.fate.lost
  <2>1. CarryFrame(w, c) = Wire(w.sent, in, w.heap, frames)
      BY <1>4, <1>6, <1>8
  <2>2. CarryFrame(w, c) \in Cable
      BY <1>3, <1>5, <1>8, <2>1, WireType
  <2> QED BY <1>5, <1>8, <2>1, <2>2
<1> QED BY <1>7, <1>8

LEMMA FramesSent ==
    ASSUME NEW w \in Cable, NEW s, Len(s) \in Nat, \A i \in 1 .. Len(s) : s[i] \in Sent
    PROVE  Over(CarryFrame, w, s) \in Cable
<1>1. PICK g : Folded(g, "carried", w, s) /\ Over(CarryFrame, w, s) = g[Len(s)]
    BY FoldCarried
<1> DEFINE S == {i \in 0 .. Len(s) : g[i] \in Cable}
<1>2. 0 \in S
    BY <1>1 DEF Folded
<1>3. ASSUME NEW i \in 1 .. Len(s), i - 1 \in S PROVE i \in S
  <2>1. g[i] = CarryFrame(g[i - 1], s[i])
      BY <1>1, StepKinds DEF Folded
  <2>2. g[i - 1] \in Cable /\ s[i] \in Sent
      BY <1>3
  <2>3. g[i] \in Cable
      BY <2>1, <2>2, FrameSent
  <2> QED BY <2>3
<1>4. 0 .. Len(s) \subseteq S
  <2> HIDE DEF S
  <2> QED BY <1>2, <1>3, Induct
<1> QED BY <1>1, <1>4

\* The two ends of a pulse.
PulseOn(t) == [in |-> t, kind |-> "on", value |-> 0]
PulseOff(t) == [in |-> t + GlitchWidth, kind |-> "off", value |-> 0]
WithPulse(h, t) == Put(Put(h, PulseOn(t)), PulseOff(t))

LEMMA PulseEdges ==
    ASSUME NEW t \in Int
    PROVE  PulseOn(t) \in Edge /\ PulseOff(t) \in Edge
<1>1. t + GlitchWidth \in Int
    BY SimSizes
<1> QED BY <1>1 DEF PulseOn, PulseOff, Edge

LEMMA PulseType ==
    ASSUME NEW h \in Seq(Edge), NEW t \in Int
    PROVE  Put(h, PulseOn(t)) \in Seq(Edge) /\ WithPulse(h, t) \in Seq(Edge)
<1>1. Put(h, PulseOn(t)) \in Seq(Edge)
    BY PulseEdges, PutLaws DEF Inserted
<1> QED BY <1>1, PulseEdges, PutLaws DEF Inserted, WithPulse

\* The heap with the pulses of the first ticks, of one more, and so on.
Pulsed(g, heap, times) ==
    /\ g \in [0 .. sincePoll -> Seq(Edge)] /\ g[0] = heap
    /\ \A n \in 1 .. sincePoll :
          g[n] = IF n - sincePoll \in times THEN WithPulse(g[n - 1], n - sincePoll) ELSE g[n - 1]

LEMMA Pulses ==
    ASSUME NEW heap \in Seq(Edge), NEW times, sincePoll \in Nat
    PROVE  \E g : Pulsed(g, heap, times) /\ Glitched(heap, times) = g[sincePoll]
<1> DEFINE Is(g) == g = [n \in 0 .. sincePoll |->
                            IF n = 0 THEN heap
                            ELSE IF n - sincePoll \in times THEN WithPulse(g[n - 1], n - sincePoll)
                            ELSE g[n - 1]]
           C == CHOOSE g : Is(g)
           One(n, h) == IF n - sincePoll \in times THEN WithPulse(h, n - sincePoll) ELSE h
           step == [n \in 1 .. sincePoll |-> [h \in Seq(Edge) |-> One(n, h)]]
<1>1. ASSUME NEW n \in 1 .. sincePoll, NEW h \in Seq(Edge) PROVE One(n, h) \in Seq(Edge)
  <2>1. n - sincePoll \in Int
      OBVIOUS
  <2> QED BY <2>1, PulseType
<1>2. step \in Steps(sincePoll, Seq(Edge))
    BY <1>1 DEF Steps
<1>3. PICK f : Unfolded(f, sincePoll, Seq(Edge), heap, step)
  <2> HIDE DEF step
  <2> QED BY <1>2, Unfold
<1>4. /\ f \in [0 .. sincePoll -> Seq(Edge)] /\ f[0] = heap
      /\ \A n \in 1 .. sincePoll : f[n] = One(n, f[n - 1])
  <2>1. /\ f \in [0 .. sincePoll -> Seq(Edge)] /\ f[0] = heap
        /\ \A n \in 1 .. sincePoll : f[n] = step[n][f[n - 1]]
    <3> HIDE DEF step
    <3> QED BY <1>3 DEF Unfolded
  <2>2. ASSUME NEW n \in 1 .. sincePoll PROVE f[n] = One(n, f[n - 1])
    <3>1. f[n - 1] \in Seq(Edge)
        BY <2>1
    <3> HIDE DEF One
    <3> QED BY <2>1, <3>1
  <2> QED BY <2>1, <2>2
<1>5. Is(f)
  <2>1. \A n \in 0 .. sincePoll : f[n] = IF n = 0 THEN heap ELSE One(n, f[n - 1])
    <3> HIDE DEF One
    <3> QED BY <1>4
  <2> QED BY <1>4, <2>1
<1>6. Is(C)
  <2> HIDE DEF Is
  <2> QED BY <1>5
<1>7. Glitched(heap, times) = C[sincePoll]
    BY DEF Glitched, WithPulse, PulseOn, PulseOff
<1> HIDE DEF C
<1>8. C[0] = heap /\ \A n \in 1 .. sincePoll : C[n] = One(n, C[n - 1])
    BY <1>6
<1>9. DOMAIN C = 0 .. sincePoll /\ C = [n \in 0 .. sincePoll |-> C[n]]
    BY <1>6
<1>10. \A n \in 0 .. sincePoll : C[n] \in Seq(Edge)
  <2> DEFINE S == {n \in 0 .. sincePoll : C[n] \in Seq(Edge)}
  <2>1. 0 \in S
      BY <1>8
  <2>2. ASSUME NEW n \in 1 .. sincePoll, n - 1 \in S PROVE n \in S
    <3> HIDE DEF One
    <3> QED BY <1>1, <1>8, <2>2
  <2>3. 0 .. sincePoll \subseteq S
    <3> HIDE DEF S
    <3> QED BY <2>1, <2>2, Induct
  <2> QED BY <2>3
<1>11. Pulsed(C, heap, times)
    BY <1>8, <1>9, <1>10 DEF Pulsed
<1> QED BY <1>7, <1>11

LEMMA GlitchedType ==
    ASSUME NEW heap \in Seq(Edge), NEW times, sincePoll \in Nat
    PROVE  Glitched(heap, times) \in Seq(Edge)
BY SMTT(30), Pulses DEF Pulsed

LEMMA NearerFrames ==
    ASSUME NEW q \in Seq(OnWire)
    PROVE  /\ Nearer(q) \in Seq(OnWire) /\ Len(Nearer(q)) = Len(q)
           /\ \A i \in 1 .. Len(q) : Nearer(q)[i].seq = q[i].seq /\ Nearer(q)[i].bits = q[i].bits
<1>1. DOMAIN q = 1 .. Len(q) /\ Len(q) \in Nat /\ \A i \in 1 .. Len(q) : q[i] \in OnWire
    OBVIOUS
<1>2. ASSUME NEW f \in OnWire
      PROVE  /\ [f EXCEPT !.in = @ - 1] \in OnWire
             /\ [f EXCEPT !.in = @ - 1].seq = f.seq
             /\ [f EXCEPT !.in = @ - 1].bits = f.bits
  <2>1. f.in \in Int /\ f.seq \in Nat /\ f.bits \in Seq({0, 1})
        /\ f = [in |-> f.in, seq |-> f.seq, bits |-> f.bits]
      BY DEF OnWire
  <2> DEFINE n == f.in - 1
             b == f.bits
             B == Seq({0, 1})
  <2>2. n \in Int /\ b \in B
      BY <2>1
  <2> HIDE DEF n, b, B
  <2>3. [f EXCEPT !.in = n] = [in |-> n, seq |-> f.seq, bits |-> b]
      BY <2>1 DEF b
  <2>4. [in |-> n, seq |-> f.seq, bits |-> b] \in [in : Int, seq : Nat, bits : B]
      BY <2>1, <2>2
  <2>5. [f EXCEPT !.in = @ - 1] = [in |-> n, seq |-> f.seq, bits |-> b]
      BY <2>3 DEF n
  <2> QED BY <2>4, <2>5 DEF OnWire, b, B
<1>3. Nearer(q) = [i \in 1 .. Len(q) |-> [q[i] EXCEPT !.in = @ - 1]]
    BY <1>1 DEF Nearer
<1>4. Nearer(q) \in [1 .. Len(q) -> OnWire]
    BY <1>1, <1>2, <1>3
<1>5. Nearer(q) \in Seq(OnWire) /\ Len(Nearer(q)) = Len(q)
    BY <1>1, <1>4, SeqDef
<1> QED BY <1>1, <1>2, <1>3, <1>5

LEMMA NearerEdges ==
    ASSUME NEW q \in Seq(Edge)
    PROVE  /\ Nearer(q) \in Seq(Edge) /\ Len(Nearer(q)) = Len(q)
           /\ \A i \in 1 .. Len(q) : /\ Nearer(q)[i].in = q[i].in - 1
                                     /\ Nearer(q)[i].kind = q[i].kind
                                     /\ Nearer(q)[i].value = q[i].value
<1>1. DOMAIN q = 1 .. Len(q) /\ Len(q) \in Nat /\ \A i \in 1 .. Len(q) : q[i] \in Edge
    OBVIOUS
<1>2. \A e \in Edge : /\ [e EXCEPT !.in = @ - 1] \in Edge
                      /\ [e EXCEPT !.in = @ - 1].in = e.in - 1
                      /\ [e EXCEPT !.in = @ - 1].kind = e.kind
                      /\ [e EXCEPT !.in = @ - 1].value = e.value
    BY DEF Edge
<1>3. Nearer(q) = [i \in 1 .. Len(q) |-> [q[i] EXCEPT !.in = @ - 1]]
    BY <1>1 DEF Nearer
<1>4. Nearer(q) \in [1 .. Len(q) -> Edge]
    BY <1>1, <1>2, <1>3
<1>5. Nearer(q) \in Seq(Edge) /\ Len(Nearer(q)) = Len(q)
    BY <1>1, <1>4, SeqDef
<1> QED BY <1>1, <1>2, <1>3, <1>5

\* What is on the wire, and how far the sender has come.
Wired ==
    /\ wire \in Cable /\ sincePoll \in Nat
    /\ ops \in 0 .. MaxOps /\ tx_seq \in Nat /\ tx_seq <= ops * FramesPerBurst

LEMMA WiredInit == SimInit => Wired
<1> SUFFICES ASSUME SimInit PROVE Wired
    OBVIOUS
<1>1. PICK level \in {0, 1} : wire = [sent |-> level, behind |-> 0, heap |-> <<>>, frames |-> <<>>]
    BY DEF SimInit
<1>2. <<>> \in Seq(Edge) /\ <<>> \in Seq(OnWire)
    OBVIOUS
<1>3. wire = Wire(level, 0, <<>>, <<>>)
    BY <1>1 DEF Wire
<1>4. wire \in Cable
    BY <1>2, <1>3, WireType
<1>5. 0 * FramesPerBurst = 0 /\ 0 \in 0 .. MaxOps
    BY SimSizes
<1>6. sincePoll = 0 /\ ops = 0 /\ tx_seq = 0
    BY DEF SimInit
<1> QED BY <1>4, <1>5, <1>6 DEF Wired

\* One more operation, or several, pay for the frames of a burst.
LEMMA OpsPay ==
    ASSUME Wired, NEW n \in Nat, Operate(n)
    PROVE  /\ ops' \in 0 .. MaxOps /\ ops * FramesPerBurst <= ops' * FramesPerBurst
           /\ n >= 1 => tx_seq + FramesPerBurst <= ops' * FramesPerBurst
           /\ ops' * FramesPerBurst <= MaxOps * FramesPerBurst
           /\ {ops * FramesPerBurst, ops' * FramesPerBurst, MaxOps * FramesPerBurst} \subseteq Nat
<1> DEFINE F == FramesPerBurst
           o == ops
           p == ops'
           M == MaxOps
<1>1. F \in Nat /\ M \in Nat /\ o \in 0 .. M /\ p = o + n /\ p <= M /\ tx_seq \in Nat /\ tx_seq <= o * F
    BY SimSizes DEF Wired, Operate
<1> HIDE DEF F, o, p, M
<1>2. p \in 0 .. M /\ o <= p
    BY <1>1
<1>3. \A a, b \in Nat : a <= b => a * F <= b * F
    BY <1>1, Multiples
<1>4. o * F <= p * F /\ p * F <= M * F
    BY <1>1, <1>2, <1>3
<1>5. o * F \in Nat /\ p * F \in Nat /\ M * F \in Nat
    BY <1>1, <1>2
<1>6. n >= 1 => tx_seq + F <= p * F
  <2>1. (o + 1) * F = o * F + F
      BY <1>1
  <2>2. n >= 1 => (o + 1) * F <= p * F
      BY <1>1, <1>2, <1>3
  <2> QED BY <1>1, <1>5, <2>1, <2>2
<1> QED BY <1>2, <1>4, <1>5, <1>6 DEF F, o, p, M

LEMMA PhasesCount ==
    ASSUME NEW due \in (SUBSET Phases) \ {{}}
    PROVE  Cardinality(due) \in Nat /\ Cardinality(due) >= 1
<1>1. IsFiniteSet(Phases)
  <2>1. IsFiniteSet({"blink"})
      BY FS_Singleton
  <2>2. IsFiniteSet({"blink"} \cup {"burst"})
      BY <2>1, FS_AddElement
  <2>3. IsFiniteSet(({"blink"} \cup {"burst"}) \cup {"handshake"})
      BY <2>2, FS_AddElement
  <2>4. ({"blink"} \cup {"burst"}) \cup {"handshake"} = Phases
      BY DEF Phases
  <2> QED BY <2>3, <2>4
<1>2. IsFiniteSet(due)
    BY <1>1, FS_Subset
<1>3. Cardinality(due) \in Nat
    BY <1>2, FS_CardinalityType
<1>4. Cardinality(due) = 0 => due = {}
    BY <1>2, FS_EmptySet
<1>5. due # {}
    OBVIOUS
<1> DEFINE c == Cardinality(due)
<1>6. c \in Nat /\ c # 0
    BY <1>3, <1>4, <1>5
<1> HIDE DEF c
<1>7. c >= 1
    BY <1>6
<1> QED BY <1>6, <1>7 DEF c

\* The frames of a burst have payloads, and those that follow will.
LEMMA BurstSent ==
    ASSUME Wired, NEW n \in Nat, n >= 1, Operate(n),
           NEW burst \in [1 .. FramesPerBurst -> FrameFates], NEW w \in Cable
    PROVE  LET frames == [i \in 1 .. FramesPerBurst |-> [seq |-> tx_seq + i - 1, fate |-> burst[i]]]
           IN  /\ Len(frames) = FramesPerBurst
               /\ \A i \in 1 .. FramesPerBurst :
                     /\ frames[i] \in Sent /\ frames[i].seq = tx_seq + i - 1
                     /\ frames[i].fate = burst[i]
               /\ Over(CarryFrame, w, frames) \in Cable
<1> DEFINE F == FramesPerBurst
           frames == [i \in 1 .. F |-> [seq |-> tx_seq + i - 1, fate |-> burst[i]]]
           top == MaxOps * F
           mid == ops' * F
<1>1. F \in Nat /\ top \in Nat /\ mid \in Nat /\ tx_seq \in Nat /\ tx_seq + F <= mid /\ mid <= top
    BY SimSizes, OpsPay DEF Wired
<1> HIDE DEF top, mid
<1>2. ASSUME NEW i \in 1 .. F PROVE tx_seq + i - 1 \in 0 .. top
    BY <1>1
<1>3. ASSUME NEW i \in 1 .. F
      PROVE  frames[i] \in Sent /\ frames[i].seq = tx_seq + i - 1 /\ frames[i].fate = burst[i]
  <2>1. frames[i] = [seq |-> tx_seq + i - 1, fate |-> burst[i]]
      OBVIOUS
  <2>2. tx_seq + i - 1 \in 0 .. top /\ burst[i] \in FrameFates
      BY <1>2
  <2> DEFINE k == tx_seq + i - 1
             b == burst[i]
  <2> HIDE DEF k, b, frames
  <2>3. frames[i] = [seq |-> k, fate |-> b] /\ k \in 0 .. top /\ b \in FrameFates
      BY <2>1, <2>2 DEF k, b
  <2>4. frames[i] \in [seq : 0 .. top, fate : FrameFates] /\ frames[i].seq = k /\ frames[i].fate = b
      BY <2>3
  <2> QED BY <2>4 DEF Sent, top, k, b
<1>4. Len(frames) = F
    BY <1>1
<1> HIDE DEF frames
<1>5. Over(CarryFrame, w, frames) \in Cable
  <2>1. Len(frames) \in Nat /\ \A i \in 1 .. Len(frames) : frames[i] \in Sent
      BY <1>1, <1>3, <1>4
  <2> QED BY <2>1, FramesSent
<1> QED BY <1>3, <1>4, <1>5 DEF frames

LEMMA WiredA == Wired /\ StepA => Wired'
<1> SUFFICES ASSUME Wired, StepA PROVE Wired'
    OBVIOUS
<1>0. PICK due \in (SUBSET Phases) \ {{}} :
        \E edge \in Fates("blink" \in due, EdgeFates),
           burst \in [1 .. FramesPerBurst -> Fates("burst" \in due, FrameFates)] :
        LET blinked == IF "blink" \in due THEN SendLevel(wire, 1 - wire.sent, edge) ELSE wire
            frames == [i \in 1 .. FramesPerBurst |-> [seq |-> tx_seq + i - 1, fate |-> burst[i]]]
        IN  /\ Operate(Cardinality(due))
            /\ wire' = IF "burst" \in due THEN Over(CarryFrame, blinked, frames) ELSE blinked
            /\ tx_seq' = IF "burst" \in due THEN tx_seq + FramesPerBurst ELSE tx_seq
            /\ sincePoll' = sincePoll
    BY ZenonT(30) DEF StepA
<1>1. PICK edge \in Fates("blink" \in due, EdgeFates),
           burst \in [1 .. FramesPerBurst -> Fates("burst" \in due, FrameFates)] :
        LET blinked == IF "blink" \in due THEN SendLevel(wire, 1 - wire.sent, edge) ELSE wire
            frames == [i \in 1 .. FramesPerBurst |-> [seq |-> tx_seq + i - 1, fate |-> burst[i]]]
        IN  /\ Operate(Cardinality(due))
            /\ wire' = IF "burst" \in due THEN Over(CarryFrame, blinked, frames) ELSE blinked
            /\ tx_seq' = IF "burst" \in due THEN tx_seq + FramesPerBurst ELSE tx_seq
            /\ sincePoll' = sincePoll
    BY <1>0
<1> DEFINE blinked == IF "blink" \in due THEN SendLevel(wire, 1 - wire.sent, edge) ELSE wire
           frames == [i \in 1 .. FramesPerBurst |-> [seq |-> tx_seq + i - 1, fate |-> burst[i]]]
           n == Cardinality(due)
<1>2. wire \in Cable /\ sincePoll \in Nat /\ tx_seq \in Nat /\ wire.sent \in {0, 1}
    BY WireIs DEF Wired
<1>3. blinked \in Cable
  <2>1. CASE "blink" \in due
    <3>1. edge \in EdgeFates /\ 1 - wire.sent \in {0, 1}
        BY <1>2, <2>1 DEF Fates
    <3>2. SendLevel(wire, 1 - wire.sent, edge) \in Cable
        BY <1>2, <3>1, LevelSent
    <3> QED BY <2>1, <3>2
  <2>2. CASE "blink" \notin due
      BY <1>2, <2>2
  <2> QED BY <2>1, <2>2
<1>4. n \in Nat /\ n >= 1 /\ Operate(n)
    BY <1>1, PhasesCount
<1>5. /\ wire' = IF "burst" \in due THEN Over(CarryFrame, blinked, frames) ELSE blinked
      /\ tx_seq' = IF "burst" \in due THEN tx_seq + FramesPerBurst ELSE tx_seq
      /\ sincePoll' = sincePoll
    BY <1>1
<1> HIDE DEF n, blinked
<1>6. ops' \in 0 .. MaxOps /\ tx_seq + FramesPerBurst <= ops' * FramesPerBurst
      /\ tx_seq <= ops' * FramesPerBurst
  <2>1. tx_seq <= ops * FramesPerBurst /\ ops * FramesPerBurst <= ops' * FramesPerBurst
        /\ ops * FramesPerBurst \in Nat /\ ops' * FramesPerBurst \in Nat /\ tx_seq \in Nat
      BY <1>2, <1>4, OpsPay DEF Wired
  <2> DEFINE a == ops * FramesPerBurst
             b == ops' * FramesPerBurst
  <2> HIDE DEF a, b
  <2>2. tx_seq <= b
      BY <2>1 DEF a, b
  <2>3. tx_seq + FramesPerBurst <= b /\ ops' \in 0 .. MaxOps
      BY <1>4, OpsPay DEF b
  <2> QED BY <2>2, <2>3 DEF b
<1>7. wire' \in Cable
  <2>1. CASE "burst" \in due
    <3>1. burst \in [1 .. FramesPerBurst -> FrameFates]
        BY <2>1 DEF Fates
    <3>2. Over(CarryFrame, blinked, frames) \in Cable
        BY <1>3, <1>4, <3>1, BurstSent
    <3> HIDE DEF frames
    <3> QED BY <1>5, <2>1, <3>2
  <2>2. CASE "burst" \notin due
      BY <1>3, <1>5, <2>2
  <2> QED BY <2>1, <2>2
<1>8. tx_seq' \in Nat /\ tx_seq' <= ops' * FramesPerBurst
  <2>1. CASE "burst" \in due
    <3>1. tx_seq' = tx_seq + FramesPerBurst /\ FramesPerBurst \in Nat
        BY <1>5, <2>1, SimSizes
    <3>2. tx_seq + FramesPerBurst \in Nat
        BY <1>2, <3>1
    <3> QED BY <1>6, <3>1, <3>2
  <2>2. CASE "burst" \notin due
      BY <1>2, <1>5, <1>6, <2>2
  <2> QED BY <2>1, <2>2
<1> QED BY <1>2, <1>5, <1>6, <1>7, <1>8 DEF Wired

LEMMA WiredB == Wired /\ StepB => Wired'
<1> SUFFICES ASSUME Wired, StepB PROVE Wired'
    OBVIOUS
<1>1. PICK times \in SUBSET (1 - sincePoll .. 0) :
        /\ wire' = [wire EXCEPT !.heap = NotDue(Glitched(wire.heap, times)), !.frames = NotDue(@)]
        /\ sincePoll' = 0 /\ ops' = ops /\ tx_seq' = tx_seq
    BY DEF StepB, nodeA
<1> DEFINE heap == NotDue(Glitched(wire.heap, times))
           frames == NotDue(wire.frames)
<1>2. /\ wire = Wire(wire.sent, wire.behind, wire.heap, wire.frames)
      /\ wire.sent \in {0, 1} /\ wire.behind \in Nat
      /\ wire.heap \in Seq(Edge) /\ wire.frames \in Seq(OnWire) /\ sincePoll \in Nat
    BY WireIs DEF Wired
<1>3. heap \in Seq(Edge)
  <2>1. Glitched(wire.heap, times) \in Seq(Edge)
      BY <1>2, GlitchedType
  <2>2. \A i \in 1 .. Len(Glitched(wire.heap, times)) : Glitched(wire.heap, times)[i].in \in Int
    <3>1. \A e \in Edge : e.in \in Int
        BY DEF Edge
    <3> QED BY <2>1, <3>1
  <2> QED BY <2>1, <2>2, DueLaws
<1>4. frames \in Seq(OnWire)
  <2>1. \A i \in 1 .. Len(wire.frames) : wire.frames[i].in \in Int
    <3>1. \A i \in 1 .. Len(wire.frames) : wire.frames[i] \in OnWire
        BY <1>2
    <3>2. \A f \in OnWire : f.in \in Int
        BY DEF OnWire
    <3> QED BY <3>1, <3>2
  <2> QED BY <1>2, <2>1, DueLaws
<1>5. wire' = [wire EXCEPT !.heap = heap, !.frames = frames]
    BY <1>1
<1> HIDE DEF heap, frames
<1>6. wire' = Wire(wire.sent, wire.behind, heap, frames)
  <2> DEFINE w1 == Wire(wire.sent, wire.behind, heap, wire.frames)
             w2 == Wire(wire.sent, wire.behind, heap, frames)
  <2>1. [wire EXCEPT !.heap = heap] = w1 /\ [w1 EXCEPT !.frames = frames] = w2
      BY SMTT(30), <1>2 DEF Wire
  <2> HIDE DEF w1, w2
  <2>2. [wire EXCEPT !.heap = heap, !.frames = frames] = [[wire EXCEPT !.heap = heap] EXCEPT !.frames = frames]
      OBVIOUS
  <2> QED BY <1>5, <2>1, <2>2 DEF w2
<1>7. wire' \in Cable
    BY <1>2, <1>3, <1>4, <1>6, WireType
<1> QED BY <1>1, <1>7 DEF Wired

LEMMA WiredTick == Wired /\ Tick => Wired'
<1> SUFFICES ASSUME Wired, Tick PROVE Wired'
    OBVIOUS
<1>1. /\ wire = Wire(wire.sent, wire.behind, wire.heap, wire.frames)
      /\ wire.sent \in {0, 1} /\ wire.behind \in Nat
      /\ wire.heap \in Seq(Edge) /\ wire.frames \in Seq(OnWire) /\ sincePoll \in Nat
    BY WireIs DEF Wired
<1> DEFINE behind == IF wire.behind > 0 THEN wire.behind - 1 ELSE 0
           heap == Nearer(wire.heap)
           frames == Nearer(wire.frames)
<1>2. wire' = [wire EXCEPT !.behind = behind, !.heap = heap, !.frames = frames]
    BY DEF Tick
<1>3. behind \in Nat /\ heap \in Seq(Edge) /\ frames \in Seq(OnWire)
    BY <1>1, NearerEdges, NearerFrames
<1> HIDE DEF behind, heap, frames
<1>4. wire' = Wire(wire.sent, behind, heap, frames)
  <2> DEFINE w1 == Wire(wire.sent, behind, wire.heap, wire.frames)
             w2 == Wire(wire.sent, behind, heap, wire.frames)
             w3 == Wire(wire.sent, behind, heap, frames)
  <2>1. /\ [wire EXCEPT !.behind = behind] = w1
        /\ [w1 EXCEPT !.heap = heap] = w2 /\ [w2 EXCEPT !.frames = frames] = w3
      BY <1>1 DEF Wire
  <2> HIDE DEF w1, w2, w3
  <2>2. [wire EXCEPT !.behind = behind, !.heap = heap, !.frames = frames] =
          [[[wire EXCEPT !.behind = behind] EXCEPT !.heap = heap] EXCEPT !.frames = frames]
      OBVIOUS
  <2> QED BY <1>2, <2>1, <2>2 DEF w3
<1>5. wire' \in Cable
    BY <1>1, <1>3, <1>4, WireType
<1>6. sincePoll' \in Nat /\ ops' = ops /\ tx_seq' = tx_seq
    BY <1>1 DEF Tick, bounds, nodeA
<1> QED BY <1>5, <1>6 DEF Wired

LEMMA WiredNext == Wired /\ [SimNext]_simVars => Wired'
<1> SUFFICES ASSUME Wired, [SimNext]_simVars PROVE Wired'
    OBVIOUS
<1>1. wire \in Cable /\ sincePoll \in Nat /\ tx_seq \in Nat
    BY DEF Wired
<1>2. CASE SetGpio
  <2>1. PICK level \in {0, 1}, fate \in EdgeFates : wire' = SendLevel(wire, level, fate)
      BY <1>2 DEF SetGpio
  <2>2. wire' \in Cable
      BY <1>1, <2>1, LevelSent
  <2>3. Operate(1) /\ tx_seq' = tx_seq /\ sincePoll' = sincePoll
      BY <1>2 DEF SetGpio, nodeA
  <2>4. ops' \in 0 .. MaxOps /\ tx_seq + FramesPerBurst <= ops' * FramesPerBurst
        /\ ops' * FramesPerBurst \in Nat
      BY <2>3, OpsPay
  <2> DEFINE b == ops' * FramesPerBurst
  <2>6. b \in Nat /\ tx_seq + FramesPerBurst <= b
      BY <2>4
  <2> HIDE DEF b
  <2>5. tx_seq <= b
      BY <1>1, <2>6, SimSizes
  <2> QED BY <1>1, <2>2, <2>3, <2>4, <2>5 DEF Wired, b
<1>3. CASE StepA
    BY <1>3, WiredA
<1>4. CASE StepB
    BY <1>4, WiredB
<1>5. CASE RebootA
  <2>1. PICK fate \in EdgeFates : wire' = SendLevel(wire, 0, fate)
      BY <1>5 DEF RebootA
  <2>2. wire' \in Cable
      BY <1>1, <2>1, LevelSent
  <2>3. tx_seq' = 0 /\ ops' = ops /\ sincePoll' = sincePoll
      BY <1>5 DEF RebootA
  <2>4. 0 <= ops * FramesPerBurst
    <3>1. ops \in Nat /\ FramesPerBurst \in Nat
        BY SimSizes DEF Wired
    <3> QED BY <3>1, Multiples
  <2> QED BY <1>1, <2>2, <2>3, <2>4 DEF Wired
<1>6. CASE RebootB
    BY <1>6 DEF RebootB, Wired, cable, nodeA
<1>7. CASE Tick
    BY <1>7, WiredTick
<1>8. CASE UNCHANGED simVars
    BY <1>8 DEF simVars, Wired, cable, bounds, nodeA
<1> QED BY <1>2, <1>3, <1>4, <1>5, <1>6, <1>7, <1>8 DEF SimNext

\* The twins side by side.
SameTwins ==
    /\ twin = [board |-> twin.board, watch |-> twin.watch]
    /\ SameCount(monitor, twin.board) /\ SameWatch(watch, twin.watch)

LEMMA NewCount == SameCount(NewMonitor, NewTwin)
<1>1. SameCount(Mon(RxReset, 0, 0, 0, 0, 0), Board(RxInit, 0, 0, 0, 0, FALSE))
  <2> DEFINE none == FALSE
  <2>1. (none = TRUE \/ none = FALSE) /\ (none = TRUE <=> 0 > 0)
      OBVIOUS
  <2> HIDE DEF none
  <2>2. SameCount(Mon(RxReset, 0, 0, 0, 0, 0), Board(RxInit, 0, 0, 0, 0, none))
      BY <2>1, ResetIsSame, CountedSame
  <2> QED BY <2>2 DEF none
<1>2. NewMonitor = Mon(RxReset, 0, 0, 0, 0, 0)
    BY DEF NewMonitor, Mon
<1>3. NewTwin = Board(RxInit, 0, 0, 0, 0, FALSE)
    BY DEF NewTwin, Board
<1> QED BY <1>1, <1>2, <1>3

LEMMA NewWatches == SameWatch([link_state |-> "init", consec_timeouts |-> 0], NewWatch)
BY DEF SameWatch, NewWatch, Shakes, Watches

LEMMA TwinRecord ==
    ASSUME NEW b, NEW w, NEW c
    PROVE  LET t == [board |-> b, watch |-> w]
           IN  /\ [t EXCEPT !.board = c] = [board |-> c, watch |-> w]
               /\ [t EXCEPT !.watch = c] = [board |-> b, watch |-> c]
OBVIOUS

\* The frames that arrive are bits.
LEMMA CameType ==
    ASSUME Wired
    PROVE  /\ Len(Due(wire.frames)) \in Nat /\ Due(wire.frames) \in Seq(OnWire)
           /\ \A i \in 1 .. Len(Due(wire.frames)) : Due(wire.frames)[i].bits \in Seq({0, 1})
<1>1. wire.frames \in Seq(OnWire)
    BY WireIs DEF Wired
<1>2. \A f \in OnWire : f.in \in Int
    BY DEF OnWire
<1>3. \A i \in 1 .. Len(wire.frames) : wire.frames[i].in \in Int
    BY <1>1, <1>2
<1>4. Due(wire.frames) \in Seq(OnWire)
    BY <1>1, <1>3, DueLaws
<1> DEFINE d == Due(wire.frames)
<1> HIDE DEF d
<1>5. d \in Seq(OnWire)
    BY <1>4 DEF d
<1>6. Len(d) \in Nat /\ \A i \in 1 .. Len(d) : d[i] \in OnWire
    BY <1>5
<1>7. ASSUME NEW f \in OnWire PROVE f.bits \in Seq({0, 1})
    BY DEF OnWire
<1> QED BY <1>5, <1>6, <1>7 DEF d

LEMMA TwinsInit == SimInit => SameTwins
<1> SUFFICES ASSUME SimInit PROVE SameTwins
    OBVIOUS
<1>1. /\ twin = [board |-> NewTwin, watch |-> NewWatch] /\ monitor = NewMonitor
      /\ watch = [link_state |-> "init", consec_timeouts |-> 0]
    BY DEF SimInit
<1>2. twin.board = NewTwin /\ twin.watch = NewWatch
    BY <1>1
<1> QED BY <1>1, <1>2, NewCount, NewWatches DEF SameTwins

LEMMA TwinsA ==
    ASSUME SameTwins, StepA
    PROVE  SameTwins'
<1>1. \/ watch' = watch /\ twin' = twin
      \/ \E ok \in BOOLEAN : Handshake(ok)
  <2>1. \E due \in (SUBSET Phases) \ {{}} :
          \E legs :
             IF "handshake" \in due THEN Handshake(back /\ legs) ELSE UNCHANGED <<watch, twin>>
      BY DEF StepA
  <2>2. PICK due, legs :
          IF "handshake" \in due THEN Handshake(back /\ legs) ELSE UNCHANGED <<watch, twin>>
      BY <2>1
  <2>3. (back /\ legs) \in BOOLEAN
      BY Zenon
  <2>4. CASE "handshake" \in due
      BY <2>2, <2>3, <2>4
  <2>5. CASE "handshake" \notin due
      BY <2>2, <2>5
  <2> QED BY <2>4, <2>5
<1>2. monitor' = monitor
    BY DEF StepA, nodeB
<1>3. CASE watch' = watch /\ twin' = twin
    BY <1>2, <1>3 DEF SameTwins
<1>4. ASSUME NEW ok \in BOOLEAN, Handshake(ok) PROVE SameTwins'
  <2>1. SameWatch(Shaken(watch, ok), LinkWatch(twin.watch, ok))
      BY SameOnHandshake DEF SameTwins
  <2>2. twin' = [board |-> twin.board, watch |-> LinkWatch(twin.watch, ok)]
    <3>1. twin = [board |-> twin.board, watch |-> twin.watch]
        BY DEF SameTwins
    <3> DEFINE c == LinkWatch(twin.watch, ok)
    <3>2. twin' = [twin EXCEPT !.watch = c]
        BY <1>4 DEF Handshake
    <3> HIDE DEF c
    <3>3. twin' = [board |-> twin.board, watch |-> c]
        BY <3>1, <3>2, TwinRecord
    <3> QED BY <3>3 DEF c
  <2>3. twin'.board = twin.board /\ twin'.watch = LinkWatch(twin.watch, ok)
      BY <2>2
  <2>4. SameWatch(watch', twin'.watch) /\ SameCount(monitor', twin'.board)
      BY <1>2, <1>4, <2>1, <2>3 DEF SameTwins, Handshake
  <2> QED BY <2>2, <2>3, <2>4 DEF SameTwins
<1> QED BY <1>1, <1>3, <1>4

LEMMA TwinsB ==
    ASSUME BodyIsTotal, Wired, SameTwins, StepB
    PROVE  SameTwins'
<1> DEFINE came == Due(wire.frames)
           fed == Over(Heard, [monitor |-> monitor, events |-> <<>>], came)
           c == Over(Clocked, twin.board, came)
<1>1. monitor' = fed.monitor /\ watch' = watch /\ twin' = [twin EXCEPT !.board = c]
    BY DEF StepB, nodeA
<1>2. Len(came) \in Nat /\ \A i \in 1 .. Len(came) : came[i].bits \in Seq({0, 1})
    BY CameType
<1> HIDE DEF came
<1>3. SameCount(monitor, twin.board)
    BY DEF SameTwins
<1>4. PICK m1, ev1 : /\ Over(Heard, Ear(monitor, <<>>), came) = Ear(m1, ev1)
                     /\ SameCount(m1, c)
  <2> DEFINE t == twin.board
             m == monitor
             ev == <<>>
  <2>1. SameCount(m, t) /\ BodyIsTotal
      BY <1>3
  <2>3. Len(came) \in Nat
      BY <1>2
  <2>4. \A i \in 1 .. Len(came) : came[i].bits \in Seq({0, 1})
      BY <1>2
  <2> HIDE DEF t, m, ev
  <2>2. \E m1, ev1 : /\ Over(Heard, Ear(m, ev), came) = Ear(m1, ev1)
                     /\ SameCount(m1, Over(Clocked, t, came))
      BY <2>1, <2>3, <2>4, SameOnFrames
  <2> QED BY <2>2 DEF t, m, ev
<1>5. fed = Ear(m1, ev1)
    BY <1>4 DEF Ear
<1>6. monitor' = m1
    BY <1>1, <1>5 DEF Ear
<1> HIDE DEF c, fed
<1>7. twin' = [board |-> c, watch |-> twin.watch]
  <2>1. twin = [board |-> twin.board, watch |-> twin.watch]
      BY DEF SameTwins
  <2> QED BY <1>1, <2>1, TwinRecord
<1>8. twin'.board = c /\ twin'.watch = twin.watch
    BY <1>7
<1>9. SameCount(monitor', twin'.board) /\ SameWatch(watch', twin'.watch)
    BY <1>1, <1>4, <1>6, <1>8 DEF SameTwins
<1> QED BY <1>7, <1>8, <1>9 DEF SameTwins

LEMMA TwinsNext ==
    ASSUME BodyIsTotal, Wired, SameTwins, [SimNext]_simVars
    PROVE  SameTwins'
<1>1. CASE SetGpio
    BY <1>1 DEF SetGpio, nodeA, nodeB, SameTwins
<1>2. CASE StepA
    BY <1>2, TwinsA
<1>3. CASE StepB
    BY <1>3, TwinsB
<1>4. CASE RebootA
  <2> DEFINE w == [link_state |-> "init", consec_timeouts |-> 0]
  <2>1. watch' = w /\ twin' = [twin EXCEPT !.watch = NewWatch] /\ monitor' = monitor
      BY <1>4 DEF RebootA, nodeB
  <2>2. SameWatch(w, NewWatch)
      BY NewWatches
  <2> HIDE DEF w
  <2>3. twin' = [board |-> twin.board, watch |-> NewWatch]
    <3>1. twin = [board |-> twin.board, watch |-> twin.watch]
        BY DEF SameTwins
    <3> QED BY <2>1, <3>1, TwinRecord
  <2>4. twin'.board = twin.board /\ twin'.watch = NewWatch
      BY <2>3
  <2>5. SameCount(monitor', twin'.board) /\ SameWatch(watch', twin'.watch)
      BY <2>1, <2>2, <2>4 DEF SameTwins
  <2> QED BY <2>3, <2>4, <2>5 DEF SameTwins
<1>5. CASE RebootB
  <2>1. monitor' = NewMonitor /\ twin' = [twin EXCEPT !.board = NewTwin] /\ watch' = watch
      BY <1>5 DEF RebootB, nodeA
  <2>2. twin' = [board |-> NewTwin, watch |-> twin.watch]
    <3>1. twin = [board |-> twin.board, watch |-> twin.watch]
        BY DEF SameTwins
    <3> QED BY <2>1, <3>1, TwinRecord
  <2>3. twin'.board = NewTwin /\ twin'.watch = twin.watch
      BY <2>2
  <2>4. SameCount(monitor', twin'.board) /\ SameWatch(watch', twin'.watch)
      BY <2>1, <2>3, NewCount DEF SameTwins
  <2> QED BY <2>2, <2>3, <2>4 DEF SameTwins
<1>6. CASE Tick
    BY <1>6 DEF Tick, nodeA, nodeB, SameTwins
<1>7. CASE UNCHANGED simVars
    BY <1>7 DEF simVars, nodeA, nodeB, SameTwins
<1> QED BY <1>1, <1>2, <1>3, <1>4, <1>5, <1>6, <1>7 DEF SimNext

LEMMA TwinsAlike == SameTwins => TwinsAgree
<1> SUFFICES ASSUME SameTwins PROVE TwinsAgree
    OBVIOUS
<1> DEFINE m == monitor
           t == twin.board
           w == watch
           v == twin.watch
<1>1. SameCount(m, t) /\ SameWatch(w, v)
    BY DEF SameTwins
<1> HIDE DEF m, t, w, v
<1>2. m.rx.state = t.rx.state
    BY <1>1 DEF SameCount, SameRx
<1>3. /\ m.expected = t.expect /\ m.ok = t.ok /\ m.crc_err = t.crc_err /\ m.len_err = t.len_err
  <2>1. t = Board(t.rx, m.expected, m.ok, m.crc_err, m.len_err, t.bit_errors)
      BY <1>1 DEF SameCount
  <2> DEFINE a == t.rx
             b == t.bit_errors
  <2> HIDE DEF a, b
  <2>2. t = Board(a, m.expected, m.ok, m.crc_err, m.len_err, b)
      BY <2>1 DEF a, b
  <2> QED BY <2>2 DEF Board
<1>4. (m.bit_errors > 0) = t.bit_errors
  <2>1. (t.bit_errors = TRUE \/ t.bit_errors = FALSE) /\ (t.bit_errors = TRUE <=> m.bit_errors > 0)
      BY <1>1 DEF SameCount
  <2> DEFINE b == t.bit_errors
             c == m.bit_errors > 0
  <2>2. (b = TRUE \/ b = FALSE) /\ (b = TRUE <=> c) /\ (c = TRUE \/ c = FALSE)
      BY <2>1
  <2> HIDE DEF b, c
  <2>3. c = b
      BY <2>2
  <2> QED BY <2>3 DEF b, c
<1>5. /\ w.consec_timeouts = v.bad
      /\ w.link_state = IF ~v.known THEN "init" ELSE IF v.up THEN "up" ELSE "lost"
    BY <1>1 DEF SameWatch
<1> QED BY <1>2, <1>3, <1>4, <1>5 DEF TwinsAgree, m, t, w, v

\* The simulated node and the board of the firmware, given the same bits and the same
\* answers, count, expect and believe the same at every moment.
THEOREM TwinsDoNotPart == ASSUME BodyIsTotal PROVE SimSpec => []TwinsAgree
<1>1. SimInit => Wired /\ SameTwins
    BY WiredInit, TwinsInit
<1>2. ASSUME Wired, SameTwins, [SimNext]_simVars PROVE Wired' /\ SameTwins'
    BY <1>2, WiredNext, TwinsNext
<1>3. Wired /\ SameTwins /\ [SimNext]_simVars => Wired' /\ SameTwins'
    BY <1>2
<1>4. SameTwins => TwinsAgree
    BY TwinsAlike
<1> QED BY <1>1, <1>3, <1>4, PTL DEF SimSpec

-----------------------------------------------------------------------------
(* The rate limiters.                                                      *)

LEMMA Modulo ==
    ASSUME NEW R \in Nat, R > 0, NEW x \in Int
    PROVE  /\ 0 <= x /\ x < R => x % R = x
           /\ -R <= x /\ x < 0 => x % R = x + R
           /\ x = R => x % R = 0
<1>1. \A q \in Int, y \in 0 .. R - 1 : (R * q + y) % R = y
    OBVIOUS
<1>2. ASSUME 0 <= x, x < R PROVE x % R = x
  <2>1. (R * 0 + x) % R = x
      BY <1>1, <1>2
  <2> QED BY <2>1
<1>3. ASSUME -R <= x, x < 0 PROVE x % R = x + R
  <2>1. (R * (-1) + (x + R)) % R = x + R
      BY <1>1, <1>3
  <2> QED BY <2>1
<1>4. ASSUME x = R PROVE x % R = 0
  <2>1. (R * 1 + 0) % R = 0
      BY <1>1
  <2> QED BY <1>4, <2>1
<1> QED BY <1>2, <1>3, <1>4

LEMMA SinceIs ==
    ASSUME NEW t \in 0 .. Wrap - 1, NEW then \in 0 .. Wrap - 1
    PROVE  (t - then) % Wrap = IF t >= then THEN t - then ELSE (t - then) + Wrap
<1> DEFINE x == t - then
<1>1. x \in Int /\ Wrap \in Nat /\ Wrap > 0 /\ x < Wrap /\ -Wrap <= x /\ (t >= then <=> 0 <= x)
    BY SimSizes
<1> HIDE DEF x
<1>2. x % Wrap = IF 0 <= x THEN x ELSE x + Wrap
    BY <1>1, Modulo
<1> QED BY <1>1, <1>2 DEF x

\* A window grows with the clock, until it is as long as the clock can tell.
LEMMA SinceTick ==
    ASSUME NEW t \in 0 .. Wrap - 1, NEW then \in 0 .. Wrap - 1
    PROVE  /\ (t + 1) % Wrap \in 0 .. Wrap - 1 /\ (t - then) % Wrap \in 0 .. Wrap - 1
           /\ ((t - then) % Wrap) + 1 < Wrap =>
                 (((t + 1) % Wrap) - then) % Wrap = ((t - then) % Wrap) + 1
           /\ (t - t) % Wrap = 0
<1>1. /\ t \in Nat /\ then \in Nat /\ t < Wrap /\ then < Wrap /\ Wrap \in Nat /\ Wrap > 0
    BY SimSizes
<1> DEFINE u == (t + 1) % Wrap
           a == (t - then) % Wrap
           b == (u - then) % Wrap
           z == (t - t) % Wrap
<1>2. u = IF t + 1 < Wrap THEN t + 1 ELSE 0
  <2>1. t + 1 \in Int /\ 0 <= t + 1 /\ (t + 1 < Wrap \/ t + 1 = Wrap)
      BY <1>1
  <2> QED BY <1>1, <2>1, Modulo
<1>3. u \in 0 .. Wrap - 1
    BY <1>1, <1>2
<1>4. b = IF u >= then THEN u - then ELSE (u - then) + Wrap
    BY <1>3, SinceIs
<1>5. a = IF t >= then THEN t - then ELSE (t - then) + Wrap
    BY SinceIs
<1>6. z = IF t >= t THEN t - t ELSE (t - t) + Wrap
    BY SinceIs
<1> HIDE DEF u, a, b, z
<1>7. a \in 0 .. Wrap - 1 /\ (a + 1 < Wrap => b = a + 1) /\ z = 0
    BY <1>1, <1>2, <1>4, <1>5, <1>6
<1> QED BY <1>3, <1>7 DEF u, a, b, z

Lim(started, start, count, suppressed) ==
    [started |-> started, start |-> start, count |-> count, suppressed |-> suppressed]

Entry(age, refused, told) == [age |-> age, refused |-> refused, told |-> told]

\* At time t, the books on the limiter l are kept: every refusal was told of or is still
\* to be told of, and the age of the window is what the limiter makes of it.
Booked(t, l, e) ==
    /\ l = Lim(l.started, l.start, l.count, l.suppressed)
    /\ e = Entry(e.age, e.refused, e.told)
    /\ l.start \in 0 .. Wrap - 1 /\ l.suppressed \in Nat
    /\ e.age \in 0 .. Wrap /\ e.refused \in Nat /\ e.told \in Nat
    /\ e.refused = e.told + l.suppressed
    /\ l.started /\ e.age < Wrap => (t - l.start) % Wrap = e.age

\* Within its window, or longer ago than the clock can tell.
Recent(e, key) == e.age < Limits[key].window \/ e.age = Wrap

LEMMA WindowType ==
    ASSUME NEW key \in Keys
    PROVE  Limits[key].window \in 1 .. Wrap - 1
<1>1. \A k \in DOMAIN Limits : Limits[k] \in [window : 1 .. Wrap - 1, max : Nat]
    BY SimAssumption
<1>2. Limits[key] \in [window : 1 .. Wrap - 1, max : Nat]
    BY <1>1 DEF Keys
<1> QED BY <1>2

LEMMA BooksKept ==
    ASSUME NEW key \in Keys, NEW l, NEW e, Booked(now, l, e), now \in 0 .. Wrap - 1
    PROVE  LET m == Limited(l, key)
               f == Entered(e, l, key)
           IN  /\ Booked(now, m, f) /\ f.refused >= e.refused
               /\ f.refused > e.refused => Recent(f, key)
               /\ Recent(e, key) => Recent(f, key)
<1> DEFINE over == Expired(l, key)
           admitted == Allowed(l, key)
           age == IF over THEN 0 ELSE e.age
           start == IF over THEN now ELSE l.start
           held == IF admitted THEN 0 ELSE l.suppressed + 1
           many == Filled(l, key) + (IF admitted THEN 1 ELSE 0)
           refused == e.refused + (IF admitted THEN 0 ELSE 1)
           told == e.told + (IF admitted THEN l.suppressed ELSE 0)
           W == Limits[key].window
<1>1. /\ l.start \in 0 .. Wrap - 1 /\ l.suppressed \in Nat
      /\ e.age \in 0 .. Wrap /\ e.refused \in Nat /\ e.told \in Nat
      /\ e.refused = e.told + l.suppressed
      /\ l.started /\ e.age < Wrap => (now - l.start) % Wrap = e.age
    BY DEF Booked
<1>2. W \in 1 .. Wrap - 1 /\ Wrap \in Nat /\ Wrap >= 1
    BY WindowType, SimSizes
<1>3. ~over => l.started /\ (now - l.start) % Wrap < W
  <2>1. (now - l.start) % Wrap \in 0 .. Wrap - 1
      BY <1>1, SinceTick
  <2> QED BY <1>2, <2>1 DEF Expired, Elapsed
<1>4. Limited(l, key) = Lim(TRUE, start, many, held)
    BY DEF Limited, Lim
<1>5. Entered(e, l, key) = Entry(age, refused, told)
    BY DEF Entered, Entry
<1> HIDE DEF over, admitted, many, W
<1>6. start \in 0 .. Wrap - 1 /\ held \in Nat /\ age \in 0 .. Wrap
      /\ refused \in Nat /\ told \in Nat /\ refused = told + held /\ refused >= e.refused
    BY <1>1, <1>2
<1>7. age < Wrap => (now - start) % Wrap = age
  <2>1. CASE over
      BY <2>1, SinceTick
  <2>2. CASE ~over
      BY <1>1, <1>3, <2>2
  <2> QED BY <2>1, <2>2
<1>8. age < W \/ age = Wrap
    BY <1>1, <1>2, <1>3
<1> HIDE DEF start, held, age, refused, told
<1> DEFINE m == Lim(TRUE, start, many, held)
           f == Entry(age, refused, told)
<1>9. m.started = TRUE /\ m.start = start /\ m.count = many /\ m.suppressed = held
    BY DEF Lim
<1>10. f.age = age /\ f.refused = refused /\ f.told = told
    BY DEF Entry
<1>11. m = Lim(m.started, m.start, m.count, m.suppressed) /\ f = Entry(f.age, f.refused, f.told)
  <2>1. m = Lim(TRUE, m.start, m.count, m.suppressed)
      BY <1>9
  <2>2. Lim(TRUE, m.start, m.count, m.suppressed) = Lim(m.started, m.start, m.count, m.suppressed)
      BY DEF Lim
  <2> QED BY <1>10, <2>1, <2>2
<1> HIDE DEF m, f
<1>12. Booked(now, m, f)
    BY <1>6, <1>7, <1>9, <1>10, <1>11 DEF Booked
<1>13. Recent(f, key)
    BY <1>8, <1>10 DEF Recent, W
<1> QED BY <1>4, <1>5, <1>6, <1>10, <1>12, <1>13 DEF m, f

Acct(lims, books) == [limiters |-> lims, ledger |-> books]

AllBooked(t, lims, books) ==
    /\ DOMAIN lims = Keys /\ lims = [k \in Keys |-> lims[k]]
    /\ DOMAIN books = Keys /\ books = [k \in Keys |-> books[k]]
    /\ \A k \in Keys : Booked(t, lims[k], books[k])

\* From one ledger to a later one: what was refused in between was refused of late.
Later(old, new) ==
    \A k \in Keys : /\ old[k].refused \in Nat /\ new[k].refused \in Nat
                    /\ new[k].refused >= old[k].refused
                    /\ new[k].refused > old[k].refused => Recent(new[k], k)
                    /\ Recent(old[k], k) => Recent(new[k], k)

LEMMA LaterStill ==
    ASSUME NEW a, NEW b, NEW c, Later(a, b), Later(b, c)
    PROVE  Later(a, c)
<1> SUFFICES ASSUME NEW k \in Keys
             PROVE  /\ a[k].refused \in Nat /\ c[k].refused \in Nat
                    /\ c[k].refused >= a[k].refused
                    /\ c[k].refused > a[k].refused => Recent(c[k], k)
                    /\ Recent(a[k], k) => Recent(c[k], k)
    BY DEF Later
<1>1. /\ a[k].refused \in Nat /\ b[k].refused \in Nat /\ c[k].refused \in Nat
      /\ b[k].refused >= a[k].refused /\ c[k].refused >= b[k].refused
      /\ b[k].refused > a[k].refused => Recent(b[k], k)
      /\ c[k].refused > b[k].refused => Recent(c[k], k)
      /\ Recent(a[k], k) => Recent(b[k], k)
      /\ Recent(b[k], k) => Recent(c[k], k)
    BY DEF Later
<1> QED BY <1>1

LEMMA EmittedIs ==
    ASSUME NEW lims, NEW books, NEW key
    PROVE  Emitted(Acct(lims, books), key) =
             Acct([lims EXCEPT ![key] = Limited(lims[key], key)],
                  [books EXCEPT ![key] = Entered(books[key], lims[key], key)])
<1> DEFINE acc == Acct(lims, books)
<1>1. acc.limiters = lims /\ acc.ledger = books
    BY DEF Acct
<1> HIDE DEF acc
<1>2. Emitted(acc, key) = Acct([lims EXCEPT ![key] = Limited(lims[key], key)],
                               [books EXCEPT ![key] = Entered(books[key], lims[key], key)])
    BY <1>1 DEF Emitted, Acct
<1> QED BY <1>2 DEF acc

LEMMA EmittedKept ==
    ASSUME now \in 0 .. Wrap - 1, NEW lims, NEW books, AllBooked(now, lims, books), NEW key \in Keys
    PROVE  \E lims1, books1 :
              /\ Emitted(Acct(lims, books), key) = Acct(lims1, books1)
              /\ AllBooked(now, lims1, books1) /\ Later(books, books1)
<1> DEFINE l2 == Limited(lims[key], key)
           e2 == Entered(books[key], lims[key], key)
           lims1 == [lims EXCEPT ![key] = l2]
           books1 == [books EXCEPT ![key] = e2]
<1>1. Emitted(Acct(lims, books), key) = Acct(lims1, books1)
    BY EmittedIs
<1>2. \A k \in Keys : Booked(now, lims[k], books[k])
    BY DEF AllBooked
<1>3. /\ Booked(now, l2, e2) /\ e2.refused >= books[key].refused
      /\ e2.refused > books[key].refused => Recent(e2, key)
      /\ Recent(books[key], key) => Recent(e2, key)
    BY <1>2, BooksKept
<1> HIDE DEF l2, e2
<1>4. /\ DOMAIN lims1 = Keys /\ DOMAIN books1 = Keys
      /\ lims1[key] = l2 /\ books1[key] = e2
      /\ \A k \in Keys \ {key} : lims1[k] = lims[k] /\ books1[k] = books[k]
      /\ lims1 = [k \in Keys |-> lims1[k]] /\ books1 = [k \in Keys |-> books1[k]]
    BY DEF AllBooked
<1> HIDE DEF lims1, books1
<1>5. AllBooked(now, lims1, books1)
  <2>1. \A k \in Keys : Booked(now, lims1[k], books1[k])
      BY <1>2, <1>3, <1>4
  <2> QED BY <1>4, <2>1 DEF AllBooked
<1>6. Later(books, books1)
  <2> SUFFICES ASSUME NEW k \in Keys
               PROVE  /\ books[k].refused \in Nat /\ books1[k].refused \in Nat
                      /\ books1[k].refused >= books[k].refused
                      /\ books1[k].refused > books[k].refused => Recent(books1[k], k)
                      /\ Recent(books[k], k) => Recent(books1[k], k)
      BY DEF Later
  <2>1. books[k].refused \in Nat /\ books1[k].refused \in Nat
      BY <1>2, <1>5 DEF AllBooked, Booked
  <2>2. CASE k = key
      BY <1>3, <1>4, <2>1, <2>2
  <2>3. CASE k # key
      BY <1>4, <2>1, <2>3
  <2> QED BY <2>2, <2>3
<1> QED BY <1>1, <1>5, <1>6

LEMMA AllKept ==
    ASSUME now \in 0 .. Wrap - 1, NEW lims, NEW books, AllBooked(now, lims, books),
           NEW events \in Seq(Keys)
    PROVE  \E lims1, books1 :
              /\ Over(Emitted, Acct(lims, books), events) = Acct(lims1, books1)
              /\ AllBooked(now, lims1, books1) /\ Later(books, books1)
<1>1. Len(events) \in Nat /\ \A i \in 1 .. Len(events) : events[i] \in Keys
    OBVIOUS
<1>2. PICK g : /\ Folded(g, "emitted", Acct(lims, books), events)
               /\ Over(Emitted, Acct(lims, books), events) = g[Len(events)]
    BY <1>1, FoldEmitted
<1> DEFINE Good(x) == \E lims1, books1 : /\ x = Acct(lims1, books1)
                                         /\ AllBooked(now, lims1, books1) /\ Later(books, books1)
           S == {i \in 0 .. Len(events) : Good(g[i])}
<1>3. 0 \in S
  <2>1. Later(books, books)
      BY DEF Later, AllBooked, Booked
  <2>2. g[0] = Acct(lims, books)
      BY <1>2 DEF Folded
  <2>3. Good(g[0])
      BY <2>1, <2>2
  <2> HIDE DEF Good
  <2> QED BY <1>1, <2>3
<1>4. ASSUME NEW i \in 1 .. Len(events), i - 1 \in S PROVE i \in S
  <2>1. PICK lims1, books1 : /\ g[i - 1] = Acct(lims1, books1)
                             /\ AllBooked(now, lims1, books1) /\ Later(books, books1)
      BY <1>4
  <2>2. g[i] = Emitted(Acct(lims1, books1), events[i])
      BY <1>2, <2>1, StepKinds DEF Folded
  <2>3. events[i] \in Keys
      BY <1>1
  <2>4. PICK lims2, books2 : /\ g[i] = Acct(lims2, books2)
                             /\ AllBooked(now, lims2, books2) /\ Later(books1, books2)
      BY <2>1, <2>2, <2>3, EmittedKept
  <2>5. Later(books, books2)
      BY <2>1, <2>4, LaterStill
  <2>6. Good(g[i])
      BY <2>4, <2>5
  <2> HIDE DEF Good
  <2> QED BY <2>6
<1>5. 0 .. Len(events) \subseteq S
  <2> HIDE DEF S
  <2> QED BY <1>1, <1>3, <1>4, Induct
<1>6. Good(g[Len(events)])
    BY <1>1, <1>5
<1> QED BY <1>2, <1>6

\* Every event has a limiter.
LEMMA EventsKnown ==
    ASSUME NEW m, NEW r
    PROVE  EventsOf(m, r) \in Seq(Keys) /\ <<"dio.edge">> \in Seq(Keys) /\ <<>> \in Seq(Keys)
<1>1. Keys = {"dio.edge", "link.lost.frames", "link.frame_ok", "link.crc_err"}
  <2>1. DOMAIN Limits = {"dio.edge", "link.lost.frames", "link.frame_ok", "link.crc_err"}
      BY SimAssumption
  <2> QED BY <2>1 DEF Keys
<1>2. /\ <<"link.crc_err">> \in Seq(Keys) /\ <<"link.lost.frames">> \in Seq(Keys)
      /\ <<"link.frame_ok">> \in Seq(Keys) /\ <<"dio.edge">> \in Seq(Keys) /\ <<>> \in Seq(Keys)
    BY <1>1
<1> DEFINE lost == IF Resynced(m.expected, r.payload[1]) # m.expected
                   THEN <<"link.lost.frames">> ELSE <<>>
<1>3. lost \in Seq(Keys)
    BY <1>2
<1>4. EventsOf(m, r) = IF r.status # "ok" THEN <<"link.crc_err">> ELSE lost \o <<"link.frame_ok">>
    BY DEF EventsOf
<1> HIDE DEF lost
<1>5. lost \o <<"link.frame_ok">> \in Seq(Keys)
    BY <1>2, <1>3
<1>6. EventsOf(m, r) \in Seq(Keys)
    BY <1>2, <1>4, <1>5
<1> QED BY <1>2, <1>6

LEMMA BitsTold ==
    ASSUME NEW m, NEW ev \in Seq(Keys), NEW s, Len(s) \in Nat
    PROVE  \E m1 : \E ev1 \in Seq(Keys) : Over(Monitored, Ear(m, ev), s) = Ear(m1, ev1)
<1>1. PICK g : /\ Folded(g, "monitored", Ear(m, ev), s)
               /\ Over(Monitored, Ear(m, ev), s) = g[Len(s)]
    BY FoldMonitored
<1> DEFINE Good(x) == \E m1 : \E ev1 \in Seq(Keys) : x = Ear(m1, ev1)
           S == {i \in 0 .. Len(s) : Good(g[i])}
<1>2. 0 \in S
    BY <1>1 DEF Folded
<1>3. ASSUME NEW i \in 1 .. Len(s), i - 1 \in S PROVE i \in S
  <2>1. PICK m1 : \E ev1 \in Seq(Keys) : g[i - 1] = Ear(m1, ev1)
      BY <1>3
  <2>2. PICK ev1 \in Seq(Keys) : g[i - 1] = Ear(m1, ev1)
      BY <2>1
  <2> DEFINE b == s[i]
             m2 == [m1 EXCEPT !.rx = Fed(m1.rx, b)]
             r == FedReport(m1.rx, b)
             m3 == Accounted(m2, r)
             ev2 == EventsOf(m2, r)
             ev3 == ev1 \o ev2
  <2>3. g[i] = Monitored(Ear(m1, ev1), b)
      BY <1>1, <2>2, StepKinds DEF Folded
  <2>4. /\ r.status = "none" => Monitored(Ear(m1, ev1), b) = Ear(m2, ev1)
        /\ r.status # "none" => Monitored(Ear(m1, ev1), b) = Ear(m3, ev3)
      BY ZenonT(30), EarHears
  <2>5. ev2 \in Seq(Keys)
      BY EventsKnown
  <2> HIDE DEF b, m2, r, m3, ev2
  <2>6. ev3 \in Seq(Keys)
      BY <2>5
  <2> HIDE DEF ev3
  <2>7. Good(g[i])
      BY <2>2, <2>3, <2>4, <2>6
  <2> HIDE DEF Good
  <2> QED BY <2>7
<1>4. 0 .. Len(s) \subseteq S
  <2> HIDE DEF S
  <2> QED BY <1>2, <1>3, Induct
<1>5. Good(g[Len(s)])
    BY <1>4
<1> QED BY <1>1, <1>5

LEMMA FramesTold ==
    ASSUME NEW m, NEW ev \in Seq(Keys), NEW came, Len(came) \in Nat,
           \A i \in 1 .. Len(came) : came[i].bits \in Seq({0, 1})
    PROVE  \E m1 : \E ev1 \in Seq(Keys) : Over(Heard, Ear(m, ev), came) = Ear(m1, ev1)
<1>1. PICK g : /\ Folded(g, "heard", Ear(m, ev), came)
               /\ Over(Heard, Ear(m, ev), came) = g[Len(came)]
    BY FoldHeard
<1> DEFINE Good(x) == \E m1 : \E ev1 \in Seq(Keys) : x = Ear(m1, ev1)
           S == {i \in 0 .. Len(came) : Good(g[i])}
<1>2. 0 \in S
    BY <1>1 DEF Folded
<1>3. ASSUME NEW i \in 1 .. Len(came), i - 1 \in S PROVE i \in S
  <2>1. PICK m1 : \E ev1 \in Seq(Keys) : g[i - 1] = Ear(m1, ev1)
      BY <1>3
  <2>2. PICK ev1 \in Seq(Keys) : g[i - 1] = Ear(m1, ev1)
      BY <2>1
  <2>3. g[i] = Heard(Ear(m1, ev1), came[i])
      BY <1>1, <2>2, StepKinds DEF Folded
  <2>4. Burst(came[i]) \in Seq({0, 1})
      BY BurstBits
  <2>5. Len(Burst(came[i])) \in Nat
      BY <2>4
  <2>6. Good(g[i])
      BY <2>3, <2>5, BitsTold DEF Heard
  <2> HIDE DEF Good
  <2> QED BY <2>6
<1>4. 0 .. Len(came) \subseteq S
  <2> HIDE DEF S
  <2> QED BY <1>2, <1>3, Induct
<1>5. Good(g[Len(came)])
    BY <1>4
<1> QED BY <1>1, <1>5

\* The clock, and the books on every limiter.
Ledgered == now \in 0 .. Wrap - 1 /\ AllBooked(now, limiters, ledger)

LEMMA LedgeredInit == SimInit => Ledgered
<1> SUFFICES ASSUME SimInit PROVE Ledgered
    OBVIOUS
<1> DEFINE l == Lim(FALSE, 0, 0, 0)
           e == Entry(0, 0, 0)
<1>1. limiters = [key \in Keys |-> l] /\ ledger = [key \in Keys |-> e] /\ now = 0
    BY DEF SimInit, Lim, Entry
<1>2. Booked(0, l, e)
  <2>1. l.start = 0 /\ l.suppressed = 0 /\ ~l.started
        /\ l = Lim(l.started, l.start, l.count, l.suppressed)
      BY DEF Lim
  <2>2. e.age = 0 /\ e.refused = 0 /\ e.told = 0 /\ e = Entry(e.age, e.refused, e.told)
      BY DEF Entry
  <2> HIDE DEF l, e
  <2> QED BY <2>1, <2>2, SimSizes DEF Booked
<1> HIDE DEF l, e
<1>3. AllBooked(0, limiters, ledger)
    BY <1>1, <1>2 DEF AllBooked
<1> QED BY <1>1, <1>3, SimSizes DEF Ledgered

LEMMA LedgeredB ==
    ASSUME Wired, Ledgered, StepB
    PROVE  Ledgered' /\ Later(ledger, ledger')
<1> DEFINE came == Due(wire.frames)
           fed == Over(Heard, [monitor |-> monitor, events |-> <<>>], came)
           m == monitor
           L == limiters
           E == ledger
<1>1. Len(came) \in Nat /\ \A i \in 1 .. Len(came) : came[i].bits \in Seq({0, 1})
    BY CameType
<1>2. fed.events \in Seq(Keys)
  <2> HIDE DEF came, m
  <2> DEFINE ev == <<>>
  <2>1. ev \in Seq(Keys)
      BY EventsKnown
  <2>4. Len(came) \in Nat
      BY <1>1
  <2>5. \A i \in 1 .. Len(came) : came[i].bits \in Seq({0, 1})
      BY <1>1
  <2> HIDE DEF ev
  <2>2. \E m1 : \E ev1 \in Seq(Keys) : Over(Heard, Ear(m, ev), came) = Ear(m1, ev1)
      BY <2>1, <2>4, <2>5, FramesTold
  <2>3. fed = Over(Heard, Ear(m, ev), came)
      BY DEF Ear, m, ev
  <2> HIDE DEF fed
  <2> QED BY <2>2, <2>3 DEF Ear
<1>3. PICK n :
        LET edge == IF n THEN <<"dio.edge">> ELSE <<>>
            told == Over(Emitted, Acct(limiters, ledger), edge \o fed.events)
        IN  limiters' = told.limiters /\ ledger' = told.ledger /\ now' = now
  <2> HIDE DEF fed
  <2>1. PICK times :
          LET heap == Glitched(wire.heap, times)
              seen == Over(Seen, [sight EXCEPT !.edges = 0], Due(heap))
              count == edges.rx + seen.edges
              events == (IF count # edges.reported THEN <<"dio.edge">> ELSE <<>>) \o fed.events
              told == Over(Emitted, [limiters |-> limiters, ledger |-> ledger], events)
          IN  limiters' = told.limiters /\ ledger' = told.ledger /\ now' = now
      BY DEF StepB, fed
  <2> QED BY <2>1 DEF Acct
<1> DEFINE edge == IF n THEN <<"dio.edge">> ELSE <<>>
           events == edge \o fed.events
<1>4. edge \in Seq(Keys)
    BY EventsKnown
<1> HIDE DEF fed, edge
<1>5. events \in Seq(Keys)
    BY <1>2, <1>4
<1>6. /\ limiters' = Over(Emitted, Acct(L, E), events).limiters
      /\ ledger' = Over(Emitted, Acct(L, E), events).ledger /\ now' = now
    BY <1>3 DEF edge
<1>7. now \in 0 .. Wrap - 1 /\ AllBooked(now, L, E)
    BY DEF Ledgered
<1> HIDE DEF events, L, E
<1>8. PICK lims1, books1 :
        /\ Over(Emitted, Acct(L, E), events) = Acct(lims1, books1)
        /\ AllBooked(now, lims1, books1) /\ Later(E, books1)
    BY <1>5, <1>7, AllKept
<1>9. limiters' = lims1 /\ ledger' = books1
    BY <1>6, <1>8 DEF Acct
<1> QED BY <1>6, <1>7, <1>8, <1>9 DEF Ledgered, E

LEMMA BookedTick ==
    ASSUME NEW t \in 0 .. Wrap - 1, NEW l, NEW e, Booked(t, l, e)
    PROVE  LET f == [e EXCEPT !.age = IF l.started /\ @ < Wrap THEN @ + 1 ELSE @]
           IN  Booked((t + 1) % Wrap, l, f) /\ f.refused = e.refused
<1> DEFINE age == IF l.started /\ e.age < Wrap THEN e.age + 1 ELSE e.age
           f == Entry(age, e.refused, e.told)
<1>1. [e EXCEPT !.age = IF l.started /\ @ < Wrap THEN @ + 1 ELSE @] = f
  <2>1. e = Entry(e.age, e.refused, e.told)
      BY DEF Booked
  <2>2. [e EXCEPT !.age = IF l.started /\ @ < Wrap THEN @ + 1 ELSE @] = [e EXCEPT !.age = age]
      OBVIOUS
  <2> HIDE DEF age
  <2> QED BY <2>1, <2>2 DEF Entry
<1>2. /\ l = Lim(l.started, l.start, l.count, l.suppressed)
      /\ l.start \in 0 .. Wrap - 1 /\ l.suppressed \in Nat
      /\ e.age \in 0 .. Wrap /\ e.refused \in Nat /\ e.told \in Nat
      /\ e.refused = e.told + l.suppressed
      /\ l.started /\ e.age < Wrap => (t - l.start) % Wrap = e.age
    BY DEF Booked
<1>3. /\ ((t - l.start) % Wrap) + 1 < Wrap =>
            (((t + 1) % Wrap) - l.start) % Wrap = ((t - l.start) % Wrap) + 1
      /\ Wrap \in Nat /\ Wrap >= 1
    BY <1>2, SinceTick, SimSizes
<1>4. age \in 0 .. Wrap
    BY <1>2, <1>3
<1>5. l.started /\ age < Wrap => (((t + 1) % Wrap) - l.start) % Wrap = age
    BY <1>2, <1>3
<1> HIDE DEF age
<1>6. f.age = age /\ f.refused = e.refused /\ f.told = e.told
    BY DEF Entry
<1>7. f = Entry(f.age, f.refused, f.told)
    BY <1>6
<1> HIDE DEF f
<1>8. Booked((t + 1) % Wrap, l, f)
    BY <1>2, <1>4, <1>5, <1>6, <1>7 DEF Booked
<1> QED BY <1>1, <1>6, <1>8

LEMMA LedgeredTick ==
    ASSUME Ledgered, Tick
    PROVE  Ledgered' /\ \A key \in Keys : ledger'[key].refused = ledger[key].refused
<1> DEFINE f(key) == [ledger[key] EXCEPT !.age =
                        IF limiters[key].started /\ @ < Wrap THEN @ + 1 ELSE @]
<1>1. now' = (now + 1) % Wrap /\ ledger' = [key \in Keys |-> f(key)] /\ limiters' = limiters
    BY DEF Tick, nodeB
<1>2. now \in 0 .. Wrap - 1 /\ AllBooked(now, limiters, ledger)
    BY DEF Ledgered
<1>3. ASSUME NEW key \in Keys
      PROVE  Booked((now + 1) % Wrap, limiters[key], f(key)) /\ f(key).refused = ledger[key].refused
  <2>1. Booked(now, limiters[key], ledger[key])
      BY <1>2 DEF AllBooked
  <2> QED BY <1>2, <2>1, BookedTick
<1> HIDE DEF f
<1>4. (now + 1) % Wrap \in 0 .. Wrap - 1
    BY <1>2, SinceTick
<1>5. AllBooked(now', limiters', ledger')
    BY <1>1, <1>2, <1>3 DEF AllBooked
<1>6. \A key \in Keys : ledger'[key].refused = ledger[key].refused
    BY <1>1, <1>3
<1> QED BY <1>1, <1>4, <1>5, <1>6 DEF Ledgered

LEMMA LedgeredNext ==
    ASSUME Wired, Ledgered, [SimNext]_simVars
    PROVE  /\ Ledgered'
           /\ \A key \in Keys :
                 /\ ledger'[key].refused > ledger[key].refused =>
                       ledger'[key].age < Limits[key].window \/ ledger'[key].age = Wrap
                 /\ ledger'[key].refused = ledger'[key].told + limiters'[key].suppressed
<1>1. Ledgered => \A key \in Keys : /\ ledger[key].refused = ledger[key].told + limiters[key].suppressed
                                    /\ ledger[key].refused \in Nat
    BY DEF Ledgered, AllBooked, Booked
<1>2. Ledgered' => \A key \in Keys :
                      ledger'[key].refused = ledger'[key].told + limiters'[key].suppressed
  <2>1. Ledgered' => AllBooked(now', limiters', ledger')
      BY DEF Ledgered
  <2> QED BY <2>1 DEF AllBooked, Booked
<1>3. CASE StepB
  <2>1. Ledgered' /\ Later(ledger, ledger')
      BY <1>3, LedgeredB
  <2> QED BY <1>2, <2>1 DEF Later, Recent
<1>4. CASE Tick
  <2>1. Ledgered' /\ \A key \in Keys : ledger'[key].refused = ledger[key].refused
      BY <1>4, LedgeredTick
  <2>2. \A key \in Keys : ~(ledger'[key].refused > ledger[key].refused)
      BY <1>1, <2>1
  <2> QED BY <1>2, <2>1, <2>2
<1>5. CASE now' = now /\ limiters' = limiters /\ ledger' = ledger
  <2>1. Ledgered'
      BY <1>5 DEF Ledgered
  <2>2. \A key \in Keys : ~(ledger'[key].refused > ledger[key].refused)
      BY <1>1, <1>5
  <2> QED BY <1>2, <2>1, <2>2
<1>6. SetGpio \/ StepA \/ RebootA \/ RebootB \/ UNCHANGED simVars =>
        now' = now /\ limiters' = limiters /\ ledger' = ledger
    BY DEF SetGpio, StepA, RebootA, RebootB, simVars, nodeB
<1> QED BY <1>3, <1>4, <1>5, <1>6 DEF SimNext

\* No event is held back but within a window that is full, whatever the clock reads, and
\* every one held back is told of with the next that gets through.
THEOREM HushedIsNotLost == SimSpec => HushedIsTold
<1>1. SimInit => Wired /\ Ledgered
    BY WiredInit, LedgeredInit
<1>2. Wired /\ Ledgered /\ [SimNext]_simVars => Wired' /\ Ledgered'
    BY WiredNext, LedgeredNext
<1>3. Wired /\ Ledgered /\ [SimNext]_simVars =>
        [\A key \in Keys :
            /\ ledger'[key].refused > ledger[key].refused =>
                  ledger'[key].age < Limits[key].window \/ ledger'[key].age = Wrap
            /\ ledger'[key].refused = ledger'[key].told + limiters'[key].suppressed]_simVars
    BY LedgeredNext
<1> QED BY <1>1, <1>2, <1>3, PTL DEF SimSpec, HushedIsTold

-----------------------------------------------------------------------------
(* Frames that arrive as they were sent.                                   *)

\* In a gap the receiver hunts, and finds nothing.
LEMMA IdleBit == PushBit(RxInit, 0) = RxInit /\ Pushed(RxInit, 0) = None
<1>1. Zero \in Word /\ WordBits \in Nat /\ 0 \in 0 .. WordBits - 1 /\ Zero[1] = 0
  <2>1. Zero \in Word
      BY Constants
  <2> QED BY <2>1, WordSize DEF Zero
<1>2. /\ Append(Tail(Partial(Zero, 0)), Zero[0 + 1]) = Partial(Zero, 0 + 1)
      /\ Partial(Zero, 0) = Zero
    BY <1>1, ShiftRegister
<1>3. Partial(Zero, 1) = Zero
  <2>1. \A i \in 1 .. WordBits : ~(i <= WordBits - 1) => i - (WordBits - 1) \in 1 .. WordBits
      BY <1>1
  <2>2. \A j \in 1 .. WordBits : Zero[j] = 0
      BY DEF Zero
  <2>3. \A i \in 1 .. WordBits :
            (IF i <= WordBits - 1 THEN 0 ELSE Zero[i - (WordBits - 1)]) = 0
      BY <2>1, <2>2
  <2>4. Partial(Zero, 1) = [i \in 1 .. WordBits |-> 0]
    <3> DEFINE z == Zero
    <3> HIDE DEF z
    <3>1. \A i \in 1 .. WordBits : (IF i <= WordBits - 1 THEN 0 ELSE z[i - (WordBits - 1)]) = 0
        BY <2>3 DEF z
    <3>2. Partial(z, 1) = [i \in 1 .. WordBits |-> 0]
        BY <3>1 DEF Partial
    <3> QED BY <3>2 DEF z
  <2> QED BY <2>4 DEF Zero
<1>4. Append(Tail(Zero), 0) = Zero
    BY <1>1, <1>2, <1>3
<1>5. RxInit = Rx("HUNT", Zero, 0, 0, Zero, <<>>)
    BY DEF RxInit, Rx
<1>6. Zero # Sync
    BY <1>1, Constants
<1>7. /\ PushBit(Rx("HUNT", Zero, 0, 0, Zero, <<>>), 0) =
           IF Append(Tail(Zero), 0) = Sync THEN [RxInit EXCEPT !.state = "LEN"]
           ELSE Rx("HUNT", Append(Tail(Zero), 0), 0, 0, Zero, <<>>)
      /\ Pushed(Rx("HUNT", Zero, 0, 0, Zero, <<>>), 0) = None
    BY PushHunting
<1> QED BY <1>4, <1>5, <1>6, <1>7

\* A board that has found nothing wrong, expects e next and has counted c frames.
Clear(t, rx, e, c) ==
    /\ t = Board(t.rx, t.expect, t.ok, t.crc_err, t.len_err, t.bit_errors)
    /\ t.rx = rx /\ t.expect = e /\ t.ok = c
    /\ t.crc_err = 0 /\ t.len_err = 0 /\ ~t.bit_errors

LEMMA BoardFields ==
    ASSUME NEW rx, NEW e, NEW ok, NEW ce, NEW le, NEW be
    PROVE  LET t == Board(rx, e, ok, ce, le, be)
           IN  /\ t.rx = rx /\ t.expect = e /\ t.ok = ok /\ t.crc_err = ce /\ t.len_err = le
               /\ t.bit_errors = be
BY DEF Board

LEMMA ClearWithin ==
    ASSUME NEW t, NEW rx, NEW e, NEW c, Clear(t, rx, e, c), NEW b, Pushed(rx, b) = None
    PROVE  Clear(Firmware(t, b), PushBit(rx, b), e, c)
<1> DEFINE be == t.bit_errors
           rx1 == PushBit(rx, b)
           u == Board(rx1, e, c, 0, 0, be)
<1>1. t = Board(rx, e, c, 0, 0, be)
    BY DEF Clear
<1>2. Pushed(rx, b).result = "NONE"
    BY DEF None
<1> HIDE DEF be, rx1
<1>3. Firmware(Board(rx, e, c, 0, 0, be), b) = u
    BY <1>2, BoardCounts DEF rx1
<1>4. /\ u.rx = rx1 /\ u.expect = e /\ u.ok = c /\ u.crc_err = 0 /\ u.len_err = 0
      /\ u.bit_errors = be
    BY BoardFields
<1>5. ~be
    BY DEF Clear, be
<1>6. u = Board(u.rx, u.expect, u.ok, u.crc_err, u.len_err, u.bit_errors)
    BY <1>4
<1>7. Firmware(t, b) = u
    BY <1>1, <1>3
<1> HIDE DEF u
<1>8. ~u.bit_errors
    BY <1>4, <1>5
<1>9. Clear(u, rx1, e, c)
    BY <1>4, <1>6, <1>8 DEF Clear
<1> QED BY <1>7, <1>9 DEF rx1

LEMMA ClearFrame ==
    ASSUME NEW t, NEW rx, NEW e, NEW c, Clear(t, rx, e, c), NEW b, NEW k \in Frames,
           Pushed(rx, b) = [result |-> "OK", payload |-> TestPayload(k)],
           ResyncIndex(e, TestPayload(k)[1]) = k
    PROVE  Clear(Firmware(t, b), PushBit(rx, b), k + 1, c + 1)
<1> DEFINE be == t.bit_errors
           rx1 == PushBit(rx, b)
           p == TestPayload(k)
           d == Differs(p, p)
           x == be \/ d
           u == Board(rx1, k + 1, c + 1, 0, 0, x)
<1>1. t = Board(rx, e, c, 0, 0, be)
    BY DEF Clear
<1>2. Pushed(rx, b).result = "OK" /\ Pushed(rx, b).payload = p
    OBVIOUS
<1>3. ~d
  <2>1. p \in Seq(Word)
      BY PayloadType
  <2> HIDE DEF p
  <2>2. \A i \in DOMAIN p : i <= Len(p)
      BY <2>1
  <2> QED BY <2>2 DEF Differs
<1>4. ~x
    BY <1>3 DEF Clear
<1> HIDE DEF be, rx1, d
<1>5. Firmware(Board(rx, e, c, 0, 0, be), b) = Board(rx1, k + 1, c + 1, 0, 0, be \/ d)
    BY <1>2, BoardCounts DEF rx1, d
<1> HIDE DEF x
<1>6. Firmware(t, b) = u
    BY <1>1, <1>5 DEF x
<1>7. /\ u.rx = rx1 /\ u.expect = k + 1 /\ u.ok = c + 1 /\ u.crc_err = 0 /\ u.len_err = 0
      /\ u.bit_errors = x
    BY BoardFields
<1>8. u = Board(u.rx, u.expect, u.ok, u.crc_err, u.len_err, u.bit_errors)
    BY <1>7
<1> HIDE DEF u
<1>9. ~u.bit_errors
    BY <1>4, <1>7
<1>10. Clear(u, rx1, k + 1, c + 1)
    BY <1>7, <1>8, <1>9 DEF Clear
<1> QED BY <1>6, <1>10 DEF rx1

\* A frame and its gap: the frame is counted, and its number known.
LEMMA ClearBurst ==
    ASSUME NEW t, NEW e \in Nat, NEW c, Clear(t, RxInit, e, c),
           NEW f, NEW k \in Frames, f.bits = FrameBits(k), k - e \in 0 .. Values - 1
    PROVE  Clear(Clocked(t, f), RxInit, k + 1, c + 1)
<1> DEFINE n == Len(FrameBits(k))
           s == Burst(f)
<1>1. n \in Nat /\ n > 1 /\ FrameBits(k) \in Seq({0, 1}) /\ GapBits \in Nat
    BY ReachNothing, FrameBit, SimSizes
<1>2. /\ Len(s) = n + GapBits
      /\ \A i \in 1 .. n : s[i] = FrameBits(k)[i]
      /\ \A i \in n + 1 .. n + GapBits : s[i] = 0
  <2> DEFINE a == FrameBits(k)
             z == [i \in 1 .. GapBits |-> 0]
  <2>1. z \in Seq({0, 1}) /\ Len(z) = GapBits /\ \A i \in 1 .. GapBits : z[i] = 0
      BY <1>1
  <2>2. s = a \o z
      BY DEF Burst
  <2>3. a \in Seq({0, 1}) /\ Len(a) = n /\ n \in Nat
      BY <1>1
  <2> HIDE DEF a, z, s, n
  <2>9. Len(a \o z) = Len(a) + Len(z)
      BY <2>1, <2>3
  <2>6. Len(s) = n + GapBits
      BY <2>1, <2>2, <2>3, <2>9
  <2>7. ASSUME NEW i \in 1 .. n PROVE s[i] = a[i]
      BY <1>1, <2>1, <2>2, <2>3
  <2>8. ASSUME NEW i \in n + 1 .. n + GapBits PROVE s[i] = z[i - n]
      BY <1>1, <2>1, <2>2, <2>3
  <2>4. /\ Len(s) = n + GapBits /\ \A i \in 1 .. n : s[i] = a[i]
        /\ \A i \in n + 1 .. n + GapBits : s[i] = z[i - n]
      BY <2>6, <2>7, <2>8
  <2>5. \A i \in n + 1 .. n + GapBits : i - n \in 1 .. GapBits
      BY <1>1
  <2> QED BY <2>1, <2>4, <2>5 DEF a
<1> HIDE DEF n, s
<1>3. Len(s) \in Nat
    BY <1>1, <1>2
<1>4. PICK g : Folded(g, "firmware", t, s) /\ Over(Firmware, t, s) = g[Len(s)]
    BY <1>3, FoldFirmware
<1>5. g[0] = t /\ \A i \in 1 .. Len(s) : g[i] = Firmware(g[i - 1], s[i])
    BY <1>4, StepKinds DEF Folded
<1> DEFINE Good(i) == IF i < n THEN Clear(g[i], Reached(k, i), e, c)
                      ELSE Clear(g[i], RxInit, k + 1, c + 1)
           S == {i \in 0 .. Len(s) : Good(i)}
<1>6. 0 \in S
    BY <1>1, <1>3, <1>5, ReachNothing
<1>7. ASSUME NEW i \in 1 .. Len(s), i - 1 \in S PROVE i \in S
  <2>1. Good(i - 1) /\ g[i] = Firmware(g[i - 1], s[i])
      BY <1>5, <1>7
  <2>2. i - 1 \in Nat /\ (i - 1) + 1 = i
      OBVIOUS
  <2>3. CASE i < n
    <3>1. Clear(g[i - 1], Reached(k, i - 1), e, c) /\ s[i] = FrameBits(k)[i]
        BY <1>1, <1>2, <2>1, <2>3
    <3>2. i - 1 < Len(FrameBits(k)) /\ (i - 1) + 1 < Len(FrameBits(k))
        BY <1>1, <2>3 DEF n
    <3>3. /\ PushBit(Reached(k, i - 1), FrameBits(k)[(i - 1) + 1]) = Reached(k, (i - 1) + 1)
          /\ Pushed(Reached(k, i - 1), FrameBits(k)[(i - 1) + 1]) = None
        BY <2>2, <3>2, ReachBit
    <3>4. /\ PushBit(Reached(k, i - 1), s[i]) = Reached(k, i)
          /\ Pushed(Reached(k, i - 1), s[i]) = None
        BY <2>2, <3>1, <3>3
    <3>5. Clear(g[i], Reached(k, i), e, c)
        BY <2>1, <3>1, <3>4, ClearWithin
    <3> QED BY <2>3, <3>5
  <2>4. CASE i = n
    <3>1. Clear(g[i - 1], Reached(k, i - 1), e, c) /\ s[i] = FrameBits(k)[i]
        BY <1>1, <1>2, <2>1, <2>4
    <3>2. i - 1 < Len(FrameBits(k)) /\ (i - 1) + 1 = Len(FrameBits(k))
        BY <1>1, <2>4 DEF n
    <3>3. /\ PushBit(Reached(k, i - 1), FrameBits(k)[(i - 1) + 1]) = RxInit
          /\ Pushed(Reached(k, i - 1), FrameBits(k)[(i - 1) + 1])
                = [result |-> "OK", payload |-> TestPayload(k)]
        BY <2>2, <3>2, ReachBit
    <3>4. /\ PushBit(Reached(k, i - 1), s[i]) = RxInit
          /\ Pushed(Reached(k, i - 1), s[i]) = [result |-> "OK", payload |-> TestPayload(k)]
        BY <2>2, <3>1, <3>3
    <3>5. ResyncIndex(e, TestPayload(k)[1]) = k
      <4>1. k \in Nat /\ TestPayload(k)[1] = ToWord(k)
          BY FramesNat, PayloadType
      <4> QED BY <4>1, Resyncs
    <3>6. Clear(g[i], RxInit, k + 1, c + 1)
        BY <2>1, <3>1, <3>4, <3>5, ClearFrame
    <3> QED BY <1>1, <2>4, <3>6
  <2>5. CASE i > n
    <3>1. Clear(g[i - 1], RxInit, k + 1, c + 1) /\ s[i] = 0
        BY <1>1, <1>2, <2>1, <2>5
    <3>2. Clear(g[i], RxInit, k + 1, c + 1)
        BY <2>1, <3>1, IdleBit, ClearWithin
    <3> QED BY <1>1, <2>5, <3>2
  <2> HIDE DEF Good
  <2> QED BY <1>1, <2>3, <2>4, <2>5
<1>8. 0 .. Len(s) \subseteq S
  <2> HIDE DEF S
  <2> QED BY <1>3, <1>6, <1>7, Induct
<1>9. Good(Len(s)) /\ ~(Len(s) < n)
    BY <1>1, <1>2, <1>3, <1>8
<1> QED BY <1>4, <1>9 DEF Clocked, s

\* The frames on the wire, as they were sent: the first of them is from or later, every
\* one is later than the one before it, the last comes before to.
Behind(q, from, i) == IF i = 0 THEN from ELSE q[i].seq + 1
Numbers == 0 .. MaxOps * FramesPerBurst

Flow(q, from, to) ==
    /\ from \in Nat /\ to \in Nat
    /\ \A i \in 1 .. Len(q) : /\ q[i].seq \in Numbers /\ q[i].bits = FrameBits(q[i].seq)
                              /\ Behind(q, from, i - 1) <= q[i].seq
    /\ Behind(q, from, Len(q)) <= to

LEMMA NumbersNat == Numbers \subseteq Nat /\ \A k \in Numbers : k \in Frames
<1>1. \A k \in 0 .. MaxOps * FramesPerBurst : k \in Frames /\ k \in Nat
    BY SentFrames
<1> QED BY <1>1 DEF Numbers

LEMMA FlowMore ==
    ASSUME NEW q, Len(q) \in Nat, NEW from, NEW to, NEW more \in Nat, Flow(q, from, to), to <= more
    PROVE  Flow(q, from, more)
<1>1. Behind(q, from, Len(q)) \in Nat
  <2>1. CASE Len(q) = 0
      BY <2>1 DEF Flow, Behind
  <2>2. CASE Len(q) # 0
    <3>1. Len(q) \in 1 .. Len(q)
        BY <2>2
    <3>2. q[Len(q)].seq \in Nat
        BY <3>1, NumbersNat DEF Flow
    <3> QED BY <2>2, <3>2 DEF Behind
  <2> QED BY <2>1, <2>2
<1> DEFINE b == Behind(q, from, Len(q))
<1> HIDE DEF b
<1>2. b \in Nat /\ b <= to /\ to \in Nat
    BY <1>1 DEF b, Flow
<1>3. b <= more
    BY <1>2
<1> QED BY <1>3 DEF Flow, b

LEMMA FlowAppend ==
    ASSUME NEW q \in Seq(OnWire), NEW from, NEW to, Flow(q, from, to),
           NEW f \in OnWire, f.seq \in Numbers, f.bits = FrameBits(f.seq), to <= f.seq
    PROVE  Flow(Append(q, f), from, f.seq + 1)
<1> DEFINE p == Append(q, f)
           n == Len(q)
<1>1. /\ n \in Nat /\ Len(p) = n + 1 /\ p[n + 1] = f
      /\ \A i \in 1 .. n : p[i] = q[i]
    OBVIOUS
<1>2. f.seq \in Nat /\ from \in Nat /\ to \in Nat
    BY NumbersNat DEF Flow
<1>3. \A i \in 0 .. n : Behind(p, from, i) = Behind(q, from, i)
  <2> HIDE DEF p, n
  <2> QED BY <1>1 DEF Behind
<1>4. Behind(p, from, n + 1) = f.seq + 1
  <2> HIDE DEF p, n
  <2> QED BY <1>1 DEF Behind
<1>5. Behind(q, from, n) <= to /\ Behind(q, from, n) \in Nat
  <2>1. CASE n = 0
      BY <1>2, <2>1 DEF Flow, Behind
  <2>2. CASE n # 0
    <3>1. n \in 1 .. Len(q)
        BY <1>1, <2>2
    <3>2. q[n].seq \in Nat
        BY <3>1, NumbersNat DEF Flow
    <3>3. Behind(q, from, n) \in Nat
        BY <2>2, <3>2 DEF Behind
    <3> QED BY <3>3 DEF Flow
  <2> QED BY <2>1, <2>2
<1>6. ASSUME NEW i \in 1 .. n
      PROVE  /\ q[i].seq \in Numbers /\ q[i].bits = FrameBits(q[i].seq)
             /\ Behind(q, from, i - 1) <= q[i].seq
    BY DEF Flow
<1> HIDE DEF p, n
<1>7. ASSUME NEW i \in 1 .. n + 1
      PROVE  /\ p[i].seq \in Numbers /\ p[i].bits = FrameBits(p[i].seq)
             /\ Behind(p, from, i - 1) <= p[i].seq
  <2>1. CASE i \in 1 .. n
    <3>1. p[i] = q[i] /\ i - 1 \in 0 .. n
        BY <1>1, <2>1
    <3>2. Behind(p, from, i - 1) = Behind(q, from, i - 1)
        BY <1>3, <3>1
    <3> QED BY <1>6, <2>1, <3>1, <3>2
  <2>2. CASE i = n + 1
    <3>1. i - 1 = n /\ n \in 0 .. n
        BY <1>1, <2>2
    <3>2. Behind(p, from, i - 1) = Behind(q, from, n)
        BY <1>3, <3>1
    <3>3. Behind(q, from, n) <= f.seq
        BY <1>2, <1>5
    <3> QED BY <1>1, <2>2, <3>2, <3>3
  <2> QED BY <1>1, <2>1, <2>2
<1>8. f.seq + 1 \in Nat /\ Behind(p, from, Len(p)) <= f.seq + 1
    BY <1>1, <1>2, <1>4
<1>9. Flow(p, from, f.seq + 1)
    BY <1>1, <1>2, <1>7, <1>8 DEF Flow
<1> QED BY <1>9 DEF p

LEMMA FlowNearer ==
    ASSUME NEW q \in Seq(OnWire), NEW from, NEW to, Flow(q, from, to)
    PROVE  Flow(Nearer(q), from, to)
<1> DEFINE p == Nearer(q)
<1>1. /\ Len(p) = Len(q) /\ Len(q) \in Nat
      /\ \A i \in 1 .. Len(q) : p[i].seq = q[i].seq /\ p[i].bits = q[i].bits
    BY NearerFrames
<1> HIDE DEF p
<1>2. \A i \in 0 .. Len(q) : Behind(p, from, i) = Behind(q, from, i)
    BY <1>1 DEF Behind
<1>3. ASSUME NEW i \in 1 .. Len(q) PROVE Behind(p, from, i - 1) = Behind(q, from, i - 1)
  <2>1. i - 1 \in 0 .. Len(q)
      BY <1>1
  <2> QED BY <1>2, <2>1
<1>4. Behind(p, from, Len(p)) = Behind(q, from, Len(q))
  <2>1. Len(q) \in 0 .. Len(q)
      BY <1>1
  <2> QED BY <1>1, <1>2, <2>1
<1>5. Flow(p, from, to)
    BY <1>1, <1>3, <1>4 DEF Flow
<1> QED BY <1>5 DEF p

\* Those that have arrived, and those still on their way.
LEMMA FlowSplit ==
    ASSUME NEW q \in Seq(OnWire), NEW from, NEW to, Flow(q, from, to),
           NEW n \in 0 .. Len(q), Split(q, n)
    PROVE  Flow(NotDue(q), Behind(q, from, n), to)
<1> DEFINE p == NotDue(q)
           m == Len(q)
           mid == Behind(q, from, n)
<1>1. /\ m \in Nat /\ n \in 0 .. m
      /\ Len(p) = m - n /\ \A i \in 1 .. m - n : p[i] = q[n + i]
    BY DEF Split
<1>2. \A i \in 1 .. m : q[i].seq \in Nat
    BY NumbersNat DEF Flow
<1>3. mid \in Nat
  <2>1. CASE n = 0
      BY <2>1 DEF Behind, Flow
  <2>2. CASE n # 0
      BY <1>1, <1>2, <2>2 DEF Behind
  <2> QED BY <2>1, <2>2
<1>4. ASSUME NEW i \in 0 .. m - n PROVE Behind(p, mid, i) = Behind(q, from, n + i)
  <2>1. CASE i = 0
    <3>1. n + i = n
        BY <1>1, <2>1
    <3> QED BY <2>1, <3>1 DEF Behind
  <2>2. CASE i # 0
    <3>1. i \in 1 .. m - n /\ n + i # 0
        BY <1>1, <2>2
    <3>2. p[i] = q[n + i]
        BY <1>1, <3>1
    <3> HIDE DEF p, mid
    <3> QED BY <2>2, <3>1, <3>2 DEF Behind
  <2> QED BY <2>1, <2>2
<1>5. ASSUME NEW i \in 1 .. m - n
      PROVE  /\ p[i].seq \in Numbers /\ p[i].bits = FrameBits(p[i].seq)
             /\ Behind(p, mid, i - 1) <= p[i].seq
  <2>1. n + i \in 1 .. m /\ i - 1 \in 0 .. m - n /\ n + (i - 1) = (n + i) - 1
      BY <1>1
  <2>2. p[i] = q[n + i] /\ Behind(p, mid, i - 1) = Behind(q, from, (n + i) - 1)
    <3>1. Behind(p, mid, i - 1) = Behind(q, from, n + (i - 1))
        BY <1>4, <2>1
    <3>2. p[i] = q[n + i]
        BY <1>1
    <3> HIDE DEF p, mid
    <3> QED BY <2>1, <3>1, <3>2
  <2>3. /\ q[n + i].seq \in Numbers /\ q[n + i].bits = FrameBits(q[n + i].seq)
        /\ Behind(q, from, (n + i) - 1) <= q[n + i].seq
    <3> DEFINE j == n + i
    <3>1. j \in 1 .. Len(q)
        BY <2>1
    <3> HIDE DEF j
    <3>2. /\ q[j].seq \in Numbers /\ q[j].bits = FrameBits(q[j].seq)
          /\ Behind(q, from, j - 1) <= q[j].seq
        BY <3>1 DEF Flow
    <3> QED BY <3>2 DEF j
  <2> HIDE DEF p, mid
  <2> QED BY <2>2, <2>3
<1>6. Behind(p, mid, Len(p)) <= to
  <2>1. m - n \in 0 .. m - n /\ n + (m - n) = m
      BY <1>1
  <2>2. Behind(p, mid, m - n) = Behind(q, from, n + (m - n))
      BY <1>4, <2>1
  <2>3. Behind(q, from, m) <= to
      BY DEF Flow
  <2> HIDE DEF p, mid, m
  <2> QED BY <1>1, <2>1, <2>2, <2>3
<1>7. to \in Nat
    BY DEF Flow
<1> HIDE DEF p, mid
<1>8. Flow(p, mid, to)
    BY <1>1, <1>3, <1>5, <1>6, <1>7 DEF Flow
<1> QED BY <1>8 DEF p, mid

LEMMA NothingFlipped ==
    ASSUME NEW bits \in Seq({0, 1})
    PROVE  Flipped(bits, 0) = bits
<1>1. DOMAIN bits = 1 .. Len(bits) /\ Len(bits) \in Nat /\ bits = [i \in 1 .. Len(bits) |-> bits[i]]
    OBVIOUS
<1>2. \A i \in 1 .. Len(bits) : i # 0
    BY <1>1
<1>3. Flipped(bits, 0) = [i \in 1 .. Len(bits) |-> bits[i]]
    BY <1>1, <1>2 DEF Flipped
<1> QED BY <1>1, <1>3

LEMMA FlowCarried ==
    ASSUME NEW w \in Cable, NEW from, NEW to, Flow(w.frames, from, to),
           NEW s, Len(s) \in Nat,
           \A i \in 1 .. Len(s) : s[i] \in Sent /\ s[i].seq = to + i - 1 /\ s[i].fate.flip = 0
    PROVE  Flow(Over(CarryFrame, w, s).frames, from, to + Len(s))
<1>1. PICK g : Folded(g, "carried", w, s) /\ Over(CarryFrame, w, s) = g[Len(s)]
    BY FoldCarried
<1>2. g[0] = w /\ \A i \in 1 .. Len(s) : g[i] = CarryFrame(g[i - 1], s[i])
    BY <1>1, StepKinds DEF Folded
<1>3. to \in Nat
    BY DEF Flow
<1> DEFINE Good(i) == g[i] \in Cable /\ Flow(g[i].frames, from, to + i)
           S == {i \in 0 .. Len(s) : Good(i)}
<1>4. 0 \in S
  <2>1. to + 0 = to
      BY <1>3
  <2> QED BY <1>2, <2>1
<1>5. ASSUME NEW i \in 1 .. Len(s), i - 1 \in S PROVE i \in S
  <2> DEFINE v == g[i - 1]
             c == s[i]
             k == c.seq
  <2>1. v \in Cable /\ Flow(v.frames, from, to + (i - 1)) /\ g[i] = CarryFrame(v, c)
      BY <1>2, <1>5
  <2>2. c \in Sent /\ c.seq = to + i - 1 /\ c.fate.flip = 0
      OBVIOUS
  <2>3. to + (i - 1) = to + i - 1 /\ to + i - 1 \in Nat /\ (to + i - 1) + 1 = to + i /\ to + i \in Nat
      BY <1>3
  <2>4. v.frames \in Seq(OnWire)
      BY <2>1, WireIs
  <2>5. k \in Numbers
      BY <2>2 DEF Sent, Numbers
  <2> HIDE DEF v, c
  <2>6. g[i] \in Cable
      BY <2>1, <2>2, FrameSent
  <2>7. CASE c.fate.lost
    <3>1. g[i] = v
        BY <2>1, <2>2, <2>7, FrameSent
    <3>2. Flow(v.frames, from, to + i)
      <4>1. to + (i - 1) <= to + i /\ Len(v.frames) \in Nat
          BY <1>3, <2>4
      <4> QED BY <2>1, <2>3, <4>1, FlowMore
    <3> QED BY <2>6, <3>1, <3>2
  <2>8. CASE ~c.fate.lost
    <3>1. \E in \in Nat :
            LET f == [in |-> in, seq |-> c.seq, bits |-> Flipped(FrameBits(c.seq), c.fate.flip)]
            IN  /\ f \in OnWire /\ in >= v.behind
                /\ CarryFrame(v, c) = Wire(v.sent, in, v.heap, Append(v.frames, f))
        BY <2>1, <2>2, <2>8, FrameSent
    <3>2. PICK in \in Nat :
            LET f == [in |-> in, seq |-> c.seq, bits |-> Flipped(FrameBits(c.seq), c.fate.flip)]
            IN  /\ f \in OnWire /\ in >= v.behind
                /\ CarryFrame(v, c) = Wire(v.sent, in, v.heap, Append(v.frames, f))
        BY <3>1
    <3> DEFINE f == [in |-> in, seq |-> c.seq, bits |-> Flipped(FrameBits(c.seq), c.fate.flip)]
    <3>3. f \in OnWire /\ g[i] = Wire(v.sent, in, v.heap, Append(v.frames, f))
        BY <2>1, <3>2
    <3>4. f.seq = k /\ f.bits = FrameBits(k)
      <4>1. FrameBits(k) \in Seq({0, 1})
          BY <2>5, SentFrames DEF Numbers
      <4>2. Flipped(FrameBits(k), 0) = FrameBits(k)
          BY <4>1, NothingFlipped
      <4> QED BY <2>2, <4>2
    <3> HIDE DEF f
    <3>5. Flow(Append(v.frames, f), from, f.seq + 1)
      <4>1. to + (i - 1) <= f.seq
          BY <2>2, <2>3, <3>4
      <4> QED BY <2>1, <2>4, <2>5, <3>3, <3>4, <4>1, FlowAppend
    <3>6. g[i].frames = Append(v.frames, f)
        BY <3>3 DEF Wire
    <3>7. f.seq + 1 = to + i
      <4>1. f.seq = to + i - 1
          BY <2>2, <3>4
      <4> QED BY <2>3, <4>1
    <3>8. Flow(g[i].frames, from, to + i)
      <4> DEFINE q == g[i].frames
                 p == Append(v.frames, f)
                 a == f.seq + 1
                 b == to + i
      <4>1. Flow(p, from, a) /\ q = p /\ a = b
          BY <3>5, <3>6, <3>7
      <4> HIDE DEF p, q, a, b
      <4>2. Flow(q, from, b)
          BY <4>1
      <4> QED BY <4>2 DEF q, b
    <3>9. Good(i)
        BY <2>6, <3>8
    <3> HIDE DEF Good
    <3> QED BY <3>9
  <2> QED BY <2>7, <2>8
<1>6. 0 .. Len(s) \subseteq S
  <2> HIDE DEF S
  <2> QED BY <1>4, <1>5, Induct
<1>7. Good(Len(s))
    BY <1>6
<1> QED BY <1>1, <1>7

\* The numbers at which B has arrived, frame after frame.
LEMMA NextsAre ==
    ASSUME NEW q, NEW from \in Nat, NEW came \in Seq(OnWire), \A i \in 1 .. Len(came) : came[i] = q[i]
    PROVE  LET nexts == <<from>> \o [i \in DOMAIN came |-> came[i].seq + 1]
           IN  /\ Len(nexts) = Len(came) + 1
               /\ \A i \in 1 .. Len(came) : nexts[i] = Behind(q, from, i - 1)
               /\ nexts[Len(nexts)] = Behind(q, from, Len(came))
<1> DEFINE n == Len(came)
           later == [i \in DOMAIN came |-> came[i].seq + 1]
           nexts == <<from>> \o later
<1>1. n \in Nat /\ DOMAIN came = 1 .. n
    OBVIOUS
<1>2. \A i \in 1 .. n : came[i].seq \in Nat
  <2>1. \A i \in 1 .. n : came[i] \in OnWire
      OBVIOUS
  <2>2. \A f \in OnWire : f.seq \in Nat
      BY DEF OnWire
  <2> QED BY <2>1, <2>2
<1>3. later \in Seq(Nat) /\ Len(later) = n /\ \A i \in 1 .. n : later[i] = came[i].seq + 1
  <2>1. later = [i \in 1 .. n |-> came[i].seq + 1]
      BY <1>1
  <2> DEFINE v(i) == came[i].seq + 1
  <2>2. later = [i \in 1 .. n |-> v(i)] /\ \A i \in 1 .. n : v(i) \in Nat
      BY <1>2, <2>1
  <2> HIDE DEF v
  <2>3. later \in Seq(Nat) /\ Len(later) = n /\ \A i \in 1 .. n : later[i] = v(i)
      BY <1>1, <2>2
  <2> QED BY <2>3 DEF v
<1> HIDE DEF n, later
<1>4. <<from>> \in Seq(Nat) /\ Len(<<from>>) = 1
    OBVIOUS
<1>5. /\ Len(nexts) = n + 1 /\ nexts[1] = from
      /\ \A i \in 1 .. n : nexts[i + 1] = later[i]
  <2>1. Len(nexts) = 1 + n
      BY <1>1, <1>3, <1>4
  <2>2. 1 + n = n + 1
      BY <1>1
  <2> QED BY <1>1, <1>3, <1>4, <2>1, <2>2
<1> HIDE DEF nexts
<1>6. ASSUME NEW i \in 0 .. n PROVE nexts[i + 1] = Behind(q, from, i)
  <2>1. CASE i = 0
    <3>1. i + 1 = 1
        BY <2>1
    <3> QED BY <1>5, <2>1, <3>1 DEF Behind
  <2>2. CASE i # 0
    <3>1. i \in 1 .. n
        BY <1>1, <2>2
    <3>2. nexts[i + 1] = came[i].seq + 1
        BY <1>3, <1>5, <3>1
    <3>3. came[i] = q[i]
        BY <3>1 DEF n
    <3> QED BY <2>2, <3>2, <3>3 DEF Behind
  <2> QED BY <2>1, <2>2
<1>7. ASSUME NEW i \in 1 .. n PROVE nexts[i] = Behind(q, from, i - 1)
  <2>1. i - 1 \in 0 .. n /\ (i - 1) + 1 = i
      BY <1>1
  <2>2. nexts[(i - 1) + 1] = Behind(q, from, i - 1)
      BY <1>6, <2>1
  <2> QED BY <2>1, <2>2
<1>8. nexts[Len(nexts)] = Behind(q, from, n)
  <2>1. n \in 0 .. n
      BY <1>1
  <2> QED BY <1>5, <1>6, <2>1
<1> QED BY <1>5, <1>7, <1>8 DEF n, nexts, later

\* A board that has found nothing wrong finds nothing wrong with frames that flow, as long
\* as their numbers can be told.
LEMMA ClearFrames ==
    ASSUME NEW q, NEW from, NEW to, Flow(q, from, to), NEW came, Len(came) \in 0 .. Len(q),
           Len(q) \in Nat, \A i \in 1 .. Len(came) : came[i] = q[i],
           \A i \in 1 .. Len(came) : q[i].seq - Behind(q, from, i - 1) < Values,
           NEW t, NEW c \in Nat, Clear(t, RxInit, from, c)
    PROVE  Clear(Over(Clocked, t, came), RxInit, Behind(q, from, Len(came)), c + Len(came))
<1>1. PICK h : Folded(h, "clocked", t, came) /\ Over(Clocked, t, came) = h[Len(came)]
    BY FoldClocked
<1>2. h[0] = t /\ \A i \in 1 .. Len(came) : h[i] = Clocked(h[i - 1], came[i])
    BY <1>1, StepKinds DEF Folded
<1>3. \A i \in 0 .. Len(came) : Behind(q, from, i) \in Nat
  <2> SUFFICES ASSUME NEW i \in 0 .. Len(came) PROVE Behind(q, from, i) \in Nat
      OBVIOUS
  <2>1. CASE i = 0
      BY <2>1 DEF Behind, Flow
  <2>2. CASE i # 0
    <3>1. i \in 1 .. Len(q)
        BY <2>2
    <3>2. q[i].seq \in Nat
        BY <3>1, NumbersNat DEF Flow
    <3> QED BY <2>2, <3>2 DEF Behind
  <2> QED BY <2>1, <2>2
<1> DEFINE Good(i) == Clear(h[i], RxInit, Behind(q, from, i), c + i)
           S == {i \in 0 .. Len(came) : Good(i)}
<1>4. 0 \in S
  <2>1. Behind(q, from, 0) = from /\ c + 0 = c
      BY DEF Behind
  <2> QED BY <1>2, <2>1
<1>5. ASSUME NEW i \in 1 .. Len(came), i - 1 \in S PROVE i \in S
  <2> DEFINE e == Behind(q, from, i - 1)
             k == q[i].seq
             u == h[i - 1]
             d == c + (i - 1)
  <2>1. Clear(u, RxInit, e, d) /\ h[i] = Clocked(u, came[i])
      BY <1>2, <1>5
  <2>2. i \in 1 .. Len(q) /\ i - 1 \in 0 .. Len(came) /\ d + 1 = c + i
      OBVIOUS
  <2>3. e \in Nat
      BY <1>3, <2>2
  <2>4. k \in Numbers /\ q[i].bits = FrameBits(k) /\ e <= k
      BY <2>2 DEF Flow
  <2>5. k - e < Values /\ came[i].bits = FrameBits(k)
      BY <2>4
  <2>6. k \in Nat /\ k \in Frames
      BY <2>4, NumbersNat
  <2> HIDE DEF e, k, u, d
  <2>7. k - e \in 0 .. Values - 1
      BY <2>3, <2>4, <2>5, <2>6, ValuesType
  <2>8. Clear(Clocked(u, came[i]), RxInit, k + 1, d + 1)
      BY <2>1, <2>3, <2>5, <2>6, <2>7, ClearBurst
  <2>9. k + 1 = Behind(q, from, i)
      BY DEF Behind, k
  <2>10. Good(i)
      BY <2>1, <2>2, <2>8, <2>9
  <2> HIDE DEF Good
  <2> QED BY <2>10
<1>6. 0 .. Len(came) \subseteq S
  <2>1. Len(came) \in Nat
      OBVIOUS
  <2> HIDE DEF S
  <2> QED BY <1>4, <1>5, <2>1, Induct
<1>7. Good(Len(came))
    BY <1>6
<1> QED BY <1>1, <1>7

\* The frames under way are those of A, and B is where the last of them that arrived left it.
Flowing ==
    /\ arrived = [frames |-> arrived.frames, next |-> arrived.next]
    /\ arrived.frames \in Nat /\ arrived.next \in Nat
    /\ ~disturbed => Flow(wire.frames, arrived.next, tx_seq)
    /\ ~disturbed /\ ~gapped => Clear(twin.board, RxInit, arrived.next, arrived.frames)

LEMMA FlowingInit == SimInit => Flowing
<1> SUFFICES ASSUME SimInit PROVE Flowing
    OBVIOUS
<1>1. /\ arrived = [frames |-> 0, next |-> 0] /\ tx_seq = 0
      /\ wire.frames = <<>> /\ twin.board = NewTwin
    BY DEF SimInit
<1>2. Flow(<<>>, 0, 0)
  <2>1. Len(<<>>) = 0 /\ Behind(<<>>, 0, 0) = 0
      BY DEF Behind
  <2> QED BY <2>1 DEF Flow
<1>3. Clear(NewTwin, RxInit, 0, 0)
    BY DEF Clear, NewTwin, Board
<1>4. arrived.frames = 0 /\ arrived.next = 0
    BY <1>1
<1> QED BY <1>1, <1>2, <1>3, <1>4 DEF Flowing

\* A level sent leaves the frames alone.
LEMMA LevelLeavesFrames ==
    ASSUME NEW w \in Cable, NEW level \in {0, 1}, NEW fate \in EdgeFates
    PROVE  SendLevel(w, level, fate).frames = w.frames
<1> DEFINE v == SendLevel(w, level, fate)
<1>1. CASE level = w.sent
    BY <1>1, LevelSent
<1>2. CASE level # w.sent /\ fate.lost
  <2>1. v = Wire(level, w.behind, w.heap, w.frames)
      BY <1>2, LevelSent
  <2> HIDE DEF v
  <2>2. v.frames = w.frames
      BY <2>1 DEF Wire
  <2> QED BY <2>2 DEF v
<1>3. CASE level # w.sent /\ ~fate.lost
  <2>1. \E in \in Nat :
           v = Wire(level, in, Put(w.heap, [in |-> in, kind |-> "set", value |-> level]), w.frames)
      BY <1>3, LevelSent
  <2>2. \E in, h : v = Wire(level, in, h, w.frames)
      BY <2>1
  <2> HIDE DEF v
  <2>3. v.frames = w.frames
      BY <2>2 DEF Wire
  <2> QED BY <2>3 DEF v
<1> QED BY <1>1, <1>2, <1>3

LEMMA FlowingA ==
    ASSUME Wired, SameTwins, Flowing, StepA
    PROVE  Flowing'
<1>0. PICK due \in (SUBSET Phases) \ {{}} :
        \E edge \in Fates("blink" \in due, EdgeFates),
           burst \in [1 .. FramesPerBurst -> Fates("burst" \in due, FrameFates)] :
        LET blinked == IF "blink" \in due THEN SendLevel(wire, 1 - wire.sent, edge) ELSE wire
            frames == [i \in 1 .. FramesPerBurst |-> [seq |-> tx_seq + i - 1, fate |-> burst[i]]]
            hit == {i \in DOMAIN burst :
                       "burst" \in due /\ (burst[i].lost \/ burst[i].flip # 0)}
        IN  /\ Operate(Cardinality(due))
            /\ wire' = IF "burst" \in due THEN Over(CarryFrame, blinked, frames) ELSE blinked
            /\ tx_seq' = IF "burst" \in due THEN tx_seq + FramesPerBurst ELSE tx_seq
            /\ disturbed' = (disturbed \/ \E i \in hit : burst[i].flip # 0)
    BY ZenonT(30) DEF StepA
<1>1. PICK edge \in Fates("blink" \in due, EdgeFates),
           burst \in [1 .. FramesPerBurst -> Fates("burst" \in due, FrameFates)] :
        LET blinked == IF "blink" \in due THEN SendLevel(wire, 1 - wire.sent, edge) ELSE wire
            frames == [i \in 1 .. FramesPerBurst |-> [seq |-> tx_seq + i - 1, fate |-> burst[i]]]
            hit == {i \in DOMAIN burst :
                       "burst" \in due /\ (burst[i].lost \/ burst[i].flip # 0)}
        IN  /\ Operate(Cardinality(due))
            /\ wire' = IF "burst" \in due THEN Over(CarryFrame, blinked, frames) ELSE blinked
            /\ tx_seq' = IF "burst" \in due THEN tx_seq + FramesPerBurst ELSE tx_seq
            /\ disturbed' = (disturbed \/ \E i \in hit : burst[i].flip # 0)
    BY <1>0
<1> DEFINE blinked == IF "blink" \in due THEN SendLevel(wire, 1 - wire.sent, edge) ELSE wire
           frames == [i \in 1 .. FramesPerBurst |-> [seq |-> tx_seq + i - 1, fate |-> burst[i]]]
           n == Cardinality(due)
<1>2. wire \in Cable /\ tx_seq \in Nat /\ wire.sent \in {0, 1} /\ wire.frames \in Seq(OnWire)
    BY WireIs DEF Wired
<1>3. blinked \in Cable /\ blinked.frames = wire.frames
  <2>1. CASE "blink" \in due
    <3>1. edge \in EdgeFates /\ 1 - wire.sent \in {0, 1}
        BY <1>2, <2>1 DEF Fates
    <3>2. /\ SendLevel(wire, 1 - wire.sent, edge) \in Cable
          /\ SendLevel(wire, 1 - wire.sent, edge).frames = wire.frames
        BY <1>2, <3>1, LevelSent, LevelLeavesFrames
    <3> QED BY <2>1, <3>2
  <2>2. CASE "blink" \notin due
      BY <1>2, <2>2
  <2> QED BY <2>1, <2>2
<1>4. n \in Nat /\ n >= 1 /\ Operate(n)
    BY <1>1, PhasesCount
<1>5. /\ wire' = IF "burst" \in due THEN Over(CarryFrame, blinked, frames) ELSE blinked
      /\ tx_seq' = IF "burst" \in due THEN tx_seq + FramesPerBurst ELSE tx_seq
    BY <1>1
<1>6. ASSUME ~disturbed'
      PROVE  /\ ~disturbed
             /\ "burst" \in due => \A i \in 1 .. FramesPerBurst : burst[i].flip = 0
  <2>1. ~(disturbed \/ \E i \in {i \in DOMAIN burst :
                       "burst" \in due /\ (burst[i].lost \/ burst[i].flip # 0)} : burst[i].flip # 0)
      BY <1>1, <1>6
  <2>2. DOMAIN burst = 1 .. FramesPerBurst
      OBVIOUS
  <2> QED BY <2>1, <2>2
<1>7. arrived' = arrived /\ gapped' = gapped /\ twin'.board = twin.board
  <2>1. arrived' = arrived /\ gapped' = gapped
      BY DEF StepA
  <2>2. \/ twin' = twin
        \/ \E ok \in BOOLEAN : Handshake(ok)
    <3>1. \E due1 \in (SUBSET Phases) \ {{}} :
            \E legs :
               IF "handshake" \in due1 THEN Handshake(back /\ legs) ELSE UNCHANGED <<watch, twin>>
        BY DEF StepA
    <3>2. PICK due1, legs :
            IF "handshake" \in due1 THEN Handshake(back /\ legs) ELSE UNCHANGED <<watch, twin>>
        BY <3>1
    <3>3. (back /\ legs) \in BOOLEAN
        BY Zenon
    <3>4. CASE "handshake" \in due1
        BY <3>2, <3>3, <3>4
    <3>5. CASE "handshake" \notin due1
        BY <3>2, <3>5
    <3> QED BY <3>4, <3>5
  <2>3. ASSUME NEW ok \in BOOLEAN, Handshake(ok) PROVE twin'.board = twin.board
    <3> DEFINE c == LinkWatch(twin.watch, ok)
    <3>1. twin' = [twin EXCEPT !.watch = c]
        BY <2>3 DEF Handshake
    <3> HIDE DEF c
    <3>2. twin = [board |-> twin.board, watch |-> twin.watch]
        BY DEF SameTwins
    <3>3. twin' = [board |-> twin.board, watch |-> c]
        BY <3>1, <3>2, TwinRecord
    <3> QED BY <3>3
  <2> QED BY <2>1, <2>2, <2>3
<1> HIDE DEF n, blinked
<1>8. ASSUME ~disturbed' PROVE Flow(wire'.frames, arrived.next, tx_seq')
  <2>1. Flow(wire.frames, arrived.next, tx_seq)
      BY <1>6, <1>8 DEF Flowing
  <2>2. CASE "burst" \in due
    <3>1. /\ burst \in [1 .. FramesPerBurst -> FrameFates]
          /\ \A i \in 1 .. FramesPerBurst : burst[i].flip = 0
        BY <1>6, <1>8, <2>2 DEF Fates
    <3>2. /\ Len(frames) = FramesPerBurst
          /\ \A i \in 1 .. FramesPerBurst :
                frames[i] \in Sent /\ frames[i].seq = tx_seq + i - 1 /\ frames[i].fate = burst[i]
        BY <1>3, <1>4, <3>1, BurstSent
    <3> HIDE DEF frames
    <3>3. FramesPerBurst \in Nat
        BY SimSizes
    <3>4. \A i \in 1 .. Len(frames) :
             frames[i] \in Sent /\ frames[i].seq = tx_seq + i - 1 /\ frames[i].fate.flip = 0
        BY <3>1, <3>2
    <3>5. Flow(blinked.frames, arrived.next, tx_seq) /\ Len(frames) \in Nat
        BY <1>3, <2>1, <3>2, <3>3
    <3>6. Flow(Over(CarryFrame, blinked, frames).frames, arrived.next, tx_seq + Len(frames))
        BY <1>3, <3>4, <3>5, FlowCarried
    <3> QED BY <1>5, <2>2, <3>2, <3>6
  <2>3. CASE "burst" \notin due
    <3>1. wire' = blinked /\ tx_seq' = tx_seq
        BY <1>5, <2>3
    <3> QED BY <1>3, <2>1, <3>1
  <2> QED BY <2>2, <2>3
<1> QED BY <1>6, <1>7, <1>8 DEF Flowing

LEMMA FlowingB ==
    ASSUME Wired, SameTwins, Flowing, StepB
    PROVE  Flowing'
<1> DEFINE q == wire.frames
           came == Due(q)
           nexts == <<arrived.next>> \o [i \in DOMAIN came |-> came[i].seq + 1]
           board == Over(Clocked, twin.board, came)
<1>1. /\ \E heap : wire' = [wire EXCEPT !.heap = heap, !.frames = NotDue(@)]
      /\ arrived' = [frames |-> arrived.frames + Len(came), next |-> nexts[Len(nexts)]]
      /\ gapped' = (gapped \/ \E i \in DOMAIN came : came[i].seq - nexts[i] >= Values)
      /\ twin' = [twin EXCEPT !.board = board]
      /\ disturbed' = disturbed /\ tx_seq' = tx_seq
    BY DEF StepB, nodeA
<1>2. q \in Seq(OnWire) /\ came \in Seq(OnWire) /\ Len(q) \in Nat
    BY WireIs, CameType DEF Wired
<1>3. PICK n \in 0 .. Len(q) : Split(q, n)
  <2>1. \A i \in 1 .. Len(q) : q[i].in \in Int
    <3>1. \A i \in 1 .. Len(q) : q[i] \in OnWire
        BY <1>2
    <3>2. \A f \in OnWire : f.in \in Int
        BY DEF OnWire
    <3> QED BY <3>1, <3>2
  <2> HIDE DEF q, came
  <2> QED BY <1>2, <2>1, DueLaws
<1>4. Len(came) = n /\ \A i \in 1 .. n : came[i] = q[i]
    BY <1>3 DEF Split
<1>5. arrived.next \in Nat /\ arrived.frames \in Nat
    BY DEF Flowing
<1>6. wire'.frames = NotDue(q)
  <2> DEFINE rest == NotDue(q)
  <2>1. PICK heap : wire' = [wire EXCEPT !.heap = heap, !.frames = rest]
      BY <1>1
  <2>2. wire = Wire(wire.sent, wire.behind, wire.heap, wire.frames)
      BY WireIs DEF Wired
  <2> HIDE DEF rest
  <2> DEFINE w1 == Wire(wire.sent, wire.behind, heap, wire.frames)
             w2 == Wire(wire.sent, wire.behind, heap, rest)
  <2>3. [wire EXCEPT !.heap = heap] = w1 /\ [w1 EXCEPT !.frames = rest] = w2
      BY <2>2 DEF Wire
  <2> HIDE DEF w1, w2
  <2>4. [wire EXCEPT !.heap = heap, !.frames = rest] = [[wire EXCEPT !.heap = heap] EXCEPT !.frames = rest]
      OBVIOUS
  <2>5. wire' = w2
      BY <2>1, <2>3, <2>4
  <2> QED BY <2>5 DEF w2, Wire, rest
<1>7. twin'.board = board
  <2>1. twin = [board |-> twin.board, watch |-> twin.watch] /\ twin' = [twin EXCEPT !.board = board]
      BY <1>1 DEF SameTwins
  <2> HIDE DEF board
  <2>2. twin' = [board |-> board, watch |-> twin.watch]
      BY <2>1, TwinRecord
  <2> QED BY <2>2
<1>8. /\ Len(nexts) = Len(came) + 1
      /\ \A i \in 1 .. Len(came) : nexts[i] = Behind(q, arrived.next, i - 1)
      /\ nexts[Len(nexts)] = Behind(q, arrived.next, Len(came))
  <2>1. \A i \in 1 .. Len(came) : came[i] = q[i]
      BY <1>4
  <2> HIDE DEF q, came
  <2> QED BY <1>2, <1>5, <2>1, NextsAre
<1>9. arrived' = [frames |-> arrived.frames + n, next |-> Behind(q, arrived.next, n)]
    BY <1>1, <1>4, <1>8
<1>10. arrived'.frames = arrived.frames + n /\ arrived'.next = Behind(q, arrived.next, n)
    BY <1>9
<1>11. ASSUME ~gapped' PROVE /\ ~gapped
                            /\ \A i \in 1 .. n : q[i].seq - Behind(q, arrived.next, i - 1) < Values
  <2>1. ~gapped /\ \A i \in DOMAIN came : ~(came[i].seq - nexts[i] >= Values)
      BY <1>1, <1>11
  <2>2. DOMAIN came = 1 .. n
      BY <1>2, <1>4
  <2>3. ASSUME NEW i \in 1 .. n PROVE q[i].seq - Behind(q, arrived.next, i - 1) < Values
    <3>1. came[i] = q[i] /\ nexts[i] = Behind(q, arrived.next, i - 1)
        BY <1>4, <1>8
    <3>2. ~(came[i].seq - nexts[i] >= Values)
        BY <2>1, <2>2
    <3> DEFINE a == q[i].seq
               b == Behind(q, arrived.next, i - 1)
    <3>3. ~(a - b >= Values)
        BY <3>1, <3>2
    <3>4. a \in Nat /\ b \in Nat
      <4>1. \A j \in 1 .. Len(q) : q[j].seq \in Nat
        <5>1. \A j \in 1 .. Len(q) : q[j] \in OnWire
            BY <1>2
        <5>2. \A f \in OnWire : f.seq \in Nat
            BY DEF OnWire
        <5> QED BY <5>1, <5>2
      <4> HIDE DEF q, came, nexts
      <4>2. i \in 1 .. Len(q) /\ (i - 1 # 0 => i - 1 \in 1 .. Len(q))
          BY <1>2
      <4>3. q[i].seq \in Nat /\ (i - 1 # 0 => q[i - 1].seq \in Nat)
          BY <4>1, <4>2
      <4> QED BY <1>5, <4>3 DEF Behind
    <3> HIDE DEF a, b
    <3>5. a - b < Values
        BY <3>3, <3>4, ValuesType
    <3> QED BY <3>5 DEF a, b
  <2> QED BY <2>1, <2>3
<1> HIDE DEF came, nexts
<1>12. ASSUME ~disturbed' PROVE Flow(wire'.frames, arrived'.next, tx_seq')
  <2>1. Flow(q, arrived.next, tx_seq)
      BY <1>1, <1>12 DEF Flowing
  <2>2. Flow(NotDue(q), Behind(q, arrived.next, n), tx_seq)
    <3> HIDE DEF q
    <3> QED BY <1>2, <1>3, <2>1, FlowSplit
  <2>3. tx_seq' = tx_seq
      BY <1>1
  <2> HIDE DEF q
  <2> QED BY <1>6, <1>10, <2>2, <2>3
<1>13. ASSUME ~disturbed', ~gapped' PROVE Clear(twin'.board, RxInit, arrived'.next, arrived'.frames)
  <2>1. Flow(q, arrived.next, tx_seq) /\ Clear(twin.board, RxInit, arrived.next, arrived.frames)
      BY <1>1, <1>11, <1>13 DEF Flowing
  <2>2. \A i \in 1 .. Len(came) : q[i].seq - Behind(q, arrived.next, i - 1) < Values
      BY <1>4, <1>11, <1>13
  <2>3. \A i \in 1 .. Len(came) : came[i] = q[i]
      BY <1>4
  <2>4. Len(came) \in 0 .. Len(q)
      BY <1>4
  <2> DEFINE t == twin.board
             c == arrived.frames
             from == arrived.next
  <2>5. Flow(q, from, tx_seq) /\ Clear(t, RxInit, from, c) /\ c \in Nat
        /\ \A i \in 1 .. Len(came) : q[i].seq - Behind(q, from, i - 1) < Values
      BY <1>5, <2>1, <2>2
  <2> HIDE DEF t, c, from, q
  <2>6. Clear(Over(Clocked, t, came), RxInit, Behind(q, from, Len(came)), c + Len(came))
      BY <1>2, <2>3, <2>4, <2>5, ClearFrames
  <2>7. Over(Clocked, t, came) = twin'.board
      BY <1>7 DEF t
  <2> QED BY <1>4, <1>10, <2>6, <2>7 DEF c, from
<1>14. arrived'.next \in Nat /\ arrived' = [frames |-> arrived'.frames, next |-> arrived'.next]
  <2>1. n \in Nat
      BY <1>2
  <2>2. \A j \in 1 .. Len(q) : q[j].seq \in Nat
    <3>1. \A j \in 1 .. Len(q) : q[j] \in OnWire
        BY <1>2
    <3>2. \A f \in OnWire : f.seq \in Nat
        BY DEF OnWire
    <3> QED BY <3>1, <3>2
  <2> HIDE DEF q
  <2>3. Behind(q, arrived.next, n) \in Nat
      BY <1>2, <1>5, <2>2 DEF Behind
  <2>4. arrived'.next \in Nat
      BY <1>10, <2>3
  <2> QED BY <1>9, <1>10, <2>4
<1>15. arrived'.frames \in Nat
  <2>1. arrived.frames + n \in Nat
      BY <1>2, <1>5
  <2> QED BY <1>10, <2>1
<1> QED BY <1>12, <1>13, <1>14, <1>15 DEF Flowing

LEMMA FlowingTick ==
    ASSUME Wired, Flowing, Tick
    PROVE  Flowing'
<1>1. /\ arrived' = arrived /\ disturbed' = disturbed /\ gapped' = gapped /\ tx_seq' = tx_seq
      /\ twin' = twin
    BY DEF Tick, wireHistory, nodeA
<1>2. wire = Wire(wire.sent, wire.behind, wire.heap, wire.frames) /\ wire.frames \in Seq(OnWire)
    BY WireIs DEF Wired
<1> DEFINE behind == IF wire.behind > 0 THEN wire.behind - 1 ELSE 0
           heap == Nearer(wire.heap)
           frames == Nearer(wire.frames)
<1>3. wire' = [wire EXCEPT !.behind = behind, !.heap = heap, !.frames = frames]
    BY DEF Tick
<1> HIDE DEF behind, heap, frames
<1>4. wire'.frames = frames
  <2> DEFINE w1 == Wire(wire.sent, behind, wire.heap, wire.frames)
             w2 == Wire(wire.sent, behind, heap, wire.frames)
             w3 == Wire(wire.sent, behind, heap, frames)
  <2>1. /\ [wire EXCEPT !.behind = behind] = w1
        /\ [w1 EXCEPT !.heap = heap] = w2 /\ [w2 EXCEPT !.frames = frames] = w3
      BY <1>2 DEF Wire
  <2> HIDE DEF w1, w2, w3
  <2>2. [wire EXCEPT !.behind = behind, !.heap = heap, !.frames = frames] =
          [[[wire EXCEPT !.behind = behind] EXCEPT !.heap = heap] EXCEPT !.frames = frames]
      OBVIOUS
  <2>3. wire' = w3
      BY <1>3, <2>1, <2>2
  <2> QED BY <2>3 DEF w3, Wire
<1>5. ASSUME ~disturbed' PROVE Flow(wire'.frames, arrived'.next, tx_seq')
  <2>1. Flow(wire.frames, arrived.next, tx_seq)
      BY <1>1, <1>5 DEF Flowing
  <2>2. Flow(frames, arrived.next, tx_seq)
      BY <1>2, <2>1, FlowNearer DEF frames
  <2> QED BY <1>1, <1>4, <2>2
<1> QED BY <1>1, <1>5 DEF Flowing

LEMMA FlowingNext ==
    ASSUME Wired, SameTwins, Flowing, [SimNext]_simVars
    PROVE  Flowing'
<1>1. CASE SetGpio
  <2>1. /\ arrived' = arrived /\ disturbed' = disturbed /\ gapped' = gapped /\ tx_seq' = tx_seq
        /\ twin' = twin
      BY <1>1 DEF SetGpio, nodeA
  <2>2. PICK level \in {0, 1}, fate \in EdgeFates : wire' = SendLevel(wire, level, fate)
      BY <1>1 DEF SetGpio
  <2>3. wire'.frames = wire.frames
      BY <2>2, LevelLeavesFrames DEF Wired
  <2> QED BY <2>1, <2>3 DEF Flowing
<1>2. CASE StepA
    BY <1>2, FlowingA
<1>3. CASE StepB
    BY <1>3, FlowingB
<1>4. CASE RebootA
    BY <1>4 DEF RebootA, Flowing
<1>5. CASE RebootB
    BY <1>5 DEF RebootB, Flowing
<1>6. CASE Tick
    BY <1>6, FlowingTick
<1>7. CASE UNCHANGED simVars
    BY <1>7 DEF simVars, cable, wireHistory, nodeA, Flowing
<1> QED BY <1>1, <1>2, <1>3, <1>4, <1>5, <1>6, <1>7 DEF SimNext

LEMMA ClearIsAllRight == SameTwins /\ Flowing => LostFramesAreOnlyMissed
<1> SUFFICES ASSUME SameTwins, Flowing, ~disturbed, ~gapped
             PROVE  /\ monitor.ok = arrived.frames /\ monitor.expected = arrived.next
                    /\ monitor.crc_err = 0 /\ monitor.len_err = 0 /\ monitor.bit_errors = 0
    BY DEF LostFramesAreOnlyMissed
<1> DEFINE m == monitor
           t == twin.board
           e == arrived.next
           c == arrived.frames
<1>1. SameCount(m, t) /\ Clear(t, RxInit, e, c)
    BY DEF SameTwins, Flowing
<1> HIDE DEF m, t, e, c
<1>2. /\ t.expect = e /\ t.ok = c /\ t.crc_err = 0 /\ t.len_err = 0 /\ ~t.bit_errors
    BY <1>1 DEF Clear
<1>3. /\ m.expected = t.expect /\ m.ok = t.ok /\ m.crc_err = t.crc_err /\ m.len_err = t.len_err
  <2>1. t = Board(t.rx, m.expected, m.ok, m.crc_err, m.len_err, t.bit_errors)
      BY <1>1 DEF SameCount
  <2> DEFINE a == t.rx
             b == t.bit_errors
  <2> HIDE DEF a, b
  <2>2. t = Board(a, m.expected, m.ok, m.crc_err, m.len_err, b)
      BY <2>1 DEF a, b
  <2> QED BY <2>2 DEF Board
<1>4. m.bit_errors = 0
  <2>1. m.bit_errors \in Nat /\ (t.bit_errors = TRUE <=> m.bit_errors > 0)
      BY <1>1 DEF SameCount
  <2>2. ~(m.bit_errors > 0)
      BY <1>2, <2>1
  <2> QED BY <2>1, <2>2
<1> QED BY <1>2, <1>3, <1>4 DEF m, e, c

\* On a cable that flips no bit, without a reboot, every frame that arrives is counted as
\* valid, no error is, and B expects the frame after the last that arrived, however many
\* were lost in between, up to as many as one word can tell.
THEOREM LostFramesAreNotErrors == ASSUME BodyIsTotal PROVE SimSpec => []LostFramesAreOnlyMissed
<1>1. SimInit => Wired /\ SameTwins /\ Flowing
    BY WiredInit, TwinsInit, FlowingInit
<1>2. ASSUME Wired, SameTwins, Flowing, [SimNext]_simVars PROVE Wired' /\ SameTwins' /\ Flowing'
    BY <1>2, WiredNext, TwinsNext, FlowingNext
<1>3. Wired /\ SameTwins /\ Flowing /\ [SimNext]_simVars => Wired' /\ SameTwins' /\ Flowing'
    BY <1>2
<1>4. SameTwins /\ Flowing => LostFramesAreOnlyMissed
    BY ClearIsAllRight
<1> QED BY <1>1, <1>3, <1>4, PTL DEF SimSpec

-----------------------------------------------------------------------------
(* The level.                                                              *)

\* Where the members of the heap are after one more has been put into it.
LEMMA PutMembers ==
    ASSUME NEW h \in Seq(Edge), NEW e \in Edge
    PROVE  \E n \in 0 .. Len(h) :
              /\ Put(h, e) \in Seq(Edge) /\ Len(Put(h, e)) = Len(h) + 1
              /\ \A i \in 1 .. n : Put(h, e)[i] = h[i]
              /\ Put(h, e)[n + 1] = e
              /\ \A i \in n + 2 .. Len(h) + 1 : Put(h, e)[i] = h[i - 1] /\ h[i - 1].in > e.in
<1>1. PICK n \in 0 .. Len(h) : Inserted(h, e, n)
    BY PutLaws
<1> DEFINE p == Put(h, e)
<1>2. /\ p \in Seq(Edge) /\ Len(p) = Len(h) + 1 /\ \A i \in 1 .. n : p[i] = h[i]
      /\ p[n + 1] = e /\ \A i \in n + 1 .. Len(h) : p[i + 1] = h[i] /\ h[i].in > e.in
    BY <1>1 DEF Inserted
<1> HIDE DEF p
<1>3. ASSUME NEW i \in n + 2 .. Len(h) + 1 PROVE p[i] = h[i - 1] /\ h[i - 1].in > e.in
  <2>1. i - 1 \in n + 1 .. Len(h) /\ (i - 1) + 1 = i
      OBVIOUS
  <2>2. p[(i - 1) + 1] = h[i - 1] /\ h[i - 1].in > e.in
      BY <1>2, <2>1
  <2> QED BY <2>1, <2>2
<1> QED BY <1>2, <1>3 DEF p

\* How far an event turns the pulses over the level up or down.
Turn(e) == IF e.kind = "on" THEN 1 ELSE IF e.kind = "off" THEN -1 ELSE 0

\* How many pulses are over the level, event after event.
Depths(d, h) ==
    /\ d \in [0 .. Len(h) -> Int]
    /\ \A i \in 1 .. Len(h) : d[i] = d[i - 1] + Turn(h[i])

\* The events of the heap lead from depth a to depth b.
Balanced(h, a, b) == \E d : Depths(d, h) /\ d[0] = a /\ d[Len(h)] = b

LEMMA PutBalanced ==
    ASSUME NEW h \in Seq(Edge), NEW e \in Edge, NEW a, NEW b, Balanced(h, a, b)
    PROVE  Balanced(Put(h, e), a, b + Turn(e))
<1>1. PICK d : Depths(d, h) /\ d[0] = a /\ d[Len(h)] = b
    BY DEF Balanced
<1> DEFINE m == Len(h)
           t == Turn(e)
           p == Put(h, e)
<1>2. PICK n \in 0 .. m :
        /\ p \in Seq(Edge) /\ Len(p) = m + 1
        /\ \A i \in 1 .. n : p[i] = h[i]
        /\ p[n + 1] = e
        /\ \A i \in n + 2 .. m + 1 : p[i] = h[i - 1] /\ h[i - 1].in > e.in
    BY PutMembers
<1>3. m \in Nat /\ t \in Int /\ \A i \in 0 .. m : d[i] \in Int
    BY <1>1 DEF Turn, Depths
<1>4. \A i \in 1 .. m : d[i] = d[i - 1] + Turn(h[i])
    BY <1>1 DEF Depths
<1> HIDE DEF p, m, t
<1> DEFINE f == [i \in 0 .. m + 1 |-> IF i <= n THEN d[i] ELSE d[i - 1] + t]
<1>5. f \in [0 .. m + 1 -> Int]
  <2>1. ASSUME NEW i \in 0 .. m + 1 PROVE (IF i <= n THEN d[i] ELSE d[i - 1] + t) \in Int
    <3>1. CASE i <= n
        BY <1>3, <3>1
    <3>2. CASE ~(i <= n)
      <4>1. i - 1 \in 0 .. m
          BY <1>3, <3>2
      <4> QED BY <1>3, <3>2, <4>1
    <3> QED BY <3>1, <3>2
  <2> QED BY <2>1
<1>6. /\ \A i \in 0 .. n : f[i] = d[i]
      /\ \A i \in n + 1 .. m + 1 : f[i] = d[i - 1] + t
    BY <1>3
<1> HIDE DEF f
<1>7. ASSUME NEW i \in 1 .. m + 1 PROVE f[i] = f[i - 1] + Turn(p[i])
  <2>1. CASE i <= n
    <3>1. i \in 1 .. n /\ i \in 0 .. n /\ i - 1 \in 0 .. n /\ i \in 1 .. m
        BY <1>3, <2>1
    <3> QED BY <1>2, <1>4, <1>6, <3>1
  <2>2. CASE i = n + 1
    <3>1. i \in n + 1 .. m + 1 /\ i - 1 \in 0 .. n
        BY <1>3, <2>2
    <3>2. f[i] = d[i - 1] + t /\ f[i - 1] = d[i - 1] /\ p[i] = e
        BY <1>2, <1>6, <2>2, <3>1
    <3> QED BY <3>2 DEF t
  <2>3. CASE i > n + 1
    <3>1. /\ i \in n + 2 .. m + 1 /\ i \in n + 1 .. m + 1 /\ i - 1 \in n + 1 .. m + 1
          /\ i - 1 \in 1 .. m /\ (i - 1) - 1 \in 0 .. m /\ i - 1 \in 0 .. m
        BY <1>3, <2>3
    <3>2. f[i] = d[i - 1] + t /\ f[i - 1] = d[(i - 1) - 1] + t /\ p[i] = h[i - 1]
        BY <1>2, <1>6, <3>1
    <3>3. d[i - 1] = d[(i - 1) - 1] + Turn(h[i - 1])
        BY <1>4, <3>1
    <3> DEFINE x == d[i - 1]
               y == d[(i - 1) - 1]
               z == Turn(h[i - 1])
    <3>4. f[i] = x + t /\ f[i - 1] = y + t /\ x = y + z /\ Turn(p[i]) = z
        BY <3>2, <3>3
    <3>5. x \in Int /\ y \in Int /\ z \in Int /\ t \in Int
        BY <1>3, <3>1 DEF Turn
    <3> HIDE DEF x, y, z
    <3> QED BY <3>4, <3>5
  <2> QED BY <1>3, <2>1, <2>2, <2>3
<1>8. f[0] = a /\ f[m + 1] = b + t
  <2>1. 0 \in 0 .. n /\ m + 1 \in n + 1 .. m + 1 /\ (m + 1) - 1 = m
      BY <1>3
  <2>2. f[0] = d[0] /\ f[m + 1] = d[(m + 1) - 1] + t
      BY <1>6, <2>1
  <2> QED BY <1>1, <2>1, <2>2 DEF m
<1>9. Balanced(p, a, b + t)
    BY <1>2, <1>5, <1>7, <1>8 DEF Balanced, Depths
<1> QED BY <1>9 DEF p, t

\* The last level set among the members of h behind the first n is level; there is none,
\* and the level was that.
Leads(h, n, real, level) ==
    \/ \E j \in n + 1 .. Len(h) : /\ h[j].kind = "set" /\ h[j].value = level
                                  /\ \A k \in j + 1 .. Len(h) : h[k].kind # "set"
    \/ real = level /\ \A k \in n + 1 .. Len(h) : h[k].kind # "set"

\* No level on its way is due later than behind.
InTime(h, behind) == \A i \in 1 .. Len(h) : h[i].kind = "set" => h[i].in <= behind

\* A pulse changes no level.
LEMMA PutPulse ==
    ASSUME NEW h \in Seq(Edge), NEW e \in Edge, e.kind # "set"
    PROVE  /\ \A behind : InTime(h, behind) => InTime(Put(h, e), behind)
           /\ \A real, level : Leads(h, 0, real, level) => Leads(Put(h, e), 0, real, level)
<1> DEFINE m == Len(h)
           p == Put(h, e)
<1>1. PICK n \in 0 .. m :
        /\ Len(p) = m + 1
        /\ \A i \in 1 .. n : p[i] = h[i]
        /\ p[n + 1] = e
        /\ \A i \in n + 2 .. m + 1 : p[i] = h[i - 1] /\ h[i - 1].in > e.in
    BY PutMembers
<1>2. m \in Nat
    OBVIOUS
<1> HIDE DEF p
<1>3. ASSUME NEW i \in 1 .. m + 1
      PROVE  \/ i <= n /\ i \in 1 .. m /\ p[i] = h[i]
             \/ p[i].kind # "set" /\ i = n + 1
             \/ i > n + 1 /\ i - 1 \in 1 .. m /\ p[i] = h[i - 1]
  <2>1. CASE i <= n
      BY <1>1, <1>2, <2>1
  <2>2. CASE i = n + 1
      BY <1>1, <2>2
  <2>3. CASE i > n + 1
      BY <1>1, <1>2, <2>3
  <2> QED BY <1>2, <2>1, <2>2, <2>3
<1> HIDE DEF m
<1>4. ASSUME NEW behind, \A i \in 1 .. m : h[i].kind = "set" => h[i].in <= behind
      PROVE  \A i \in 1 .. m + 1 : p[i].kind = "set" => p[i].in <= behind
    BY <1>3, <1>4
<1>5. ASSUME NEW real, NEW level, Leads(h, 0, real, level)
      PROVE  Leads(p, 0, real, level)
  <2>1. CASE real = level /\ \A k \in 0 + 1 .. m : h[k].kind # "set"
    <3>1. \A k \in 1 .. m + 1 : p[k].kind # "set"
        BY <1>3, <2>1
    <3> QED BY <1>1, <2>1, <3>1 DEF Leads
  <2>2. ASSUME NEW j \in 0 + 1 .. m, h[j].kind = "set", h[j].value = level,
               \A k \in j + 1 .. m : h[k].kind # "set"
        PROVE  Leads(p, 0, real, level)
    <3>0. j \in 1 .. m
        OBVIOUS
    <3>1. CASE j <= n
      <4>1. j \in 1 .. m + 1 /\ p[j] = h[j]
          BY <1>1, <1>2, <3>0, <3>1
      <4>2. ASSUME NEW k \in j + 1 .. m + 1 PROVE p[k].kind # "set"
        <5>1. k \in 1 .. m + 1
            BY <1>2, <3>0
        <5>2. CASE k <= n /\ k \in 1 .. m /\ p[k] = h[k]
          <6>1. k \in j + 1 .. m
              BY <1>2, <3>0, <5>2
          <6> QED BY <2>2, <5>2, <6>1
        <5>3. CASE k > n + 1 /\ k - 1 \in 1 .. m /\ p[k] = h[k - 1]
          <6>1. k - 1 \in j + 1 .. m
              BY <1>2, <3>0, <3>1, <5>3
          <6> QED BY <2>2, <5>3, <6>1
        <5> QED BY <1>3, <5>1, <5>2, <5>3
      <4> QED BY <1>1, <2>2, <4>1, <4>2 DEF Leads
    <3>2. CASE j > n
      <4>1. j + 1 \in n + 2 .. m + 1 /\ (j + 1) - 1 = j /\ j + 1 \in 1 .. m + 1
          BY <1>2, <3>0, <3>2
      <4>2. p[j + 1] = h[j]
        <5>1. p[j + 1] = h[(j + 1) - 1]
            BY <1>1, <4>1
        <5> QED BY <4>1, <5>1
      <4>3. ASSUME NEW k \in (j + 1) + 1 .. m + 1 PROVE p[k].kind # "set"
        <5>1. k \in n + 2 .. m + 1 /\ k - 1 \in j + 1 .. m
            BY <1>2, <3>0, <3>2
        <5> QED BY <1>1, <2>2, <5>1
      <4>4. p[j + 1].kind = "set" /\ p[j + 1].value = level
          BY <2>2, <4>2
      <4> DEFINE l == j + 1
      <4>5. /\ l \in 0 + 1 .. m + 1 /\ p[l].kind = "set" /\ p[l].value = level
            /\ \A k \in l + 1 .. m + 1 : p[k].kind # "set"
          BY <4>1, <4>3, <4>4
      <4> HIDE DEF l
      <4> QED BY <1>1, <4>5 DEF Leads
    <3> QED BY <1>2, <3>0, <3>1, <3>2
  <2> QED BY <1>5, <2>1, <2>2 DEF Leads, m
<1> QED BY <1>1, <1>4, <1>5 DEF InTime, p, m

\* A level that is due no earlier than all before it is the one that stays.
LEMMA PutLevel ==
    ASSUME NEW h \in Seq(Edge), NEW e \in Edge, e.kind = "set",
           NEW behind \in Int, InTime(h, behind), e.in >= behind
    PROVE  InTime(Put(h, e), e.in) /\ \A real : Leads(Put(h, e), 0, real, e.value)
<1> DEFINE m == Len(h)
           p == Put(h, e)
<1>1. PICK n \in 0 .. m :
        /\ Len(p) = m + 1
        /\ \A i \in 1 .. n : p[i] = h[i]
        /\ p[n + 1] = e
        /\ \A i \in n + 2 .. m + 1 : p[i] = h[i - 1] /\ h[i - 1].in > e.in
    BY PutMembers
<1>2. m \in Nat /\ e.in \in Int
    BY DEF Edge
<1>3. \A i \in 1 .. m : h[i].in \in Int /\ (h[i].kind = "set" => h[i].in <= behind)
  <2>1. \A i \in 1 .. m : h[i] \in Edge
      OBVIOUS
  <2>2. \A f \in Edge : f.in \in Int
      BY DEF Edge
  <2> QED BY <2>1, <2>2 DEF InTime
<1> HIDE DEF p, m
<1>4. ASSUME NEW i \in n + 2 .. m + 1 PROVE p[i].kind # "set"
  <2>1. i - 1 \in 1 .. m
      BY <1>2
  <2>2. p[i] = h[i - 1] /\ h[i - 1].in > e.in
      BY <1>1
  <2>3. h[i - 1].in \in Int /\ (h[i - 1].kind = "set" => h[i - 1].in <= behind)
      BY <1>3, <2>1
  <2> DEFINE g == h[i - 1]
             x == g.in
             y == e.in
  <2>4. x > y /\ x \in Int /\ y \in Int /\ y >= behind /\ (g.kind = "set" => x <= behind)
      BY <1>2, <2>2, <2>3
  <2> HIDE DEF g, x, y
  <2>5. g.kind # "set"
      BY <2>4
  <2> QED BY <2>2, <2>5 DEF g
<1>5. ASSUME NEW i \in 1 .. m + 1, p[i].kind = "set" PROVE p[i].in <= e.in
  <2>1. CASE i <= n
    <3>1. i \in 1 .. m /\ i \in 1 .. n
        BY <1>2, <2>1
    <3>2. p[i] = h[i] /\ h[i].in \in Int /\ h[i].in <= behind
        BY <1>1, <1>3, <1>5, <3>1
    <3> DEFINE x == h[i].in
               y == e.in
    <3>3. x \in Int /\ x <= behind /\ y \in Int /\ y >= behind
        BY <1>2, <3>2
    <3> HIDE DEF x, y
    <3>4. x <= y
        BY <3>3
    <3> QED BY <3>2, <3>4 DEF x, y
  <2>2. CASE i = n + 1
      BY <1>1, <1>2, <2>2
  <2>3. CASE i > n + 1
    <3>1. i \in n + 2 .. m + 1
        BY <1>2, <2>3
    <3> QED BY <1>4, <1>5, <3>1
  <2> QED BY <1>2, <2>1, <2>2, <2>3
<1>6. ASSUME NEW real PROVE Leads(p, 0, real, e.value)
  <2> DEFINE j == n + 1
  <2>1. j \in 0 + 1 .. m + 1 /\ \A k \in j + 1 .. m + 1 : k \in n + 2 .. m + 1
      BY <1>2
  <2>2. /\ p[j].kind = "set" /\ p[j].value = e.value
        /\ \A k \in j + 1 .. m + 1 : p[k].kind # "set"
      BY <1>1, <1>4, <2>1
  <2> HIDE DEF j
  <2> QED BY <1>1, <2>1, <2>2 DEF Leads
<1> QED BY <1>1, <1>5, <1>6 DEF InTime, p

\* What poll makes of the level as it pops an event.
Lit(real, depth) == IF depth > 0 THEN 1 - real ELSE real
Sight(real, glitching, visible, count) ==
    [real |-> real, glitching |-> glitching, visible |-> visible, edges |-> count]

LEMMA SeenIs ==
    ASSUME NEW e \in Edge, NEW real, NEW depth \in Int, NEW visible, NEW count
    PROVE  LET real1 == IF e.kind = "set" THEN e.value ELSE real
               lit == Lit(real1, depth + Turn(e))
           IN  Seen(Sight(real, depth, visible, count), e) =
                   Sight(real1, depth + Turn(e), lit, count + (IF lit # visible THEN 1 ELSE 0))
<1> DEFINE s == Sight(real, depth, visible, count)
           real1 == IF e.kind = "set" THEN e.value ELSE real
           depth1 == depth + Turn(e)
           t == Sight(real1, depth1, visible, count)
           lit == Lit(real1, depth1)
           count1 == count + (IF lit # visible THEN 1 ELSE 0)
<1>1. e.kind \in {"set", "on", "off"}
    BY DEF Edge
<1>2. Applied(s, e) = t
  <2>1. CASE e.kind = "set"
    <3> DEFINE v == e.value
    <3>1. Applied(s, e) = [s EXCEPT !.real = v]
        BY <2>1 DEF Applied
    <3>2. [s EXCEPT !.real = v] = Sight(v, depth, visible, count)
        BY DEF Sight
    <3>3. real1 = v /\ depth1 = depth
        BY <2>1 DEF Turn
    <3> HIDE DEF v, s, real1, depth1
    <3> QED BY <3>1, <3>2, <3>3
  <2>2. CASE e.kind = "on"
    <3>1. Applied(s, e) = [s EXCEPT !.glitching = @ + 1]
        BY <2>2 DEF Applied
    <3> DEFINE x == depth + 1
    <3>2. s.glitching = depth /\ real1 = real /\ depth1 = x
        BY <2>2 DEF Turn, Sight
    <3>4. [s EXCEPT !.glitching = @ + 1] = [s EXCEPT !.glitching = x]
        BY <3>2
    <3> HIDE DEF x, real1, depth1
    <3>3. [s EXCEPT !.glitching = x] = Sight(real, x, visible, count)
        BY DEF Sight
    <3> HIDE DEF s
    <3> QED BY <3>1, <3>2, <3>3, <3>4
  <2>3. CASE e.kind = "off"
    <3>1. Applied(s, e) = [s EXCEPT !.glitching = @ - 1]
        BY <2>3 DEF Applied
    <3> DEFINE x == depth - 1
    <3>2. s.glitching = depth /\ real1 = real /\ depth1 = x
        BY <2>3 DEF Turn, Sight
    <3>4. [s EXCEPT !.glitching = @ - 1] = [s EXCEPT !.glitching = x]
        BY <3>2
    <3> HIDE DEF x, real1, depth1
    <3>3. [s EXCEPT !.glitching = x] = Sight(real, x, visible, count)
        BY DEF Sight
    <3> HIDE DEF s
    <3> QED BY <3>1, <3>2, <3>3, <3>4
  <2> QED BY <1>1, <2>1, <2>2, <2>3
<1>3. Visible(t) = lit /\ s.visible = visible /\ t.edges = count
    BY DEF Visible, Lit, Sight
<1>4. Seen(s, e) = [t EXCEPT !.visible = lit, !.edges = count1]
  <2>1. Seen(s, e) = [t EXCEPT !.visible = Visible(t),
                               !.edges = @ + (IF Visible(t) # s.visible THEN 1 ELSE 0)]
      BY <1>2 DEF Seen
  <2> HIDE DEF s, t, lit
  <2>2. Seen(s, e) = [t EXCEPT !.visible = lit,
                               !.edges = t.edges + (IF lit # visible THEN 1 ELSE 0)]
      BY <1>3, <2>1
  <2> QED BY <1>3, <2>2
<1> DEFINE u == Sight(real1, depth1, lit, count)
<1> HIDE DEF real1, depth1, lit, count1
<1>5. [t EXCEPT !.visible = lit] = u /\ [u EXCEPT !.edges = count1] = Sight(real1, depth1, lit, count1)
    BY DEF Sight
<1> HIDE DEF t, u
<1>6. [t EXCEPT !.visible = lit, !.edges = count1] = [[t EXCEPT !.visible = lit] EXCEPT !.edges = count1]
    OBVIOUS
<1>7. Seen(s, e) = Sight(real1, depth1, lit, count1)
    BY <1>4, <1>5, <1>6
<1> QED BY <1>7 DEF s, real1, depth1, lit, count1

\* One event less on its way.
LEMMA LeadsOn ==
    ASSUME NEW h, Len(h) \in Nat, NEW i \in 1 .. Len(h), NEW real, NEW level, Leads(h, i - 1, real, level)
    PROVE  Leads(h, i, IF h[i].kind = "set" THEN h[i].value ELSE real, level)
<1> DEFINE m == Len(h)
           real1 == IF h[i].kind = "set" THEN h[i].value ELSE real
<1>1. (i - 1) + 1 = i /\ i \in i .. m /\ \A k \in i + 1 .. m : k \in i .. m
    OBVIOUS
<1> HIDE DEF m
<1>2. CASE real = level /\ \A k \in i .. m : h[k].kind # "set"
  <2>1. real1 = level /\ \A k \in i + 1 .. m : h[k].kind # "set"
      BY <1>1, <1>2
  <2> HIDE DEF real1
  <2> QED BY <2>1 DEF Leads, m, real1
<1>3. ASSUME NEW j \in i .. m, h[j].kind = "set", h[j].value = level,
             \A k \in j + 1 .. m : h[k].kind # "set"
      PROVE  Leads(h, i, real1, level)
  <2>1. CASE j = i
    <3>1. real1 = level /\ \A k \in i + 1 .. m : h[k].kind # "set"
        BY <1>3, <2>1
    <3> HIDE DEF real1
    <3> QED BY <3>1 DEF Leads, m
  <2>2. CASE j # i
    <3>1. j \in i + 1 .. m
        BY <2>2 DEF m
    <3> HIDE DEF real1
    <3> QED BY <1>3, <3>1 DEF Leads, m
  <2> QED BY <2>1, <2>2
<1>4. \/ real = level /\ \A k \in i .. m : h[k].kind # "set"
      \/ \E j \in i .. m : /\ h[j].kind = "set" /\ h[j].value = level
                           /\ \A k \in j + 1 .. m : h[k].kind # "set"
    BY <1>1 DEF Leads, m
<1> QED BY <1>2, <1>3, <1>4

\* What is not due is the rest of the heap.
LEMMA LeadsRest ==
    ASSUME NEW h, Len(h) \in Nat, NEW n \in 0 .. Len(h), NEW r, Len(r) = Len(h) - n,
           \A i \in 1 .. Len(h) - n : r[i] = h[n + i],
           NEW real, NEW level, Leads(h, n, real, level)
    PROVE  Leads(r, 0, real, level)
<1> DEFINE m == Len(h)
<1>1. CASE real = level /\ \A k \in n + 1 .. m : h[k].kind # "set"
  <2>1. \A k \in 0 + 1 .. m - n : n + k \in n + 1 .. m
      OBVIOUS
  <2>2. ASSUME NEW k \in 0 + 1 .. Len(r) PROVE r[k].kind # "set"
    <3>1. k \in 1 .. m - n /\ n + k \in n + 1 .. m
        OBVIOUS
    <3>2. r[k] = h[n + k] /\ h[n + k].kind # "set"
        BY <1>1, <3>1
    <3> QED BY <3>2
  <2> QED BY <1>1, <2>2 DEF Leads
<1>2. ASSUME NEW j \in n + 1 .. m, h[j].kind = "set", h[j].value = level,
             \A k \in j + 1 .. m : h[k].kind # "set"
      PROVE  Leads(r, 0, real, level)
  <2> DEFINE l == j - n
  <2>1. l \in 0 + 1 .. m - n /\ n + l = j /\ \A k \in l + 1 .. m - n : n + k \in j + 1 .. m /\ k \in 1 .. m - n
      OBVIOUS
  <2>2. r[l] = h[j]
    <3>1. r[l] = h[n + l]
        BY <2>1
    <3> QED BY <2>1, <3>1
  <2>3. \A k \in l + 1 .. Len(r) : r[k].kind # "set"
      BY <1>2, <2>1
  <2> HIDE DEF l
  <2> QED BY <1>2, <2>1, <2>2, <2>3 DEF Leads
<1> QED BY <1>1, <1>2 DEF Leads

LEMMA BalancedRest ==
    ASSUME NEW h, Len(h) \in Nat, NEW n \in 0 .. Len(h), NEW r, Len(r) = Len(h) - n,
           \A i \in 1 .. Len(h) - n : r[i] = h[n + i],
           NEW d, Depths(d, h)
    PROVE  Balanced(r, d[n], d[Len(h)])
<1> DEFINE m == Len(h)
           f == [i \in 0 .. m - n |-> d[n + i]]
<1>1. /\ \A i \in 0 .. m : d[i] \in Int
      /\ \A i \in 1 .. m : d[i] = d[i - 1] + Turn(h[i])
    BY DEF Depths
<1>2. f \in [0 .. m - n -> Int] /\ \A i \in 0 .. m - n : f[i] = d[n + i]
  <2>1. \A i \in 0 .. m - n : n + i \in 0 .. m
      OBVIOUS
  <2> QED BY <1>1, <2>1
<1> HIDE DEF f
<1>3. ASSUME NEW i \in 1 .. m - n PROVE f[i] = f[i - 1] + Turn(r[i])
  <2>1. /\ n + i \in 1 .. m /\ i \in 0 .. m - n /\ i - 1 \in 0 .. m - n
        /\ n + (i - 1) = (n + i) - 1
      OBVIOUS
  <2> DEFINE j == n + i
  <2>2. d[j] = d[j - 1] + Turn(h[j])
    <3> HIDE DEF j
    <3>1. j \in 1 .. m
        BY <2>1 DEF j
    <3> QED BY <1>1, <3>1
  <2>3. f[i] = d[n + i] /\ f[i - 1] = d[n + (i - 1)] /\ r[i] = h[n + i]
      BY <1>2, <2>1
  <2> QED BY <2>1, <2>2, <2>3
<1>4. f[0] = d[n] /\ f[m - n] = d[m]
  <2>1. 0 \in 0 .. m - n /\ m - n \in 0 .. m - n /\ n + 0 = n /\ n + (m - n) = m
      OBVIOUS
  <2>2. f[0] = d[n + 0] /\ f[m - n] = d[n + (m - n)]
      BY <1>2, <2>1
  <2> QED BY <2>1, <2>2
<1> QED BY <1>2, <1>3, <1>4 DEF Balanced, Depths

\* A poll: the level it leaves, and whether it saw an edge.
LEMMA SeenAll ==
    ASSUME NEW h \in Seq(Edge), NEW n \in 0 .. Len(h), Split(h, n),
           NEW real \in {0, 1}, NEW depth \in Int, Balanced(h, depth, 0), NEW level
    PROVE  \E real1 \in {0, 1}, depth1 \in Int, count \in Nat :
              /\ Over(Seen, Sight(real, depth, Lit(real, depth), 0), Due(h)) =
                    Sight(real1, depth1, Lit(real1, depth1), count)
              /\ count = 0 => Lit(real1, depth1) = Lit(real, depth)
              /\ Balanced(NotDue(h), depth1, 0)
              /\ Leads(h, 0, real, level) => Leads(NotDue(h), 0, real1, level)
<1> DEFINE q == Due(h)
           r == NotDue(h)
           s == Sight(real, depth, Lit(real, depth), 0)
           leads == Leads(h, 0, real, level)
<1>1. /\ Len(h) \in Nat /\ n \in Nat /\ Len(q) = n /\ \A i \in 1 .. n : q[i] = h[i]
      /\ Len(r) = Len(h) - n /\ \A i \in 1 .. Len(h) - n : r[i] = h[n + i]
    BY DEF Split
<1>2. PICK d : Depths(d, h) /\ d[0] = depth /\ d[Len(h)] = 0
    BY DEF Balanced
<1> HIDE DEF q, r, leads
<1>3. PICK g : Folded(g, "seen", s, q) /\ Over(Seen, s, q) = g[Len(q)]
    BY <1>1, FoldSeen
<1>4. g[0] = s /\ \A i \in 1 .. n : g[i] = Seen(g[i - 1], h[i])
    BY <1>1, <1>3, StepKinds DEF Folded
<1> DEFINE Good(i) == \E x \in {0, 1}, c \in Nat :
                         /\ g[i] = Sight(x, d[i], Lit(x, d[i]), c)
                         /\ c = 0 => Lit(x, d[i]) = Lit(real, depth)
                         /\ leads => Leads(h, i, x, level)
           S == {i \in 0 .. n : Good(i)}
<1>5. 0 \in S
  <2>1. g[0] = Sight(real, d[0], Lit(real, d[0]), 0) /\ (leads => Leads(h, 0, real, level))
      BY <1>2, <1>4 DEF leads
  <2>2. Good(0)
      BY <1>2, <2>1
  <2> HIDE DEF Good
  <2> QED BY <1>1, <2>2
<1>6. ASSUME NEW i \in 1 .. n, i - 1 \in S PROVE i \in S
  <2> DEFINE e == h[i]
             a == d[i - 1]
  <2>1. PICK x \in {0, 1}, c \in Nat :
           /\ g[i - 1] = Sight(x, a, Lit(x, a), c)
           /\ c = 0 => Lit(x, a) = Lit(real, depth)
           /\ leads => Leads(h, i - 1, x, level)
      BY <1>6
  <2>2. i \in 1 .. Len(h) /\ i - 1 \in 0 .. Len(h)
      BY <1>1
  <2>3. e \in Edge /\ a \in Int /\ d[i] = a + Turn(e)
      BY <1>2, <2>2 DEF Depths
  <2> DEFINE x1 == IF e.kind = "set" THEN e.value ELSE x
             lit == Lit(x1, a + Turn(e))
             c1 == c + (IF lit # Lit(x, a) THEN 1 ELSE 0)
  <2>4. g[i] = Seen(Sight(x, a, Lit(x, a), c), e)
      BY <1>4, <2>1
  <2>5. x1 \in {0, 1}
      BY <2>3 DEF Edge
  <2>6. leads => Leads(h, i, x1, level)
      BY <1>1, <2>1, <2>2, LeadsOn
  <2>10. c1 \in Nat /\ (c1 = 0 => c = 0 /\ lit = Lit(x, a))
      OBVIOUS
  <2> HIDE DEF e, a
  <2>7. g[i] = Sight(x1, a + Turn(e), lit, c1)
      BY <2>3, <2>4, SeenIs
  <2> HIDE DEF x1, c1
  <2>8. g[i] = Sight(x1, d[i], Lit(x1, d[i]), c1) /\ lit = Lit(x1, d[i])
      BY <2>3, <2>7
  <2>9. Good(i)
      BY <2>1, <2>5, <2>6, <2>8, <2>10
  <2> HIDE DEF Good
  <2> QED BY <2>9
<1>7. 0 .. n \subseteq S
  <2> HIDE DEF S
  <2> QED BY <1>1, <1>5, <1>6, Induct
<1>8. Good(n)
    BY <1>1, <1>7
<1>9. PICK x \in {0, 1}, c \in Nat :
         /\ g[n] = Sight(x, d[n], Lit(x, d[n]), c)
         /\ c = 0 => Lit(x, d[n]) = Lit(real, depth)
         /\ leads => Leads(h, n, x, level)
    BY <1>8
<1>10. d[n] \in Int
    BY <1>2 DEF Depths
<1>11. Balanced(r, d[n], 0)
    BY <1>1, <1>2, BalancedRest
<1>12. leads => Leads(r, 0, x, level)
    BY <1>1, <1>9, LeadsRest
<1>13. Over(Seen, s, q) = Sight(x, d[n], Lit(x, d[n]), c)
    BY <1>1, <1>3, <1>9
<1> DEFINE y == d[n]
<1>14. y \in Int /\ Balanced(r, y, 0) /\ Over(Seen, s, q) = Sight(x, y, Lit(x, y), c)
       /\ (c = 0 => Lit(x, y) = Lit(real, depth))
    BY <1>9, <1>10, <1>11, <1>13
<1> HIDE DEF y
<1> QED BY <1>12, <1>14 DEF q, r, leads

\* The level last sent is what the heap leads to, if that was not lost, and the pulses end.
Carried(h, behind, sent, real, depth, lost) ==
    /\ InTime(h, behind) /\ Balanced(h, depth, 0)
    /\ ~lost => Leads(h, 0, real, sent)

LEMMA LevelCarried ==
    ASSUME NEW w \in Cable, NEW real, NEW depth, NEW lost,
           Carried(w.heap, w.behind, w.sent, real, depth, lost),
           NEW level \in {0, 1}, NEW fate \in EdgeFates
    PROVE  LET v == SendLevel(w, level, fate)
           IN  Carried(v.heap, v.behind, v.sent, real, depth, IF level = w.sent THEN lost ELSE fate.lost)
<1> DEFINE v == SendLevel(w, level, fate)
           gone == IF level = w.sent THEN lost ELSE fate.lost
           Goal == Carried(v.heap, v.behind, v.sent, real, depth, gone)
<1>0. w.heap \in Seq(Edge) /\ w.behind \in Nat
    BY WireIs
<1>1. CASE level = w.sent
  <2>1. v = w /\ (gone = lost)
      BY <1>1, LevelSent
  <2> HIDE DEF v, gone
  <2>2. Carried(v.heap, v.behind, v.sent, real, depth, lost)
      BY <2>1
  <2> QED BY <2>1, <2>2 DEF v, gone
<1>2. CASE level # w.sent /\ fate.lost
  <2>1. v = Wire(level, w.behind, w.heap, w.frames) /\ (gone = fate.lost)
      BY <1>2, LevelSent
  <2> HIDE DEF v, gone
  <2>2. v.heap = w.heap /\ v.behind = w.behind
      BY <2>1 DEF Wire
  <2>3. Goal
      BY <1>2, <2>1, <2>2 DEF Carried
  <2> QED BY <2>3 DEF v, gone
<1>3. CASE level # w.sent /\ ~fate.lost
  <2>1. \E in \in Nat :
          /\ in >= w.behind /\ [in |-> in, kind |-> "set", value |-> level] \in Edge
          /\ v = Wire(level, in, Put(w.heap, [in |-> in, kind |-> "set", value |-> level]), w.frames)
      BY <1>3, LevelSent
  <2> HIDE DEF v
  <2>2. PICK in \in Nat :
          /\ in >= w.behind /\ [in |-> in, kind |-> "set", value |-> level] \in Edge
          /\ v = Wire(level, in, Put(w.heap, [in |-> in, kind |-> "set", value |-> level]), w.frames)
      BY <2>1
  <2> DEFINE e == [in |-> in, kind |-> "set", value |-> level]
             h == Put(w.heap, e)
  <2>3. e \in Edge /\ e.kind = "set" /\ e.in = in /\ e.value = level /\ Turn(e) = 0
      BY <2>2 DEF Turn
  <2>4. v = Wire(level, in, h, w.frames)
      BY <2>2
  <2> HIDE DEF e, h
  <2>5. v.heap = h /\ v.behind = in /\ v.sent = level
      BY <2>4 DEF Wire
  <2>6. InTime(w.heap, w.behind) /\ Balanced(w.heap, depth, 0)
      BY DEF Carried
  <2>7. InTime(h, e.in) /\ Leads(h, 0, real, e.value)
    <3>1. w.behind \in Int /\ e.in >= w.behind
        BY <1>0, <2>2, <2>3
    <3> QED BY <1>0, <2>3, <2>6, <3>1, PutLevel DEF h
  <2>8. Balanced(h, depth, 0)
    <3>1. Balanced(h, depth, 0 + Turn(e))
        BY <1>0, <2>3, <2>6, PutBalanced DEF h
    <3>2. 0 + Turn(e) = 0
        BY <2>3
    <3> QED BY <3>1, <3>2
  <2>9. Goal
      BY <2>3, <2>5, <2>7, <2>8 DEF Carried
  <2> QED BY <2>9 DEF v
<1> QED BY <1>1, <1>2, <1>3

\* Frames do not disturb the levels, but those to come are behind them.
LEMMA FramesLeaveLevels ==
    ASSUME NEW w \in Cable, NEW real, NEW depth, NEW lost,
           Carried(w.heap, w.behind, w.sent, real, depth, lost),
           NEW s, Len(s) \in Nat, \A i \in 1 .. Len(s) : s[i] \in Sent
    PROVE  LET v == Over(CarryFrame, w, s)
           IN  Carried(v.heap, v.behind, v.sent, real, depth, lost)
<1>1. PICK g : Folded(g, "carried", w, s) /\ Over(CarryFrame, w, s) = g[Len(s)]
    BY FoldCarried
<1>2. g[0] = w /\ \A i \in 1 .. Len(s) : g[i] = CarryFrame(g[i - 1], s[i])
    BY <1>1, StepKinds DEF Folded
<1> DEFINE Good(v) == v \in Cable /\ Carried(v.heap, v.behind, v.sent, real, depth, lost)
           S == {i \in 0 .. Len(s) : Good(g[i])}
<1>3. 0 \in S
    BY <1>2
<1>4. ASSUME NEW i \in 1 .. Len(s), i - 1 \in S PROVE i \in S
  <2> DEFINE v == g[i - 1]
             u == g[i]
             c == s[i]
  <2>1. Good(v) /\ u = CarryFrame(v, c) /\ c \in Sent
      BY <1>2, <1>4
  <2> HIDE DEF v, u, c
  <2>2. u \in Cable
      BY <2>1, FrameSent
  <2>3. CASE c.fate.lost
      BY <2>1, <2>3, FrameSent DEF u
  <2>4. CASE ~c.fate.lost
    <3>1. \E in \in Nat :
            LET f == [in |-> in, seq |-> c.seq, bits |-> Flipped(FrameBits(c.seq), c.fate.flip)]
            IN  /\ f \in OnWire /\ in >= v.behind
                /\ CarryFrame(v, c) = Wire(v.sent, in, v.heap, Append(v.frames, f))
        BY <2>1, <2>4, FrameSent
    <3>2. PICK in \in Nat :
            LET f == [in |-> in, seq |-> c.seq, bits |-> Flipped(FrameBits(c.seq), c.fate.flip)]
            IN  /\ f \in OnWire /\ in >= v.behind
                /\ CarryFrame(v, c) = Wire(v.sent, in, v.heap, Append(v.frames, f))
        BY <3>1
    <3> DEFINE f == [in |-> in, seq |-> c.seq, bits |-> Flipped(FrameBits(c.seq), c.fate.flip)]
               q == Append(v.frames, f)
    <3>3. u = Wire(v.sent, in, v.heap, q)
        BY <2>1, <3>2
    <3> HIDE DEF q
    <3>4. u.sent = v.sent /\ u.behind = in /\ u.heap = v.heap
        BY <3>3 DEF Wire
    <3>5. InTime(v.heap, v.behind) => InTime(v.heap, in)
      <4>1. v.heap \in Seq(Edge) /\ v.behind \in Nat
          BY <2>1, WireIs
      <4> DEFINE h == v.heap
                 b == v.behind
      <4>2. \A k \in 1 .. Len(h) : h[k].in \in Int
        <5>1. \A k \in 1 .. Len(h) : h[k] \in Edge
            BY <4>1
        <5>2. \A e \in Edge : e.in \in Int
            BY DEF Edge
        <5> QED BY <5>1, <5>2
      <4>3. b \in Nat /\ in >= b
          BY <3>2, <4>1
      <4> HIDE DEF h, b
      <4>4. InTime(h, b) => InTime(h, in)
          BY <4>2, <4>3 DEF InTime
      <4> QED BY <4>4 DEF h, b
    <3>6. Good(u)
        BY <2>1, <2>2, <3>4, <3>5 DEF Carried
    <3> HIDE DEF Good
    <3> QED BY <3>6 DEF u
  <2> QED BY <2>3, <2>4
<1>5. 0 .. Len(s) \subseteq S
  <2> HIDE DEF S
  <2> QED BY <1>3, <1>4, Induct
<1>6. Good(g[Len(s)])
    BY <1>5
<1> QED BY <1>1, <1>6

\* A pulse comes and goes.
LEMMA PulseCarried ==
    ASSUME NEW h \in Seq(Edge), NEW behind, NEW sent, NEW real, NEW depth, NEW lost,
           Carried(h, behind, sent, real, depth, lost), NEW t \in Int
    PROVE  Carried(WithPulse(h, t), behind, sent, real, depth, lost)
<1> DEFINE a == PulseOn(t)
           b == PulseOff(t)
           p == Put(h, a)
           q == Put(p, b)
<1>1. a \in Edge /\ b \in Edge /\ p \in Seq(Edge)
    BY PulseEdges, PulseType
<1>2. a.kind # "set" /\ b.kind # "set" /\ Turn(a) = 1 /\ Turn(b) = -1
    BY DEF PulseOn, PulseOff, Turn
<1>3. q = WithPulse(h, t)
    BY DEF WithPulse
<1> HIDE DEF a, b
<1>4. InTime(p, behind) /\ (~lost => Leads(p, 0, real, sent))
    BY <1>1, <1>2, PutPulse DEF Carried
<1>5. Balanced(p, depth, 0 + Turn(a))
    BY <1>1, PutBalanced DEF Carried
<1> HIDE DEF p
<1>6. InTime(q, behind) /\ (~lost => Leads(q, 0, real, sent))
    BY <1>1, <1>2, <1>4, PutPulse
<1>7. Balanced(q, depth, (0 + Turn(a)) + Turn(b))
    BY <1>1, <1>5, PutBalanced
<1>8. (0 + Turn(a)) + Turn(b) = 0
    BY <1>2
<1> QED BY <1>3, <1>6, <1>7, <1>8 DEF Carried

LEMMA GlitchesCarried ==
    ASSUME NEW h \in Seq(Edge), NEW behind, NEW sent, NEW real, NEW depth, NEW lost,
           Carried(h, behind, sent, real, depth, lost), sincePoll \in Nat, NEW times
    PROVE  Carried(Glitched(h, times), behind, sent, real, depth, lost)
<1>1. PICK g : Pulsed(g, h, times) /\ Glitched(h, times) = g[sincePoll]
    BY Pulses
<1>2. /\ g[0] = h /\ \A n \in 0 .. sincePoll : g[n] \in Seq(Edge)
      /\ \A n \in 1 .. sincePoll :
            g[n] = IF n - sincePoll \in times THEN WithPulse(g[n - 1], n - sincePoll) ELSE g[n - 1]
    BY <1>1 DEF Pulsed
<1> DEFINE Good(p) == Carried(p, behind, sent, real, depth, lost)
           S == {n \in 0 .. sincePoll : Good(g[n])}
<1>3. 0 \in S
    BY <1>2
<1>4. ASSUME NEW n \in 1 .. sincePoll, n - 1 \in S PROVE n \in S
  <2> DEFINE p == g[n - 1]
             t == n - sincePoll
  <2>1. Good(p) /\ p \in Seq(Edge) /\ t \in Int
        /\ (g[n] = IF t \in times THEN WithPulse(p, t) ELSE p)
      BY <1>2, <1>4
  <2> HIDE DEF p, t
  <2>2. Good(g[n])
      BY <2>1, PulseCarried
  <2> HIDE DEF Good
  <2> QED BY <2>2
<1>5. 0 .. sincePoll \subseteq S
  <2> HIDE DEF S
  <2> QED BY <1>3, <1>4, Induct
<1>6. Good(g[sincePoll])
    BY <1>5
<1> QED BY <1>1, <1>6

\* What the cable shows and what B believes, and what is on its way.
Settling ==
    /\ sight = Sight(sight.real, sight.glitching, Lit(sight.real, sight.glitching), 0)
    /\ sight.real \in {0, 1} /\ sight.glitching \in Int
    /\ edges.rx \in Nat /\ (edges.rx > 0 => rx_level = Lit(sight.real, sight.glitching))
    /\ Carried(wire.heap, wire.behind, wire.sent, sight.real, sight.glitching, edgeLost)

LEMMA SettlingInit == SimInit => Settling
<1> SUFFICES ASSUME SimInit PROVE Settling
    OBVIOUS
<1>1. PICK level \in {0, 1} :
        /\ wire = [sent |-> level, behind |-> 0, heap |-> <<>>, frames |-> <<>>]
        /\ sight = [real |-> level, glitching |-> 0, visible |-> level, edges |-> 0]
    BY DEF SimInit
<1>2. edges = [rx |-> 0, reported |-> 0]
    BY DEF SimInit
<1>3. /\ wire.sent = level /\ wire.behind = 0 /\ wire.heap = <<>>
      /\ sight = Sight(level, 0, Lit(level, 0), 0) /\ sight.real = level /\ sight.glitching = 0
      /\ edges.rx = 0
    BY <1>1, <1>2 DEF Sight, Lit
<1>4. InTime(<<>>, 0) /\ Leads(<<>>, 0, level, level)
    BY DEF InTime, Leads
<1>5. Balanced(<<>>, 0, 0)
  <2> DEFINE d == [i \in 0 .. 0 |-> 0]
  <2>1. Len(<<>>) = 0 /\ d \in [0 .. 0 -> Int] /\ d[0] = 0
      OBVIOUS
  <2> HIDE DEF d
  <2>2. Depths(d, <<>>) /\ d[0] = 0 /\ d[Len(<<>>)] = 0
      BY <2>1 DEF Depths
  <2> QED BY <2>2 DEF Balanced
<1> QED BY <1>3, <1>4, <1>5 DEF Settling, Carried

LEMMA SettlingA ==
    ASSUME Wired, Settling, StepA
    PROVE  Settling'
<1>0. PICK due \in (SUBSET Phases) \ {{}} :
        \E edge \in Fates("blink" \in due, EdgeFates),
           burst \in [1 .. FramesPerBurst -> Fates("burst" \in due, FrameFates)] :
        LET blinked == IF "blink" \in due THEN SendLevel(wire, 1 - wire.sent, edge) ELSE wire
            frames == [i \in 1 .. FramesPerBurst |-> [seq |-> tx_seq + i - 1, fate |-> burst[i]]]
        IN  /\ Operate(Cardinality(due))
            /\ wire' = IF "burst" \in due THEN Over(CarryFrame, blinked, frames) ELSE blinked
            /\ edgeLost' = IF "blink" \in due THEN edge.lost ELSE edgeLost
    BY ZenonT(30) DEF StepA
<1>1. PICK edge \in Fates("blink" \in due, EdgeFates),
           burst \in [1 .. FramesPerBurst -> Fates("burst" \in due, FrameFates)] :
        LET blinked == IF "blink" \in due THEN SendLevel(wire, 1 - wire.sent, edge) ELSE wire
            frames == [i \in 1 .. FramesPerBurst |-> [seq |-> tx_seq + i - 1, fate |-> burst[i]]]
        IN  /\ Operate(Cardinality(due))
            /\ wire' = IF "burst" \in due THEN Over(CarryFrame, blinked, frames) ELSE blinked
            /\ edgeLost' = IF "blink" \in due THEN edge.lost ELSE edgeLost
    BY <1>0
<1> DEFINE blinked == IF "blink" \in due THEN SendLevel(wire, 1 - wire.sent, edge) ELSE wire
           frames == [i \in 1 .. FramesPerBurst |-> [seq |-> tx_seq + i - 1, fate |-> burst[i]]]
           n == Cardinality(due)
           Good(w, lost) == Carried(w.heap, w.behind, w.sent, sight.real, sight.glitching, lost)
<1>2. wire \in Cable /\ wire.sent \in {0, 1} /\ Good(wire, edgeLost)
    BY WireIs DEF Wired, Settling
<1>3. n \in Nat /\ n >= 1 /\ Operate(n)
    BY <1>1, PhasesCount
<1>4. blinked \in Cable /\ Good(blinked, edgeLost')
  <2>1. CASE "blink" \in due
    <3> DEFINE level == 1 - wire.sent
               v == SendLevel(wire, level, edge)
               gone == IF level = wire.sent THEN edgeLost ELSE edge.lost
    <3>1. edge \in EdgeFates /\ level \in {0, 1} /\ level # wire.sent
        BY <1>2, <2>1 DEF Fates
    <3>2. edgeLost' = edge.lost /\ gone = edge.lost /\ blinked = v
        BY <1>1, <2>1, <3>1
    <3> HIDE DEF level
    <3>3. v \in Cable /\ Good(v, gone)
        BY <1>2, <3>1, LevelSent, LevelCarried
    <3> HIDE DEF Good, v, gone
    <3>4. gone = edgeLost'
        BY <3>2
    <3> QED BY <3>2, <3>3, <3>4
  <2>2. CASE "blink" \notin due
    <3>1. blinked = wire /\ edgeLost' = edgeLost
        BY <1>1, <2>2
    <3> HIDE DEF blinked
    <3> QED BY <1>2, <3>1
  <2> QED BY <2>1, <2>2
<1>5. wire' = IF "burst" \in due THEN Over(CarryFrame, blinked, frames) ELSE blinked
    BY <1>1
<1> HIDE DEF n, blinked
<1>6. Good(wire', edgeLost')
  <2>1. CASE "burst" \in due
    <3>1. burst \in [1 .. FramesPerBurst -> FrameFates]
        BY <2>1 DEF Fates
    <3>2. Len(frames) = FramesPerBurst /\ \A i \in 1 .. FramesPerBurst : frames[i] \in Sent
        BY <1>3, <1>4, <3>1, BurstSent
    <3> HIDE DEF frames
    <3>3. Len(frames) \in Nat /\ \A i \in 1 .. Len(frames) : frames[i] \in Sent
        BY <3>2, SimSizes
    <3> DEFINE lost == edgeLost'
               v == Over(CarryFrame, blinked, frames)
    <3>4. Good(blinked, lost)
        BY <1>4
    <3>6. wire' = v
        BY <1>5, <2>1
    <3> HIDE DEF lost
    <3>5. Good(v, lost)
        BY <1>4, <3>3, <3>4, FramesLeaveLevels
    <3> HIDE DEF v
    <3> QED BY <3>5, <3>6 DEF lost
  <2>2. CASE "burst" \notin due
      BY <1>4, <1>5, <2>2
  <2> QED BY <2>1, <2>2
<1>7. sight' = sight /\ edges' = edges /\ rx_level' = rx_level
    BY DEF StepA, nodeB
<1> QED BY <1>6, <1>7 DEF Settling

LEMMA SettlingB ==
    ASSUME Wired, Settling, StepB
    PROVE  Settling'
<1>1. PICK times \in SUBSET (1 - sincePoll .. 0) :
        LET heap == Glitched(wire.heap, times)
            seen == Over(Seen, [sight EXCEPT !.edges = 0], Due(heap))
            count == edges.rx + seen.edges
        IN  /\ wire' = [wire EXCEPT !.heap = NotDue(heap), !.frames = NotDue(@)]
            /\ sight' = [seen EXCEPT !.edges = 0]
            /\ rx_level' = IF seen.edges > 0 THEN seen.visible ELSE rx_level
            /\ edges' = [rx |-> count, reported |-> count]
            /\ edgeLost' = edgeLost
    BY DEF StepB
<1> DEFINE heap == Glitched(wire.heap, times)
           seen == Over(Seen, [sight EXCEPT !.edges = 0], Due(heap))
           rest == NotDue(heap)
           real == sight.real
           depth == sight.glitching
<1>2. /\ wire = Wire(wire.sent, wire.behind, wire.heap, wire.frames)
      /\ wire.heap \in Seq(Edge) /\ sincePoll \in Nat
    BY WireIs DEF Wired
<1>3. /\ sight = Sight(real, depth, Lit(real, depth), 0)
      /\ real \in {0, 1} /\ depth \in Int
      /\ edges.rx \in Nat /\ (edges.rx > 0 => rx_level = Lit(real, depth))
      /\ Carried(wire.heap, wire.behind, wire.sent, real, depth, edgeLost)
    BY DEF Settling
<1> HIDE DEF real, depth
<1>4. heap \in Seq(Edge) /\ Carried(heap, wire.behind, wire.sent, real, depth, edgeLost)
    BY <1>2, <1>3, GlitchedType, GlitchesCarried
<1>5. [sight EXCEPT !.edges = 0] = Sight(real, depth, Lit(real, depth), 0)
    BY <1>3 DEF Sight
<1> HIDE DEF heap
<1>6. PICK n \in 0 .. Len(heap) : Split(heap, n)
  <2>1. \A i \in 1 .. Len(heap) : heap[i].in \in Int
    <3>1. \A i \in 1 .. Len(heap) : heap[i] \in Edge
        BY <1>4
    <3>2. \A e \in Edge : e.in \in Int
        BY DEF Edge
    <3> QED BY <3>1, <3>2
  <2> QED BY <1>4, <2>1, DueLaws
<1>7. PICK real1 \in {0, 1}, depth1 \in Int, count \in Nat :
         /\ Over(Seen, Sight(real, depth, Lit(real, depth), 0), Due(heap)) =
               Sight(real1, depth1, Lit(real1, depth1), count)
         /\ count = 0 => Lit(real1, depth1) = Lit(real, depth)
         /\ Balanced(rest, depth1, 0)
         /\ Leads(heap, 0, real, wire.sent) => Leads(rest, 0, real1, wire.sent)
  <2>1. Balanced(heap, depth, 0)
      BY <1>4 DEF Carried
  <2> QED BY <1>3, <1>4, <1>6, <2>1, SeenAll
<1>8. seen = Sight(real1, depth1, Lit(real1, depth1), count)
    BY <1>5, <1>7
<1> HIDE DEF seen
<1>9. /\ wire' = [wire EXCEPT !.heap = rest, !.frames = NotDue(@)]
      /\ sight' = [seen EXCEPT !.edges = 0]
      /\ rx_level' = IF seen.edges > 0 THEN seen.visible ELSE rx_level
      /\ edges' = [rx |-> edges.rx + seen.edges, reported |-> edges.rx + seen.edges]
      /\ edgeLost' = edgeLost
    BY <1>1 DEF heap, seen
<1>10. seen.edges = count /\ seen.visible = Lit(real1, depth1)
    BY <1>8 DEF Sight
<1>11. sight' = Sight(real1, depth1, Lit(real1, depth1), 0)
    BY <1>8, <1>9 DEF Sight
<1>12. sight'.real = real1 /\ sight'.glitching = depth1
    BY <1>11 DEF Sight
<1>13. edges'.rx = edges.rx + count
    BY <1>9, <1>10
<1> HIDE DEF rest
<1>14. wire'.heap = rest /\ wire'.behind = wire.behind /\ wire'.sent = wire.sent
  <2> DEFINE frames == NotDue(wire.frames)
             w1 == Wire(wire.sent, wire.behind, rest, wire.frames)
             w2 == Wire(wire.sent, wire.behind, rest, frames)
  <2>0. wire' = [wire EXCEPT !.heap = rest, !.frames = frames]
      BY <1>9
  <2> HIDE DEF frames
  <2>1. [wire EXCEPT !.heap = rest] = w1 /\ [w1 EXCEPT !.frames = frames] = w2
      BY <1>2 DEF Wire
  <2> HIDE DEF w1, w2
  <2>2. [wire EXCEPT !.heap = rest, !.frames = frames] = [[wire EXCEPT !.heap = rest] EXCEPT !.frames = frames]
      OBVIOUS
  <2>3. wire' = w2
      BY <2>0, <2>1, <2>2
  <2> QED BY <2>3 DEF w2, Wire
<1>15. InTime(rest, wire.behind)
  <2>1. \A i \in 1 .. Len(heap) : heap[i].kind = "set" => heap[i].in <= wire.behind
      BY <1>4 DEF Carried, InTime
  <2>2. /\ Len(heap) \in Nat /\ Len(rest) = Len(heap) - n
        /\ \A i \in 1 .. Len(heap) - n : rest[i] = heap[n + i]
      BY <1>4, <1>6 DEF Split, rest
  <2>3. ASSUME NEW i \in 1 .. Len(rest), rest[i].kind = "set" PROVE rest[i].in <= wire.behind
    <3>1. n + i \in 1 .. Len(heap) /\ rest[i] = heap[n + i]
        BY <2>2
    <3> QED BY <2>1, <2>3, <3>1
  <2> QED BY <2>3 DEF InTime
<1>16. ~edgeLost' => Leads(rest, 0, real1, wire.sent)
    BY <1>4, <1>7, <1>9 DEF Carried
<1>17. ASSUME edges'.rx > 0 PROVE rx_level' = Lit(real1, depth1)
  <2>1. CASE count > 0
      BY <1>9, <1>10, <2>1
  <2>2. CASE count = 0
    <3>1. edges.rx > 0 /\ rx_level' = rx_level
        BY <1>3, <1>9, <1>10, <1>13, <1>17, <2>2
    <3> QED BY <1>3, <1>7, <2>2, <3>1
  <2> QED BY <2>1, <2>2
<1>18. edges'.rx \in Nat
    BY <1>3, <1>13
<1>19. Carried(wire'.heap, wire'.behind, wire'.sent, sight'.real, sight'.glitching, edgeLost')
    BY <1>7, <1>12, <1>14, <1>15, <1>16 DEF Carried
<1> QED BY <1>11, <1>12, <1>17, <1>18, <1>19 DEF Settling

LEMMA SettlingTick ==
    ASSUME Wired, Settling, Tick
    PROVE  Settling'
<1>1. /\ wire = Wire(wire.sent, wire.behind, wire.heap, wire.frames)
      /\ wire.behind \in Nat /\ wire.heap \in Seq(Edge)
    BY WireIs DEF Wired
<1> DEFINE h == wire.heap
           b == wire.behind
           behind == IF b > 0 THEN b - 1 ELSE 0
           heap == Nearer(h)
           frames == Nearer(wire.frames)
<1>2. wire' = [wire EXCEPT !.behind = behind, !.heap = heap, !.frames = frames]
    BY DEF Tick
<1>3. /\ h \in Seq(Edge) /\ heap \in Seq(Edge) /\ Len(heap) = Len(h)
      /\ \A i \in 1 .. Len(h) : /\ heap[i].in = h[i].in - 1 /\ heap[i].kind = h[i].kind
                                /\ heap[i].value = h[i].value
    BY <1>1, NearerEdges
<1> HIDE DEF heap, frames
<1>4. wire'.heap = heap /\ wire'.behind = behind /\ wire'.sent = wire.sent
  <2> HIDE DEF behind, h, b
  <2> DEFINE w1 == Wire(wire.sent, behind, wire.heap, wire.frames)
             w2 == Wire(wire.sent, behind, heap, wire.frames)
             w3 == Wire(wire.sent, behind, heap, frames)
  <2>1. /\ [wire EXCEPT !.behind = behind] = w1
        /\ [w1 EXCEPT !.heap = heap] = w2 /\ [w2 EXCEPT !.frames = frames] = w3
      BY <1>1 DEF Wire
  <2> HIDE DEF w1, w2, w3
  <2>2. [wire EXCEPT !.behind = behind, !.heap = heap, !.frames = frames] =
          [[[wire EXCEPT !.behind = behind] EXCEPT !.heap = heap] EXCEPT !.frames = frames]
      OBVIOUS
  <2>3. wire' = w3
      BY <1>2, <2>1, <2>2
  <2> QED BY <2>3 DEF w3, Wire
<1>5. sight' = sight /\ edges' = edges /\ rx_level' = rx_level /\ edgeLost' = edgeLost
    BY DEF Tick, nodeB, wireHistory
<1>6. Carried(h, b, wire.sent, sight.real, sight.glitching, edgeLost) /\ b \in Nat
    BY <1>1 DEF Settling
<1>7. \A i \in 1 .. Len(h) : h[i].in \in Int
  <2>1. \A i \in 1 .. Len(h) : h[i] \in Edge
      BY <1>3
  <2>2. \A e \in Edge : e.in \in Int
      BY DEF Edge
  <2> QED BY <2>1, <2>2
<1> HIDE DEF h, b
<1>8. InTime(heap, behind)
  <2> SUFFICES ASSUME NEW i \in 1 .. Len(heap), heap[i].kind = "set" PROVE heap[i].in <= behind
      BY DEF InTime
  <2>1. i \in 1 .. Len(h) /\ h[i].kind = "set" /\ heap[i].in = h[i].in - 1
      BY <1>3
  <2>2. h[i].in <= b /\ h[i].in \in Int
      BY <1>6, <1>7, <2>1 DEF Carried, InTime
  <2> DEFINE x == h[i].in
  <2>3. x \in Int /\ x <= b /\ heap[i].in = x - 1
      BY <2>1, <2>2
  <2> HIDE DEF x
  <2> QED BY <1>6, <2>3
<1>9. Balanced(heap, sight.glitching, 0)
  <2>1. PICK d : Depths(d, h) /\ d[0] = sight.glitching /\ d[Len(h)] = 0
      BY <1>6 DEF Carried, Balanced
  <2>2. \A i \in 1 .. Len(h) : Turn(heap[i]) = Turn(h[i])
      BY <1>3 DEF Turn
  <2>3. Depths(d, heap)
      BY <1>3, <2>1, <2>2 DEF Depths
  <2> QED BY <1>3, <2>1, <2>3 DEF Balanced
<1>10. Leads(h, 0, sight.real, wire.sent) => Leads(heap, 0, sight.real, wire.sent)
  <2>1. Len(h) \in Nat
      BY <1>3
  <2> QED BY <1>3, <2>1 DEF Leads
<1>11. Carried(heap, behind, wire.sent, sight.real, sight.glitching, edgeLost)
    BY <1>6, <1>8, <1>9, <1>10 DEF Carried
<1> HIDE DEF behind
<1> QED BY <1>4, <1>5, <1>11 DEF Settling

LEMMA SettlingNext ==
    ASSUME Wired, Settling, [SimNext]_simVars
    PROVE  Settling'
<1>0. wire \in Cable /\ Carried(wire.heap, wire.behind, wire.sent, sight.real, sight.glitching, edgeLost)
    BY DEF Wired, Settling
<1>1. ASSUME NEW level \in {0, 1}, NEW fate \in EdgeFates,
             wire' = SendLevel(wire, level, fate), edgeLost' = EdgeLost(level, fate),
             sight' = sight, edges' = edges, rx_level' = rx_level
      PROVE  Settling'
  <2> DEFINE v == SendLevel(wire, level, fate)
             gone == IF level = wire.sent THEN edgeLost ELSE fate.lost
             real == sight.real
             depth == sight.glitching
  <2>1. Carried(v.heap, v.behind, v.sent, real, depth, gone)
    <3> HIDE DEF real, depth
    <3>1. Carried(wire.heap, wire.behind, wire.sent, real, depth, edgeLost)
        BY <1>0 DEF real, depth
    <3> QED BY <1>0, <3>1, LevelCarried
  <2>2. v = wire' /\ gone = edgeLost'
      BY <1>1 DEF EdgeLost
  <2> HIDE DEF v, gone
  <2>3. Carried(wire'.heap, wire'.behind, wire'.sent, real, depth, edgeLost')
      BY <2>1, <2>2
  <2> QED BY <1>1, <2>3 DEF Settling
<1>2. CASE SetGpio
  <2>1. \E level \in {0, 1}, fate \in EdgeFates :
           wire' = SendLevel(wire, level, fate) /\ edgeLost' = EdgeLost(level, fate)
      BY <1>2 DEF SetGpio
  <2>2. sight' = sight /\ edges' = edges /\ rx_level' = rx_level
      BY <1>2 DEF SetGpio, nodeB
  <2> QED BY <1>1, <2>1, <2>2
<1>3. CASE StepA
    BY <1>3, SettlingA
<1>4. CASE StepB
    BY <1>4, SettlingB
<1>5. CASE RebootA
  <2>1. \E fate \in EdgeFates : wire' = SendLevel(wire, 0, fate) /\ edgeLost' = EdgeLost(0, fate)
      BY <1>5 DEF RebootA
  <2>2. sight' = sight /\ edges' = edges /\ rx_level' = rx_level
      BY <1>5 DEF RebootA, nodeB
  <2> QED BY <1>1, <2>1, <2>2
<1>6. CASE RebootB
    BY <1>6 DEF RebootB, cable, Settling
<1>7. CASE Tick
    BY <1>7, SettlingTick
<1>8. CASE UNCHANGED simVars
    BY <1>8 DEF simVars, cable, nodeB, wireHistory, Settling
<1> QED BY <1>2, <1>3, <1>4, <1>5, <1>6, <1>7, <1>8 DEF SimNext

LEMMA SettledLevel == Wired /\ Settling => LevelSettles
<1> SUFFICES ASSUME Settling, wire.heap = <<>>, ~edgeLost, edges.rx > 0 PROVE rx_level = wire.sent
    BY DEF LevelSettles
<1>1. rx_level = Lit(sight.real, sight.glitching) /\ sight.glitching \in Int
    BY DEF Settling
<1>2. Balanced(<<>>, sight.glitching, 0) /\ Leads(<<>>, 0, sight.real, wire.sent)
    BY DEF Settling, Carried
<1>3. Len(<<>>) = 0
    OBVIOUS
<1>4. sight.glitching = 0
    BY <1>2, <1>3 DEF Balanced
<1>5. sight.real = wire.sent
    BY <1>2, <1>3 DEF Leads
<1> QED BY <1>1, <1>4, <1>5 DEF Lit

\* When nothing is on its way any more, B believes the level last sent, unless that very
\* edge was lost or B has never seen an edge: no jitter makes an older level the last, and
\* every pulse that began has ended.
THEOREM LevelDoesSettle == SimSpec => []LevelSettles
<1>1. SimInit => Wired /\ Settling
    BY WiredInit, SettlingInit
<1>2. ASSUME Wired, Settling, [SimNext]_simVars PROVE Wired' /\ Settling'
    BY <1>2, WiredNext, SettlingNext
<1>3. Wired /\ Settling /\ [SimNext]_simVars => Wired' /\ Settling'
    BY <1>2
<1>4. Wired /\ Settling => LevelSettles
    BY SettledLevel
<1> QED BY <1>1, <1>3, <1>4, PTL DEF SimSpec
=============================================================================
