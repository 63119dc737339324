------------------------ MODULE BrowserSessionProofs ------------------------
(***************************************************************************)
(* What travels to the frontend and what it shows, proved for every set of *)
(* images, of event sequences and of bounds.  The first part is about      *)
(* EventStream alone: what a piece of the wire spells, where it is cut,    *)
(* which lines it has, and what is kept of it.  The second part says of a  *)
(* request that reads that it has handed out a prefix of the script and    *)
(* keeps the symbols behind it, and that every piece preserves that.  The  *)
(* third part is the state of App.jsx.                                     *)
(***************************************************************************)
EXTENDS BrowserSession, SequenceTheorems, FunctionTheorems, FiniteSetTheorems,
        WellFoundedInduction, TLAPS

(* A set of places that is not empty has a last one.                       *)
LEMMA Greatest ==
    ASSUME NEW k \in Nat, NEW S, S \subseteq 1 .. k, S # {}
    PROVE  /\ Max(S) \in S /\ \A y \in S : Max(S) >= y
           /\ \A x \in S : (\A y \in S : x >= y) => Max(S) = x
<1> DEFINE T == {k - i : i \in S}
<1>1. T \subseteq Nat /\ T # {}
  <2>1. ASSUME NEW i \in S PROVE k - i \in Nat
    OBVIOUS
  <2> QED BY <2>1
<1>2. PICK t \in T : \A y \in T : ~ (<<y, t>> \in OpToRel(<, Nat))
  <2> HIDE DEF T
  <2> QED BY <1>1, NatLessThanWellFounded, WFMin
<1>3. \A y \in T : ~ (y < t)
  <2> HIDE DEF T
  <2> QED BY <1>1, <1>2 DEF OpToRel
<1>4. PICK x \in S : t = k - x
  BY <1>2
<1>5. \A y \in S : x >= y
  <2> SUFFICES ASSUME NEW y \in S PROVE x >= y
    OBVIOUS
  <2>1. k - y \in T
    OBVIOUS
  <2>2. ~ (k - y < k - x)
    BY <1>3, <1>4, <2>1
  <2> QED BY <2>2
<1>6. \A y, z \in S : (y >= z /\ z >= y) => y = z
  OBVIOUS
<1> QED
  BY <1>5, <1>6 DEF Max

(* The places f[1] < ... < f[b], counted.                                  *)
Increasing(f, b) ==
    /\ \A j \in 1 .. b : f[j] \in Int
    /\ \A i, j \in 1 .. b : i < j => f[i] < f[j]

(* A set that is counted upwards by f has f[k] as its k-th place.          *)
LEMMA Ranks ==
    ASSUME NEW b \in Nat, NEW f, Increasing(f, b), NEW S, S = {f[j] : j \in 1 .. b}
    PROVE  Cardinality(S) = b /\ \A k \in 1 .. b : Nth(S, k) = f[k]
<1>0. /\ \A j \in 1 .. b : f[j] \in Int
      /\ \A i, j \in 1 .. b : i < j => f[i] < f[j]
  BY DEF Increasing
<1> USE <1>0
<1>1. ASSUME NEW k \in 0 .. b PROVE Cardinality({f[j] : j \in 1 .. k}) = k
  <2>1. k \in Nat /\ 1 .. k \subseteq 1 .. b
    OBVIOUS
  <2>2. PICK P : P = 1 .. k
    OBVIOUS
  <2>3. PICK R : R = {f[j] : j \in P}
    OBVIOUS
  <2>4. PICK g : g = [j \in P |-> f[j]]
    OBVIOUS
  <2>5. \A j \in P : g[j] = f[j] /\ f[j] \in R
    BY <2>3, <2>4
  <2>6. g \in [P -> R]
    BY <2>4, <2>5
  <2>7. \A i, j \in P : g[i] = g[j] => i = j
    <3> SUFFICES ASSUME NEW i \in P, NEW j \in P, g[i] = g[j], i # j PROVE FALSE
      OBVIOUS
    <3>1. i \in 1 .. b /\ j \in 1 .. b /\ f[i] = f[j]
      BY <2>1, <2>2, <2>5
    <3>2. i < j \/ j < i
      BY <3>1
    <3>3. f[i] \in Int /\ f[j] \in Int
      BY <3>1
    <3> QED BY <3>1, <3>2, <3>3
  <2>8. \A y \in R : \E j \in P : g[j] = y
    <3> SUFFICES ASSUME NEW y \in R PROVE \E j \in P : g[j] = y
      OBVIOUS
    <3>1. PICK j \in P : y = f[j]
      BY <2>3
    <3> QED BY <2>5, <3>1
  <2>9. g \in Bijection(P, R)
    BY <2>6, <2>7, <2>8, Fun_IsBij
  <2>10. IsFiniteSet(P) /\ Cardinality(P) = k
    BY <2>1, <2>2, FS_Interval
  <2>11. ExistsBijection(P, R)
    BY <2>9 DEF ExistsBijection
  <2>12. Cardinality(R) = k
    BY <2>10, <2>11, FS_Bijection
  <2> QED BY <2>2, <2>3, <2>12
<1>2. Cardinality(S) = b
  BY <1>1
<1>3. ASSUME NEW k \in 1 .. b PROVE Cardinality({j \in S : j <= f[k]}) = k
  <2>1. \A j \in 1 .. b : f[j] <= f[k] <=> j <= k
    <3> SUFFICES ASSUME NEW j \in 1 .. b PROVE f[j] <= f[k] <=> j <= k
      OBVIOUS
    <3>1. f[j] \in Int /\ f[k] \in Int /\ (j < k \/ j = k \/ k < j)
      OBVIOUS
    <3>2. (j < k => f[j] < f[k]) /\ (k < j => f[k] < f[j])
      OBVIOUS
    <3> QED BY <3>1, <3>2
  <2>2. {j \in S : j <= f[k]} = {f[j] : j \in 1 .. k}
    <3>1. ASSUME NEW y \in S, y <= f[k] PROVE y \in {f[j] : j \in 1 .. k}
      <4>1. PICK j \in 1 .. b : y = f[j]
        OBVIOUS
      <4>2. j \in 1 .. k
        BY <2>1, <3>1, <4>1
      <4> QED BY <4>1, <4>2
    <3>2. ASSUME NEW j \in 1 .. k PROVE f[j] \in S /\ f[j] <= f[k]
      <4>1. j \in 1 .. b
        OBVIOUS
      <4> QED BY <2>1, <4>1
    <3> QED BY <3>1, <3>2
  <2> QED BY <1>1, <2>2
<1>4. ASSUME NEW k \in 1 .. b PROVE Nth(S, k) = f[k]
  <2>1. f[k] \in S /\ Cardinality({j \in S : j <= f[k]}) = k
    BY <1>3
  <2>2. PICK x : x = Nth(S, k)
    OBVIOUS
  <2>3. x \in S /\ Cardinality({j \in S : j <= x}) = k
    BY <2>1, <2>2 DEF Nth
  <2>4. PICK m \in 1 .. b : x = f[m]
    BY <2>3
  <2>5. m = k
    BY <1>3, <2>3, <2>4
  <2> QED BY <2>2, <2>4, <2>5
<1> QED
  BY <1>2, <1>4

(* The places 1 .. b are counted upwards by themselves.                    *)
LEMMA IntervalRanks ==
    ASSUME NEW b \in Nat
    PROVE  Cardinality(1 .. b) = b /\ \A k \in 1 .. b : Nth(1 .. b, k) = k
<1>1. PICK f : f = [j \in 1 .. b |-> j]
  OBVIOUS
<1>2. \A j \in 1 .. b : f[j] = j /\ f[j] \in Int
  BY <1>1
<1>3. Increasing(f, b)
  BY <1>2 DEF Increasing
<1>4. PICK S : S = {f[j] : j \in 1 .. b}
  OBVIOUS
<1>5. Cardinality(S) = b /\ \A k \in 1 .. b : Nth(S, k) = f[k]
  BY <1>3, <1>4, Ranks
<1>6. S = 1 .. b
  BY <1>2, <1>4
<1> QED
  BY <1>2, <1>5, <1>6

(* u is s and then r, of n and m places.                                   *)
Joined(S, s, n, r, m, u) ==
    /\ s \in Seq(S) /\ n \in Nat /\ n = Len(s)
    /\ r \in Seq(S) /\ m \in Nat /\ m = Len(r) /\ u = s \o r

(* u has s at its first n places and r at the m places behind them.        *)
Abutting(S, s, n, r, m, u) ==
    /\ u \in Seq(S) /\ Len(u) = n + m
    /\ \A i \in 1 .. n : u[i] = s[i]
    /\ \A i \in 1 .. m : u[n + i] = r[i]

(* What \o puts where, as a shift of the second sequence.                  *)
LEMMA ConcatAt ==
    ASSUME NEW S, NEW s, NEW r, NEW u, NEW n, NEW m, Joined(S, s, n, r, m, u)
    PROVE  Abutting(S, s, n, r, m, u)
<1> USE DEF Joined, Abutting
<1>1. /\ u \in Seq(S) /\ Len(u) = n + m
      /\ \A i \in 1 .. n + m : u[i] = IF i <= n THEN s[i] ELSE r[i - n]
  BY ConcatProperties
<1>2. ASSUME NEW i \in 1 .. m PROVE u[n + i] = r[i]
  <2>1. n + i \in 1 .. n + m /\ ~ (n + i <= n) /\ (n + i) - n = i
    OBVIOUS
  <2> QED BY <1>1, <2>1
<1>3. ASSUME NEW i \in 1 .. n PROVE u[i] = s[i]
  <2>1. i \in 1 .. n + m /\ i <= n
    OBVIOUS
  <2> QED BY <1>1, <2>1
<1> QED
  BY <1>1, <1>2, <1>3

-----------------------------------------------------------------------------
(* What a server may send.                                                 *)
Sent == Progress \cup Results

(* A symbol is at the 4j-3rd to the 4jth place.                            *)
LEMMA Quarters ==
    ASSUME NEW i \in Nat, i >= 1
    PROVE  \E j \in Nat : j >= 1 /\ (i = 4 * j - 3 \/ i = 4 * j - 2 \/ i = 4 * j - 1 \/ i = 4 * j)
<1>1. PICK j : j = (i + 3) \div 4
  OBVIOUS
<1>2. j \in Nat /\ j >= 1 /\ (i = 4 * j - 3 \/ i = 4 * j - 2 \/ i = 4 * j - 1 \/ i = 4 * j)
  BY <1>1
<1> QED BY <1>2

(* The wire of a script: four symbols for each event, in its order.        *)
LEMMA WireFacts ==
    ASSUME NEW s \in Seq(Sent)
    PROVE  /\ Wire(s) \in Seq(Symbols) /\ Len(Wire(s)) = 4 * Len(s)
           /\ DOMAIN Wire(s) = 1 .. 4 * Len(s)
           /\ \A j \in 1 .. Len(s) :
                /\ Wire(s)[4 * j - 3] = <<s[j], 1>> /\ Wire(s)[4 * j - 2] = <<s[j], 2>>
                /\ Wire(s)[4 * j - 1] = LF /\ Wire(s)[4 * j] = LF
<1>1. PICK n \in Nat : n = Len(s)
  OBVIOUS
<1>2. PICK w : w = Wire(s)
  OBVIOUS
<1>3. \A i \in 1 .. 4 * n : w[i] = Written(s[(i + 3) \div 4])[((i + 3) % 4) + 1]
  BY <1>1, <1>2 DEF Wire
<1>4. DOMAIN w = 1 .. 4 * n /\ w = [i \in 1 .. 4 * n |-> w[i]]
  BY <1>1, <1>2 DEF Wire
<1>5. ASSUME NEW j \in 1 .. n
      PROVE  /\ w[4 * j - 3] = <<s[j], 1>> /\ w[4 * j - 2] = <<s[j], 2>>
             /\ w[4 * j - 1] = LF /\ w[4 * j] = LF
  <2>1. /\ 4 * j - 3 \in 1 .. 4 * n /\ 4 * j - 2 \in 1 .. 4 * n
        /\ 4 * j - 1 \in 1 .. 4 * n /\ 4 * j \in 1 .. 4 * n
    OBVIOUS
  <2>2. /\ (4 * j - 3 + 3) \div 4 = j /\ ((4 * j - 3 + 3) % 4) + 1 = 1
        /\ (4 * j - 2 + 3) \div 4 = j /\ ((4 * j - 2 + 3) % 4) + 1 = 2
        /\ (4 * j - 1 + 3) \div 4 = j /\ ((4 * j - 1 + 3) % 4) + 1 = 3
        /\ (4 * j + 3) \div 4 = j /\ ((4 * j + 3) % 4) + 1 = 4
    OBVIOUS
  <2>3. /\ w[4 * j - 3] = Written(s[j])[1] /\ w[4 * j - 2] = Written(s[j])[2]
        /\ w[4 * j - 1] = Written(s[j])[3] /\ w[4 * j] = Written(s[j])[4]
    BY <1>3, <2>1, <2>2
  <2> QED BY <2>3 DEF Written
<1>6. ASSUME NEW i \in 1 .. 4 * n PROVE w[i] \in Symbols
  <2>0. i \in Nat /\ i >= 1
    OBVIOUS
  <2>1. PICK j \in Nat : j >= 1 /\ (i = 4 * j - 3 \/ i = 4 * j - 2 \/ i = 4 * j - 1 \/ i = 4 * j)
    BY <2>0, Quarters
  <2>2. j \in 1 .. n
    BY <2>1
  <2>3. s[j] \in Sent
    BY <1>1, <2>2
  <2>4. <<s[j], 1>> \in Symbols /\ <<s[j], 2>> \in Symbols /\ LF \in Symbols
    BY <2>3 DEF Symbols, Sent
  <2> QED BY <1>5, <2>1, <2>2, <2>4
<1>7. w \in Seq(Symbols) /\ Len(w) = 4 * n
  <2>1. w \in [1 .. 4 * n -> Symbols]
    BY <1>4, <1>6
  <2> QED BY <2>1, <1>1, IsASeq
<1> QED BY <1>1, <1>2, <1>4, <1>5, <1>7

(* text is what Wire(s) has after the first c events.                      *)
Window(text, s, c) ==
    /\ s \in Seq(Sent) /\ text \in Seq(Symbols) /\ c \in Nat
    /\ 4 * c + Len(text) <= 4 * Len(s)
    /\ \A i \in 1 .. Len(text) : text[i] = Wire(s)[4 * c + i]

(* The first t symbols of text are those of the events behind the c-th.    *)
Spelled(text, s, c, t) ==
    \A j \in Nat \ {0} :
        /\ 4 * j - 3 <= t => c + j \in 1 .. Len(s) /\ text[4 * j - 3] = <<s[c + j], 1>>
        /\ 4 * j - 2 <= t => text[4 * j - 2] = <<s[c + j], 2>>
        /\ 4 * j - 1 <= t => text[4 * j - 1] = LF
        /\ 4 * j <= t => text[4 * j] = LF

(* It has b whole events.                                                  *)
Whole(text, b) == b \in Nat /\ b = Len(text) \div 4

(* A window of the wire spells out the events at which it begins.          *)
LEMMA WindowFacts ==
    ASSUME NEW text, NEW s, NEW c, Window(text, s, c), NEW t \in Nat, t = Len(text)
    PROVE  Spelled(text, s, c, t)
<1>1. PICK n \in Nat : n = Len(s)
  BY DEF Window
<1>2. PICK w : w = Wire(s)
  OBVIOUS
<1>3. /\ c \in Nat /\ 4 * c + t <= 4 * n
      /\ \A i \in 1 .. t : text[i] = w[4 * c + i]
  BY <1>1, <1>2 DEF Window
<1>4. \A j \in 1 .. n : /\ w[4 * j - 3] = <<s[j], 1>> /\ w[4 * j - 2] = <<s[j], 2>>
                        /\ w[4 * j - 1] = LF /\ w[4 * j] = LF
  BY <1>1, <1>2, WireFacts DEF Window
<1> SUFFICES ASSUME NEW j \in Nat \ {0}
             PROVE  /\ 4 * j - 3 <= t => c + j \in 1 .. n /\ text[4 * j - 3] = <<s[c + j], 1>>
                    /\ 4 * j - 2 <= t => text[4 * j - 2] = <<s[c + j], 2>>
                    /\ 4 * j - 1 <= t => text[4 * j - 1] = LF
                    /\ 4 * j <= t => text[4 * j] = LF
  BY <1>1 DEF Spelled
<1> SUFFICES ASSUME 4 * j - 3 <= t
             PROVE  /\ c + j \in 1 .. n /\ text[4 * j - 3] = <<s[c + j], 1>>
                    /\ 4 * j - 2 <= t => text[4 * j - 2] = <<s[c + j], 2>>
                    /\ 4 * j - 1 <= t => text[4 * j - 1] = LF
                    /\ 4 * j <= t => text[4 * j] = LF
  OBVIOUS
<1>5. c + j \in 1 .. n
  BY <1>3
<1>6. PICK k \in 1 .. n : k = c + j
  BY <1>5
<1>7. /\ w[4 * k - 3] = <<s[k], 1>> /\ w[4 * k - 2] = <<s[k], 2>>
      /\ w[4 * k - 1] = LF /\ w[4 * k] = LF
  BY <1>4
<1>8. /\ 4 * c + (4 * j - 3) = 4 * k - 3 /\ 4 * c + (4 * j - 2) = 4 * k - 2
      /\ 4 * c + (4 * j - 1) = 4 * k - 1 /\ 4 * c + 4 * j = 4 * k
  BY <1>3, <1>6
<1>9. /\ 4 * j - 3 \in 1 .. t
      /\ 4 * j - 2 <= t => 4 * j - 2 \in 1 .. t
      /\ 4 * j - 1 <= t => 4 * j - 1 \in 1 .. t
      /\ 4 * j <= t => 4 * j \in 1 .. t
  OBVIOUS
<1>10. text[4 * j - 3] = <<s[k], 1>>
  BY <1>3, <1>7, <1>8, <1>9
<1>11. 4 * j - 2 <= t => text[4 * j - 2] = <<s[k], 2>>
  BY <1>3, <1>7, <1>8, <1>9
<1>12. 4 * j - 1 <= t => text[4 * j - 1] = LF
  BY <1>3, <1>7, <1>8, <1>9
<1>13. 4 * j <= t => text[4 * j] = LF
  BY <1>3, <1>7, <1>8, <1>9
<1> QED
  BY <1>5, <1>6, <1>10, <1>11, <1>12, <1>13

(* The cuts are the third symbols of the events whose fourth has arrived.  *)
LEMMA CutFacts ==
    ASSUME NEW text, NEW s, NEW c, Window(text, s, c), NEW b, Whole(text, b)
    PROVE  /\ Cuts(text) = {4 * j - 1 : j \in 1 .. b}
           /\ Cardinality(Cuts(text)) = b
           /\ \A k \in 1 .. b : Nth(Cuts(text), k) = 4 * k - 1
<1>0. b \in Nat
  BY DEF Whole
<1> USE <1>0
<1>1. PICK t \in Nat : t = Len(text)
  BY DEF Window
<1>2. b \in Nat /\ 4 * b <= t /\ t < 4 * b + 4
  BY <1>1 DEF Whole
<1>3. \A j \in Nat \ {0} :
             /\ 4 * j - 3 <= t => text[4 * j - 3] = <<s[c + j], 1>>
             /\ 4 * j - 2 <= t => text[4 * j - 2] = <<s[c + j], 2>>
             /\ 4 * j - 1 <= t => text[4 * j - 1] = LF
             /\ 4 * j <= t => text[4 * j] = LF
  <2>1. Spelled(text, s, c, t)
    BY <1>1, WindowFacts
  <2> QED BY <2>1 DEF Spelled
<1>4. \A e : <<e, 1>> # LF /\ <<e, 2>> # LF
  BY DEF LF
<1>5. Cuts(text) = {i \in 1 .. t - 1 : text[i] = LF /\ text[i + 1] = LF}
  BY <1>1 DEF Cuts
<1>6. ASSUME NEW i \in 1 .. t - 1, text[i] = LF, text[i + 1] = LF
      PROVE  \E j \in 1 .. b : i = 4 * j - 1
  <2>1. i \in Nat /\ i >= 1
    OBVIOUS
  <2>2. PICK j \in Nat : j >= 1 /\ (i = 4 * j - 3 \/ i = 4 * j - 2 \/ i = 4 * j - 1 \/ i = 4 * j)
    BY <2>1, Quarters
  <2>3. CASE i = 4 * j - 3
    <3>1. j \in Nat \ {0} /\ 4 * j - 3 <= t
      BY <2>2, <2>3
    <3>2. text[i] = <<s[c + j], 1>>
      BY <1>3, <2>3, <3>1
    <3> QED BY <1>4, <1>6, <3>2
  <2>4. CASE i = 4 * j - 2
    <3>1. j \in Nat \ {0} /\ 4 * j - 2 <= t
      BY <2>2, <2>4
    <3>2. text[i] = <<s[c + j], 2>>
      BY <1>3, <2>4, <3>1
    <3> QED BY <1>4, <1>6, <3>2
  <2>5. CASE i = 4 * j - 1
    <3>1. j \in 1 .. b
      BY <1>2, <2>2, <2>5
    <3> QED BY <2>5, <3>1
  <2>6. CASE i = 4 * j
    <3>1. j + 1 \in Nat \ {0} /\ 4 * (j + 1) - 3 <= t /\ 4 * (j + 1) - 3 = i + 1
      BY <2>2, <2>6
    <3>2. text[i + 1] = <<s[c + (j + 1)], 1>>
      BY <1>3, <3>1
    <3> QED BY <1>4, <1>6, <3>2
  <2> QED BY <2>2, <2>3, <2>4, <2>5, <2>6
<1>7. ASSUME NEW j \in 1 .. b PROVE 4 * j - 1 \in Cuts(text)
  <2>1. j \in Nat \ {0} /\ 4 * j <= t /\ 4 * j - 1 <= t /\ (4 * j - 1) + 1 = 4 * j
    BY <1>2
  <2>2. text[4 * j - 1] = LF /\ text[4 * j] = LF
    BY <1>3, <2>1
  <2>3. 4 * j - 1 \in 1 .. t - 1
    BY <2>1
  <2> QED BY <1>5, <2>1, <2>2, <2>3
<1>8. Cuts(text) = {4 * j - 1 : j \in 1 .. b}
  <2>1. ASSUME NEW i \in Cuts(text) PROVE i \in {4 * j - 1 : j \in 1 .. b}
    BY <1>5, <1>6
  <2>2. ASSUME NEW i \in {4 * j - 1 : j \in 1 .. b} PROVE i \in Cuts(text)
    BY <1>7
  <2> QED BY <2>1, <2>2
<1>9. PICK f : f = [j \in 1 .. b |-> 4 * j - 1]
  OBVIOUS
<1>10. \A j \in 1 .. b : f[j] = 4 * j - 1 /\ f[j] \in Int
  BY <1>9
<1>11. \A i, j \in 1 .. b : i < j => f[i] < f[j]
  BY <1>10
<1>12. Cuts(text) = {f[j] : j \in 1 .. b}
  BY <1>8, <1>10
<1>13. Cardinality(Cuts(text)) = b /\ \A k \in 1 .. b : Nth(Cuts(text), k) = f[k]
  <2>1. Increasing(f, b)
    BY <1>10, <1>11 DEF Increasing
  <2> QED BY <1>12, <2>1, Ranks
<1> QED
  BY <1>8, <1>10, <1>13

(* The lines of a window are its whole events; all of them are data, and   *)
(* all of them parse.                                                      *)
LEMMA LineFacts ==
    ASSUME NEW text, NEW s, NEW c, Window(text, s, c), NEW b, Whole(text, b)
    PROVE  /\ Lines(text) = [k \in 1 .. b |-> << <<s[c + k], 1>>, <<s[c + k], 2>> >>]
           /\ \A k \in 1 .. b : s[c + k] \in Sent
<1>0. b \in Nat
  BY DEF Whole
<1> USE <1>0
<1>1. PICK t \in Nat : t = Len(text)
  BY DEF Window
<1>2. b \in Nat /\ 4 * b <= t /\ t < 4 * b + 4
  BY <1>1 DEF Whole
<1>3. /\ Cardinality(Cuts(text)) = b
      /\ \A k \in 1 .. b : Nth(Cuts(text), k) = 4 * k - 1
  BY CutFacts
<1>4. text \in Seq(Symbols) /\ s \in Seq(Sent)
  BY DEF Window
<1>5. ASSUME NEW k \in 1 .. b
      PROVE  /\ SubSeq(text, 4 * k - 3, 4 * k - 2) = << <<s[c + k], 1>>, <<s[c + k], 2>> >>
             /\ s[c + k] \in Sent
  <2>1. k \in Nat \ {0} /\ 4 * k - 3 <= t /\ 4 * k - 2 <= t
    BY <1>2
  <2>2. /\ c + k \in 1 .. Len(s)
        /\ text[4 * k - 3] = <<s[c + k], 1>> /\ text[4 * k - 2] = <<s[c + k], 2>>
    <3>1. Spelled(text, s, c, t)
      BY <1>1, WindowFacts
    <3> QED BY <2>1, <3>1 DEF Spelled
  <2>3. s[c + k] \in Sent
    BY <1>4, <2>2
  <2>4. SubSeq(text, 4 * k - 3, 4 * k - 2) = <<text[4 * k - 3], text[4 * k - 2]>>
    <3>1. PICK a \in Int : a = 4 * k - 3
      OBVIOUS
    <3>2. 4 * k - 2 = a + 1 /\ a \in 1 .. t /\ a + 1 \in 1 .. t
      BY <2>1, <3>1
    <3>3. \A i \in a .. a + 1 : text[i] \in Symbols
      BY <1>1, <1>4, <3>2
    <3>4. PICK v : v = SubSeq(text, a, a + 1)
      OBVIOUS
    <3>5. /\ v \in Seq(Symbols) /\ Len(v) = 2
          /\ \A i \in 1 .. 2 : v[i] = text[a + i - 1]
      BY <3>2, <3>3, <3>4, SubSeqProperties
    <3>6. v[1] = text[a] /\ v[2] = text[a + 1]
      <4>1. a + 1 - 1 = a /\ a + 2 - 1 = a + 1 /\ 1 \in 1 .. 2 /\ 2 \in 1 .. 2
        OBVIOUS
      <4> QED BY <3>5, <4>1
    <3>7. PICK x, y : x = v[1] /\ y = v[2]
      OBVIOUS
    <3>8. v = <<x, y>>
      <4>0. a \in a .. a + 1 /\ a + 1 \in a .. a + 1
        OBVIOUS
      <4>1. x \in Symbols /\ y \in Symbols
        BY <3>3, <3>6, <3>7, <4>0
      <4>2. PICK u : u = <<x, y>>
        OBVIOUS
      <4>3. u \in Seq(Symbols) /\ Len(u) = 2 /\ u[1] = x /\ u[2] = y
        BY <4>1, <4>2
      <4>4. \A i \in 1 .. 2 : i = 1 \/ i = 2
        OBVIOUS
      <4>5. u = v
        BY <3>5, <3>7, <4>3, <4>4, SeqEqual
      <4> QED BY <4>2, <4>5
    <3> QED BY <3>1, <3>2, <3>4, <3>6, <3>7, <3>8
  <2> QED BY <2>2, <2>3, <2>4
<1>6. PICK cuts : cuts = Cuts(text)
  OBVIOUS
<1>7. Lines(text) = [k \in 1 .. b |-> SubSeq(text, IF k = 1 THEN 1 ELSE Nth(cuts, k - 1) + 2,
                                             Nth(cuts, k) - 1)]
  BY <1>3, <1>6 DEF Lines
<1>8. ASSUME NEW k \in 1 .. b
      PROVE  /\ (IF k = 1 THEN 1 ELSE Nth(cuts, k - 1) + 2) = 4 * k - 3
             /\ Nth(cuts, k) - 1 = 4 * k - 2
  <2>1. Nth(cuts, k) = 4 * k - 1
    BY <1>3, <1>6
  <2>2. CASE k = 1
    BY <2>1, <2>2
  <2>3. CASE k # 1
    <3>1. k - 1 \in 1 .. b
      BY <2>3
    <3>2. Nth(cuts, k - 1) = 4 * (k - 1) - 1
      BY <1>3, <1>6, <3>1
    <3> QED BY <2>1, <2>3, <3>2
  <2> QED BY <2>2, <2>3
<1>9. \A k \in 1 .. b : SubSeq(text, IF k = 1 THEN 1 ELSE Nth(cuts, k - 1) + 2, Nth(cuts, k) - 1)
                          = << <<s[c + k], 1>>, <<s[c + k], 2>> >>
  BY <1>5, <1>8
<1> QED
  BY <1>5, <1>7, <1>9

(* The lines are the b events of s after the first c.                      *)
HandedOut(lines, s, c, b) ==
    /\ WholeEvents(lines) = lines
    /\ Events(lines) = [k \in 1 .. b |-> s[c + k]]
    /\ \A k \in 1 .. b : s[c + k] \in Sent

(* All lines of a window are data and parse, so its events come out.       *)
LEMMA ReadFacts ==
    ASSUME NEW text, NEW s, NEW c, Window(text, s, c), NEW b, Whole(text, b)
    PROVE  HandedOut(DataLines(Lines(text)), s, c, b)
<1> PICK lines : lines = DataLines(Lines(text))
  OBVIOUS
<1> SUFFICES HandedOut(lines, s, c, b)
  OBVIOUS
<1>0. b \in Nat
  BY DEF Whole
<1> USE <1>0
<1>1. PICK all : all = [k \in 1 .. b |-> << <<s[c + k], 1>>, <<s[c + k], 2>> >>]
  OBVIOUS
<1>2. Lines(text) = all /\ \A k \in 1 .. b : s[c + k] \in Sent
  BY <1>1, LineFacts
<1>3. DOMAIN all = 1 .. b
      /\ \A k \in 1 .. b : all[k] = << <<s[c + k], 1>>, <<s[c + k], 2>> >>
  BY <1>1
<1>4. \A k \in 1 .. b : /\ all[k][1] = <<s[c + k], 1>> /\ all[k] # <<>>
                        /\ all[k][1][1] = s[c + k] /\ all[k][1][2] = 1
  BY <1>3
<1>5. \A k \in 1 .. b : IsData(all[k]) /\ Parses(all[k])
  <2> SUFFICES ASSUME NEW k \in 1 .. b PROVE IsData(all[k]) /\ Parses(all[k])
    OBVIOUS
  <2>1. IsData(all[k])
    BY <1>4 DEF IsData
  <2>2. Parses(all[k])
    BY <1>3, <1>4 DEF Parses
  <2> QED BY <2>1, <2>2
<1>6. PICK D : D = 1 .. b
  OBVIOUS
<1>7. Cardinality(D) = b /\ \A k \in 1 .. b : Nth(D, k) = k
  BY <1>6, IntervalRanks
<1>8. lines = all
  <2>1. {k \in DOMAIN all : IsData(all[k])} = D
    BY <1>3, <1>5, <1>6
  <2>2. lines = At(all, D)
    BY <1>2, <2>1 DEF DataLines
  <2>3. At(all, D) = [k \in 1 .. b |-> all[Nth(D, k)]]
    BY <1>7 DEF At
  <2>4. \A k \in 1 .. b : all[Nth(D, k)] = all[k]
    BY <1>7
  <2>5. all = [k \in 1 .. b |-> all[k]]
    BY <1>1
  <2>6. [k \in 1 .. b |-> all[Nth(D, k)]] = [k \in 1 .. b |-> all[k]]
    BY <2>4
  <2> QED BY <2>2, <2>3, <2>5, <2>6
<1>9. WholeEvents(lines) = lines
  <2>1. {i \in DOMAIN all : \A j \in 1 .. i : Parses(all[j])} = D
    <3>1. ASSUME NEW i \in 1 .. b, NEW j \in 1 .. i PROVE Parses(all[j])
      <4>1. j \in 1 .. b
        OBVIOUS
      <4> QED BY <1>5, <4>1
    <3> QED BY <1>3, <1>6, <3>1
  <2>2. WholeEvents(lines) = SubSeq(all, 1, b)
    BY <1>7, <1>8, <2>1 DEF WholeEvents
  <2>3. PICK T : T = {all[k] : k \in 1 .. b}
    OBVIOUS
  <2>4. all \in Seq(T) /\ Len(all) = b
    <3>1. \A k \in 1 .. b : all[k] \in T
      BY <2>3
    <3>2. all \in [1 .. b -> T]
      BY <1>1, <1>3, <3>1
    <3> QED BY <3>2
  <2>5. SubSeq(all, 1, b) = all
    <3>1. PICK v : v = SubSeq(all, 1, b)
      OBVIOUS
    <3>2. \A i \in 1 .. b : all[i] \in T
      BY <2>4
    <3>3. /\ v \in Seq(T) /\ Len(v) = IF 1 <= b THEN b - 1 + 1 ELSE 0
          /\ \A i \in 1 .. b - 1 + 1 : v[i] = all[1 + i - 1]
      BY <3>1, <3>2, SubSeqProperties
    <3>4. Len(v) = b /\ \A i \in 1 .. b : v[i] = all[i]
      BY <3>3
    <3>5. v = all
      BY <2>4, <3>3, <3>4, SeqEqual
    <3> QED BY <3>1, <3>5
  <2> QED BY <1>8, <2>2, <2>5
<1>10. Events(lines) = [k \in 1 .. b |-> s[c + k]]
  BY <1>3, <1>4, <1>8 DEF Events
<1> QED
  BY <1>2, <1>9, <1>10 DEF HandedOut

(* rest is text behind its b whole events.                                 *)
Kept(rest, text, b) ==
    /\ rest \in Seq(Symbols) /\ Len(rest) = Len(text) - 4 * b
    /\ \A i \in 1 .. Len(text) - 4 * b : rest[i] = text[4 * b + i]

(* What lines.pop() leaves in the buffer.                                  *)
LEMMA RestFacts ==
    ASSUME NEW text, NEW s, NEW c, Window(text, s, c), NEW b, Whole(text, b)
    PROVE  Kept(Rest(text), text, b)
<1> USE DEF Kept
<1>0. b \in Nat
  BY DEF Whole
<1> USE <1>0
<1>1. PICK t \in Nat : t = Len(text)
  BY DEF Window
<1>2. b \in Nat /\ 4 * b <= t /\ t < 4 * b + 4
  BY <1>1 DEF Whole
<1>3. /\ Cuts(text) = {4 * j - 1 : j \in 1 .. b}
      /\ Cardinality(Cuts(text)) = b
      /\ \A k \in 1 .. b : Nth(Cuts(text), k) = 4 * k - 1
  BY CutFacts
<1>4. text \in Seq(Symbols)
  BY DEF Window
<1>5. CASE b = 0
  <2>1. Cuts(text) = {}
    BY <1>3, <1>5
  <2>2. Rest(text) = text
    BY <2>1 DEF Rest
  <2> QED BY <1>1, <1>4, <1>5, <2>2
<1>6. CASE b > 0
  <2>1. 4 * 1 - 1 \in Cuts(text)
    BY <1>3, <1>6
  <2>2. PICK m : m = Nth(Cuts(text), Cardinality(Cuts(text))) + 2
    OBVIOUS
  <2>3. m = 4 * b + 1
    BY <1>3, <1>6, <2>2
  <2>4. PICK v : v = SubSeq(text, 4 * b + 1, t)
    OBVIOUS
  <2>5. Rest(text) = v
    BY <1>1, <2>1, <2>2, <2>3, <2>4 DEF Rest
  <2>6. \A i \in 4 * b + 1 .. t : text[i] \in Symbols
    BY <1>1, <1>2, <1>4
  <2>7. /\ v \in Seq(Symbols)
        /\ Len(v) = IF 4 * b + 1 <= t THEN t - (4 * b + 1) + 1 ELSE 0
        /\ \A i \in 1 .. t - (4 * b + 1) + 1 : v[i] = text[(4 * b + 1) + i - 1]
    BY <1>2, <2>4, <2>6, SubSeqProperties
  <2>8. Len(v) = t - 4 * b
    <3>1. Len(v) = IF 4 * b + 1 <= t THEN t - (4 * b + 1) + 1 ELSE 0
      BY <2>7
    <3>2. CASE t = 4 * b
      <4>1. ~ (4 * b + 1 <= t) /\ t - 4 * b = 0
        BY <3>2
      <4> QED BY <3>1, <4>1
    <3>3. CASE t > 4 * b
      <4>1. 4 * b + 1 <= t /\ t - (4 * b + 1) + 1 = t - 4 * b
        BY <3>3
      <4> QED BY <3>1, <4>1
    <3> QED BY <1>2, <3>2, <3>3
  <2>9. ASSUME NEW i \in 1 .. t - 4 * b PROVE v[i] = text[4 * b + i]
    <3>1. i \in 1 .. t - (4 * b + 1) + 1 /\ (4 * b + 1) + i - 1 = 4 * b + i
      BY <1>2
    <3> QED BY <2>7, <3>1
  <2> QED BY <1>1, <2>5, <2>7, <2>8, <2>9
<1> QED
  BY <1>5, <1>6

-----------------------------------------------------------------------------
(* What is held is a result, or nothing.                                   *)
LEMMA LastResultType ==
    ASSUME NEW s \in Seq(Sent), NEW h \in Results \cup {"none"}
    PROVE  LastResult(s, h) \in Results \cup {"none"}
<1>1. PICK n \in Nat : n = Len(s)
  OBVIOUS
<1>2. PICK R : R = {i \in DOMAIN s : s[i] \in Results}
  OBVIOUS
<1>3. R \subseteq 1 .. n /\ \A i \in R : s[i] \in Results
  BY <1>1, <1>2
<1>4. LastResult(s, h) = IF R = {} THEN h ELSE s[Max(R)]
  BY <1>2 DEF LastResult
<1>5. CASE R = {}
  BY <1>4, <1>5
<1>6. CASE R # {}
  <2>1. Max(R) \in R
    BY <1>3, <1>6, Greatest
  <2> QED BY <1>3, <1>4, <1>6, <2>1
<1> QED
  BY <1>5, <1>6

(* What is held after events s and then events r.                          *)
LEMMA LastResultConcat ==
    ASSUME NEW s \in Seq(Sent), NEW r \in Seq(Sent), NEW h
    PROVE  LastResult(s \o r, h) = LastResult(r, LastResult(s, h))
<1>1. PICK n \in Nat : n = Len(s)
  OBVIOUS
<1>2. PICK m \in Nat : m = Len(r)
  OBVIOUS
<1>3. PICK u : u = s \o r
  OBVIOUS
<1>4. /\ Len(u) = n + m /\ u \in Seq(Sent)
      /\ \A i \in 1 .. n + m : u[i] = IF i <= n THEN s[i] ELSE r[i - n]
  BY <1>1, <1>2, <1>3, ConcatProperties
<1>5. PICK A : A = {i \in 1 .. n : s[i] \in Results}
  OBVIOUS
<1>6. PICK B : B = {i \in 1 .. m : r[i] \in Results}
  OBVIOUS
<1>7. PICK C : C = {i \in 1 .. n + m : u[i] \in Results}
  OBVIOUS
<1>8. DOMAIN s = 1 .. n /\ DOMAIN r = 1 .. m /\ DOMAIN u = 1 .. n + m
  BY <1>1, <1>2, <1>4
<1>9. \A g : /\ LastResult(s, g) = IF A = {} THEN g ELSE s[Max(A)]
             /\ LastResult(r, g) = IF B = {} THEN g ELSE r[Max(B)]
             /\ LastResult(u, g) = IF C = {} THEN g ELSE u[Max(C)]
  BY <1>5, <1>6, <1>7, <1>8 DEF LastResult
<1>10. \A i \in 1 .. n : i \in 1 .. n + m /\ u[i] = s[i]
  BY <1>4
<1>11. \A i \in 1 .. m : n + i \in 1 .. n + m /\ u[n + i] = r[i]
  <2> SUFFICES ASSUME NEW i \in 1 .. m PROVE n + i \in 1 .. n + m /\ u[n + i] = r[i]
    OBVIOUS
  <2>1. n + i \in 1 .. n + m /\ ~ (n + i <= n) /\ (n + i) - n = i
    OBVIOUS
  <2> QED BY <1>4, <2>1
<1>12. \A i \in 1 .. n + m : i \in 1 .. n \/ \E j \in 1 .. m : i = n + j
  <2> SUFFICES ASSUME NEW i \in 1 .. n + m, i > n PROVE \E j \in 1 .. m : i = n + j
    OBVIOUS
  <2>1. i - n \in 1 .. m /\ i = n + (i - n)
    OBVIOUS
  <2> QED BY <2>1
<1>13. CASE B = {}
  <2>1. C = A
    <3>1. ASSUME NEW i \in C PROVE i \in A
      <4>1. i \in 1 .. n + m /\ u[i] \in Results
        BY <1>7
      <4>2. ASSUME NEW j \in 1 .. m, i = n + j PROVE FALSE
        BY <1>6, <1>11, <1>13, <4>1, <4>2
      <4>3. i \in 1 .. n
        BY <1>12, <4>1, <4>2
      <4> QED BY <1>5, <1>10, <4>1, <4>3
    <3>2. ASSUME NEW i \in A PROVE i \in C
      BY <1>5, <1>7, <1>10
    <3> QED BY <3>1, <3>2
  <2>2. CASE A = {}
    BY <1>3, <1>9, <1>13, <2>1, <2>2
  <2>3. CASE A # {}
    <3>1. Max(A) \in A
      <4>1. A \subseteq 1 .. n
        BY <1>5
      <4> QED BY <2>3, <4>1, Greatest
    <3>2. Max(A) \in 1 .. n
      BY <1>5, <3>1
    <3>3. u[Max(A)] = s[Max(A)]
      BY <1>10, <3>2
    <3> QED BY <1>3, <1>9, <1>13, <2>1, <2>3, <3>3
  <2> QED BY <2>2, <2>3
<1>14. CASE B # {}
  <2>1. B \subseteq 1 .. m /\ C \subseteq 1 .. n + m /\ n + m \in Nat
    BY <1>6, <1>7
  <2>2. PICK x : x = Max(B)
    OBVIOUS
  <2>3. x \in B /\ \A y \in B : x >= y
    BY <1>14, <2>1, <2>2, Greatest
  <2>4. x \in 1 .. m
    BY <2>1, <2>3
  <2>5. n + x \in C
    BY <1>6, <1>7, <1>11, <2>3, <2>4
  <2>6. ASSUME NEW y \in C PROVE n + x >= y
    <3>1. y \in 1 .. n + m /\ u[y] \in Results
      BY <1>7
    <3>2. CASE y \in 1 .. n
      BY <2>4, <3>2
    <3>3. ASSUME NEW j \in 1 .. m, y = n + j PROVE n + x >= y
      <4>1. j \in B
        BY <1>6, <1>11, <3>1, <3>3
      <4>2. x >= j
        BY <2>3, <4>1
      <4> QED BY <2>4, <3>3, <4>2
    <3> QED BY <1>12, <3>1, <3>2, <3>3
  <2>7. Max(C) = n + x
    <3>1. C # {}
      BY <2>5
    <3> QED BY <2>1, <2>5, <2>6, <3>1, Greatest
  <2>8. u[n + x] = r[x]
    BY <1>11, <2>4
  <2>9. LastResult(u, h) = r[x]
    BY <1>9, <2>5, <2>7, <2>8
  <2>10. \A g : LastResult(r, g) = r[x]
    BY <1>9, <1>14, <2>2
  <2> QED BY <1>3, <2>9, <2>10
<1> QED
  BY <1>13, <1>14

-----------------------------------------------------------------------------
(* What a request that reads holds: the events in front of the script, the *)
(* window behind them, and the rest of the wire.                           *)
Reading(q) ==
    /\ q.script \in Scripts /\ Len(q.seen) <= Len(q.script)
    /\ \A i \in 1 .. Len(q.seen) : q.seen[i] = q.script[i]
    /\ Window(q.buffer, q.script, Len(q.seen)) /\ Len(q.buffer) < 4
    /\ 4 * Len(q.seen) + Len(q.buffer) + Len(q.wire) = 4 * Len(q.script)
    /\ \A i \in 1 .. Len(q.wire) :
          q.wire[i] = Wire(q.script)[4 * Len(q.seen) + Len(q.buffer) + i]
    /\ q.final = LastResult(q.seen, "none")

(* A request of its type, with nothing read before the body begins.        *)
Stream(q) ==
    /\ q \in RequestType
    /\ q.phase \in {"unsent", "fetching"} => q.buffer = <<>> /\ q.seen = <<>> /\ q.final = "none"
    /\ q.phase = "reading" => Reading(q)

(* The steps of a request, one by one: it is not sent yet,                 *)
LEMMA UnsentStream == Stream(Unsent)
<1>1. /\ Unsent.phase = "unsent" /\ Unsent.buffer = <<>> /\ Unsent.seen = <<>>
      /\ Unsent.final = "none"
  BY DEF Unsent
<1>2. Unsent \in RequestType
  <2>1. MaxSignIns \in Nat
    BY SessionAssumption
  <2>2. 0 \in 0 .. MaxSignIns /\ <<>> \in Seq(Symbols) /\ <<>> \in Seq(Progress \cup Results)
    BY <2>1
  <2> QED BY <2>2 DEF Unsent, RequestType, Phase
<1> QED
  BY <1>1, <1>2 DEF Stream

(* Once a request is over, or about to be, nothing is claimed of its bytes.*)
LEMMA SettledStream ==
    ASSUME NEW q, Stream(q)
    PROVE  /\ Stream([Unsent EXCEPT !.phase = "settled", !.image = q.image,
                                    !.replaced = q.replaced, !.final = q.final])
           /\ Stream([Unsent EXCEPT !.phase = "settled"])
           /\ Stream([q EXCEPT !.phase = "aborted"])
<1>1. Unsent \in RequestType /\ q \in RequestType
  BY UnsentStream DEF Stream
<1>2. PICK a : a = [Unsent EXCEPT !.phase = "settled", !.image = q.image,
                                    !.replaced = q.replaced, !.final = q.final]
  OBVIOUS
<1>3. PICK b : b = [Unsent EXCEPT !.phase = "settled"]
  OBVIOUS
<1>4. PICK d : d = [q EXCEPT !.phase = "aborted"]
  OBVIOUS
<1>5. a \in RequestType /\ a.phase = "settled"
  BY <1>1, <1>2 DEF RequestType, Phase
<1>6. b \in RequestType /\ b.phase = "settled"
  BY <1>1, <1>3 DEF RequestType, Phase
<1>7. d \in RequestType /\ d.phase = "aborted"
  BY <1>1, <1>4 DEF RequestType, Phase
<1> QED
  BY <1>2, <1>3, <1>4, <1>5, <1>6, <1>7 DEF Stream

(* another image is picked while it is out,                                *)
LEMMA ReplacedStream ==
    ASSUME NEW q, Stream(q) PROVE Stream([q EXCEPT !.replaced = TRUE])
<1>1. PICK a : a = [q EXCEPT !.replaced = TRUE]
  OBVIOUS
<1>2. /\ a \in RequestType /\ a.phase = q.phase /\ a.buffer = q.buffer /\ a.seen = q.seen
      /\ a.final = q.final /\ a.script = q.script /\ a.wire = q.wire
  BY <1>1 DEF Stream, RequestType
<1> QED
  BY <1>1, <1>2 DEF Stream, Reading

(* it is sent,                                                             *)
LEMMA SentStream ==
    ASSUME NEW i \in Images \cup {NoImage}, NEW t \in 0 .. MaxSignIns
    PROVE  Stream([Unsent EXCEPT !.phase = "fetching", !.image = i, !.token = t])
<1>1. Unsent \in RequestType
  BY UnsentStream DEF Stream
<1>2. PICK a : a = [Unsent EXCEPT !.phase = "fetching", !.image = i, !.token = t]
  OBVIOUS
<1>3. /\ a \in RequestType /\ a.phase = "fetching" /\ a.buffer = Unsent.buffer
      /\ a.seen = Unsent.seen /\ a.final = Unsent.final
  BY <1>1, <1>2 DEF RequestType, Phase
<1> QED
  BY <1>2, <1>3, UnsentStream DEF Stream, Unsent

(* its body begins,                                                        *)
LEMMA RespondStream ==
    ASSUME NEW q, Stream(q), q.phase = "fetching", NEW s \in Scripts
    PROVE  Stream([q EXCEPT !.phase = "reading", !.script = s, !.wire = Wire(s)])
<1>1. PICK w : w = Wire(s)
  OBVIOUS
<1>2. PICK a : a = [q EXCEPT !.phase = "reading", !.script = s, !.wire = w]
  OBVIOUS
<1>3. s \in Seq(Sent)
  BY SessionAssumption DEF Sent
<1>4. w \in Seq(Symbols) /\ Len(w) = 4 * Len(s)
  BY <1>1, <1>3, WireFacts
<1>5. /\ a \in RequestType /\ a.phase = "reading" /\ a.script = s /\ a.wire = w
      /\ a.buffer = <<>> /\ a.seen = <<>> /\ a.final = "none"
  BY <1>2, <1>4 DEF Stream, RequestType, Phase
<1>6. Reading(a)
  <2>1. <<>> \in Seq(Symbols) /\ Len(<<>>) = 0
    OBVIOUS
  <2>2. Window(<<>>, s, 0)
    BY <1>3, <2>1 DEF Window
  <2>3. LastResult(<<>>, "none") = "none"
    BY DEF LastResult
  <2>4. PICK n \in Nat : n = Len(s)
    BY <1>3
  <2>5. \A i \in 1 .. Len(w) : w[i] = w[4 * 0 + 0 + i]
    BY <1>4, <2>4
  <2> QED BY <1>1, <1>4, <1>5, <2>1, <2>2, <2>3, <2>4, <2>5 DEF Reading
<1> QED
  BY <1>1, <1>2, <1>5, <1>6 DEF Stream

(* n more symbols have arrived for q.                                      *)
Arrived(q, n, text, lines, read) ==
    /\ Stream(q) /\ q.phase = "reading" /\ n \in 1 .. Len(q.wire)
    /\ text = q.buffer \o SubSeq(q.wire, 1, n)
    /\ lines = DataLines(Lines(text))
    /\ read = Events(WholeEvents(lines))

(* A piece of any size: every line of it parses, and what was still to     *)
(* come is read, kept, or still to come.                                   *)
LEMMA ReadStream ==
    ASSUME NEW q, NEW n, NEW text, NEW lines, NEW read, Arrived(q, n, text, lines, read)
    PROVE  /\ WholeEvents(lines) = lines /\ read \in Seq(Sent)
           /\ Stream([q EXCEPT !.wire = SubSeq(q.wire, n + 1, Len(q.wire)),
                              !.buffer = Rest(text), !.seen = q.seen \o read,
                              !.final = LastResult(read, q.final)])
<1>0. /\ Stream(q) /\ q.phase = "reading" /\ n \in 1 .. Len(q.wire)
      /\ text = q.buffer \o SubSeq(q.wire, 1, n)
      /\ lines = DataLines(Lines(text)) /\ read = Events(WholeEvents(lines))
  BY DEF Arrived
<1>1. PICK s, w, buf, seen, wire :
        s = q.script /\ w = Wire(q.script) /\ buf = q.buffer /\ seen = q.seen /\ wire = q.wire
  OBVIOUS
<1>2. /\ q \in RequestType /\ s \in Seq(Sent) /\ buf \in Seq(Symbols)
      /\ wire \in Seq(Symbols) /\ seen \in Seq(Sent) /\ q.final \in Results \cup {"none"}
  BY <1>0, <1>1, SessionAssumption DEF Stream, Reading, RequestType, Sent
<1>3. PICK c \in Nat, l \in Nat, z \in Nat, m \in Nat :
        c = Len(seen) /\ l = Len(buf) /\ z = Len(wire) /\ m = Len(s)
  BY <1>2
<1>4. /\ s \in Scripts /\ c <= m /\ l < 4 /\ 4 * c + l + z = 4 * m
      /\ \A i \in 1 .. c : seen[i] = s[i]
      /\ \A i \in 1 .. l : buf[i] = w[4 * c + i]
      /\ \A i \in 1 .. z : wire[i] = w[4 * c + l + i]
      /\ q.final = LastResult(seen, "none")
  BY <1>0, <1>1, <1>3 DEF Stream, Reading, Window
<1>4a. c <= m /\ l < 4 /\ 4 * c + l + z = 4 * m
  BY <1>4
<1>5. n \in 1 .. z
  BY <1>0, <1>1, <1>3
<1>6. /\ text \in Seq(Symbols) /\ Len(text) = l + n
      /\ \A i \in 1 .. l + n : text[i] = w[4 * c + i]
  <2>1. PICK piece : piece = SubSeq(wire, 1, n)
    OBVIOUS
  <2>2. \A i \in 1 .. n : wire[i] \in Symbols
    BY <1>2, <1>3, <1>5
  <2>3. /\ piece \in Seq(Symbols) /\ Len(piece) = n
        /\ \A i \in 1 .. n : piece[i] = wire[i]
    <3>1. /\ piece \in Seq(Symbols) /\ Len(piece) = IF 1 <= n THEN n - 1 + 1 ELSE 0
          /\ \A i \in 1 .. n - 1 + 1 : piece[i] = wire[1 + i - 1]
      BY <1>5, <2>1, <2>2, SubSeqProperties
    <3> QED BY <1>5, <3>1
  <2>4. text = buf \o piece
    BY <1>0, <1>1, <2>1
  <2>5. /\ text \in Seq(Symbols) /\ Len(text) = l + n
        /\ \A i \in 1 .. l : text[i] = buf[i]
        /\ \A i \in 1 .. n : text[l + i] = piece[i]
    <3>1. n \in Nat
      BY <1>5
    <3>2. buf \in Seq(Symbols) /\ l \in Nat /\ l = Len(buf)
      BY <1>2, <1>3
    <3>3. piece \in Seq(Symbols) /\ n = Len(piece)
      BY <2>3
    <3>4. Joined(Symbols, buf, l, piece, n, text)
      BY <2>4, <3>1, <3>2, <3>3 DEF Joined
    <3>5. Abutting(Symbols, buf, l, piece, n, text)
      BY <3>4, ConcatAt
    <3> QED BY <3>5 DEF Abutting
  <2>6. ASSUME NEW i \in 1 .. l + n PROVE text[i] = w[4 * c + i]
    <3>1. CASE i <= l
      <4>1. i \in 1 .. l
        BY <3>1
      <4> QED BY <1>4, <2>5, <3>1, <4>1
    <3>2. CASE ~ (i <= l)
      <4>1. i - l \in 1 .. n /\ i - l \in 1 .. z /\ 4 * c + l + (i - l) = 4 * c + i
        BY <1>5, <3>2
      <4>2. text[i] = wire[i - l]
        <5>1. l + (i - l) = i
          BY <4>1
        <5> QED BY <2>3, <2>5, <4>1, <5>1
      <4>3. wire[i - l] = w[4 * c + l + (i - l)]
        BY <1>4, <4>1
      <4> QED BY <4>1, <4>2, <4>3
    <3> QED BY <3>1, <3>2
  <2> QED BY <2>5, <2>6
<1>7. Window(text, s, c)
  <2>1. 4 * c + (l + n) <= 4 * m
    BY <1>4, <1>5
  <2> QED BY <1>1, <1>2, <1>3, <1>6, <2>1 DEF Window
<1>8. PICK b \in Nat : b = (l + n) \div 4
  <2>1. l + n \in Nat
    BY <1>5
  <2>2. (l + n) \div 4 \in Nat
    BY <2>1
  <2> QED BY <2>2
<1>9. 4 * b <= l + n /\ l + n < 4 * b + 4
  BY <1>5, <1>8
<1>10. Whole(text, b)
  BY <1>6, <1>8 DEF Whole
<1>11. /\ WholeEvents(lines) = lines
       /\ Events(lines) = [k \in 1 .. b |-> s[c + k]]
       /\ \A k \in 1 .. b : s[c + k] \in Sent
  <2>1. HandedOut(DataLines(Lines(text)), s, c, b)
    BY <1>7, <1>10, ReadFacts
  <2>2. HandedOut(lines, s, c, b)
    BY <1>0, <2>1
  <2> QED BY <2>2 DEF HandedOut
<1>12. /\ read = [k \in 1 .. b |-> s[c + k]] /\ read \in Seq(Sent) /\ Len(read) = b
       /\ \A k \in 1 .. b : read[k] = s[c + k]
  <2>1. read = [k \in 1 .. b |-> s[c + k]]
    BY <1>0, <1>11
  <2>2. read \in [1 .. b -> Sent]
    BY <1>11, <2>1
  <2>3. read \in Seq(Sent) /\ Len(read) = b
    BY <2>2
  <2> QED BY <2>1, <2>3
<1>13. PICK rest : rest = Rest(text)
  OBVIOUS
<1>14. /\ rest \in Seq(Symbols) /\ Len(rest) = l + n - 4 * b
       /\ \A i \in 1 .. l + n - 4 * b : rest[i] = text[4 * b + i]
  <2>1. Kept(Rest(text), text, b)
    BY <1>7, <1>10, RestFacts
  <2>2. Kept(rest, text, b)
    BY <1>13, <2>1
  <2>3. PICK k \in Nat : k = Len(text)
    BY <1>6
  <2>4. /\ rest \in Seq(Symbols) /\ Len(rest) = k - 4 * b
        /\ \A i \in 1 .. k - 4 * b : rest[i] = text[4 * b + i]
    BY <2>2, <2>3 DEF Kept
  <2>5. k = l + n
    BY <1>6, <2>3
  <2> QED BY <1>5, <2>4, <2>5
<1>15. PICK tail : tail = SubSeq(wire, n + 1, z)
  OBVIOUS
<1>16. /\ tail \in Seq(Symbols) /\ Len(tail) = z - n
       /\ \A i \in 1 .. z - n : tail[i] = wire[n + i]
  <2>1. \A i \in n + 1 .. z : wire[i] \in Symbols
    BY <1>2, <1>3, <1>5
  <2>2. /\ tail \in Seq(Symbols)
        /\ Len(tail) = IF n + 1 <= z THEN z - (n + 1) + 1 ELSE 0
        /\ \A i \in 1 .. z - (n + 1) + 1 : tail[i] = wire[(n + 1) + i - 1]
    BY <1>5, <1>15, <2>1, SubSeqProperties
  <2>3. Len(tail) = z - n
    BY <1>5, <2>2
  <2>4. ASSUME NEW i \in 1 .. z - n PROVE tail[i] = wire[n + i]
    <3>1. i \in 1 .. z - (n + 1) + 1 /\ (n + 1) + i - 1 = n + i
      BY <1>5
    <3> QED BY <2>2, <3>1
  <2> QED BY <2>2, <2>3, <2>4
<1>17. PICK more : more = seen \o read
  OBVIOUS
<1>18. /\ more \in Seq(Sent) /\ Len(more) = c + b
       /\ \A i \in 1 .. c + b : more[i] = s[i]
  <2>1. /\ more \in Seq(Sent) /\ Len(more) = c + b
        /\ \A i \in 1 .. c : more[i] = seen[i]
        /\ \A i \in 1 .. b : more[c + i] = read[i]
    <3>1. Joined(Sent, seen, c, read, b, more)
      BY <1>2, <1>3, <1>12, <1>17 DEF Joined
    <3>2. Abutting(Sent, seen, c, read, b, more)
      BY <3>1, ConcatAt
    <3> QED BY <3>2 DEF Abutting
  <2>2. ASSUME NEW i \in 1 .. c + b PROVE more[i] = s[i]
    <3>1. CASE i <= c
      <4>1. i \in 1 .. c
        BY <3>1
      <4> QED BY <1>4, <2>1, <3>1, <4>1
    <3>2. CASE ~ (i <= c)
      <4>1. i - c \in 1 .. b /\ c + (i - c) = i
        BY <3>2
      <4>2. more[i] = read[i - c]
        BY <2>1, <4>1
      <4>3. read[i - c] = s[c + (i - c)]
        BY <1>12, <4>1
      <4> QED BY <4>1, <4>2, <4>3
    <3> QED BY <3>1, <3>2
  <2> QED BY <2>1, <2>2
<1>19. PICK f : f = LastResult(read, q.final)
  OBVIOUS
<1>20. f \in Results \cup {"none"} /\ f = LastResult(more, "none")
  <2>1. f \in Results \cup {"none"}
    BY <1>2, <1>12, <1>19, LastResultType
  <2>2. LastResult(seen \o read, "none") = LastResult(read, LastResult(seen, "none"))
    BY <1>2, <1>12, LastResultConcat
  <2> QED BY <1>4, <1>17, <1>19, <2>1, <2>2
<1>21. PICK a : a = [q EXCEPT !.wire = tail, !.buffer = rest, !.seen = more, !.final = f]
  OBVIOUS
<1>22. /\ a \in RequestType /\ a.phase = "reading" /\ a.script = s /\ a.wire = tail
       /\ a.buffer = rest /\ a.seen = more /\ a.final = f
  BY <1>0, <1>1, <1>2, <1>14, <1>16, <1>18, <1>20, <1>21 DEF RequestType, Sent
<1>23. Reading(a)
  <2>1. PICK d \in Nat : d = c + b
    OBVIOUS
  <2>2. PICK e \in Nat : e = l + n - 4 * b
    BY <1>5, <1>9
  <2>3. d <= m /\ e < 4 /\ 4 * d + e + (z - n) = 4 * m /\ 4 * d + e <= 4 * m
    <3>1. n \in Nat /\ n <= z
      BY <1>5
    <3> QED BY <1>4a, <1>9, <2>1, <2>2, <3>1
  <2>4. ASSUME NEW i \in 1 .. e PROVE rest[i] = w[4 * d + i]
    <3>1. 4 * b + i \in 1 .. l + n /\ 4 * c + (4 * b + i) = 4 * d + i
      BY <1>5, <1>9, <2>1, <2>2
    <3>2. rest[i] = text[4 * b + i]
      BY <1>14, <2>2
    <3>3. text[4 * b + i] = w[4 * c + (4 * b + i)]
      BY <1>6, <3>1
    <3> QED BY <3>1, <3>2, <3>3
  <2>5. ASSUME NEW i \in 1 .. z - n PROVE tail[i] = w[4 * d + e + i]
    <3>1. n + i \in 1 .. z /\ 4 * c + l + (n + i) = 4 * d + e + i
      BY <1>5, <2>1, <2>2
    <3>2. wire[n + i] = w[4 * c + l + (n + i)]
      BY <1>4, <3>1
    <3>3. tail[i] = wire[n + i]
      BY <1>16
    <3> QED BY <3>1, <3>2, <3>3
  <2>6. Len(more) = d /\ Len(rest) = e /\ Len(tail) = z - n
    BY <1>14, <1>16, <1>18, <2>1, <2>2
  <2>7. Window(rest, s, d)
    BY <1>1, <1>2, <1>3, <1>14, <2>3, <2>4, <2>6 DEF Window
  <2>8. \A i \in 1 .. d : more[i] = s[i]
    BY <1>18, <2>1
  <2>9. /\ s \in Scripts /\ Len(a.script) = m /\ Wire(a.script) = w /\ Len(a.seen) = d
        /\ Len(a.buffer) = e /\ Len(a.wire) = z - n
    BY <1>1, <1>3, <1>4, <1>22, <2>6
  <2>10. a.script \in Scripts /\ Len(a.seen) <= Len(a.script) /\ Len(a.buffer) < 4
    BY <1>22, <2>3, <2>9
  <2>11. \A i \in 1 .. Len(a.seen) : a.seen[i] = a.script[i]
    BY <1>22, <2>8, <2>9
  <2>12. \A i \in 1 .. Len(a.wire) :
            a.wire[i] = Wire(a.script)[4 * Len(a.seen) + Len(a.buffer) + i]
    BY <1>22, <2>5, <2>9
  <2>13. 4 * Len(a.seen) + Len(a.buffer) + Len(a.wire) = 4 * Len(a.script)
    BY <2>3, <2>9
  <2>14. Window(a.buffer, a.script, Len(a.seen)) /\ a.final = LastResult(a.seen, "none")
    BY <1>20, <1>22, <2>7, <2>9
  <2> QED BY <2>10, <2>11, <2>12, <2>13, <2>14 DEF Reading
<1>24. Stream(a)
  BY <1>22, <1>23 DEF Stream
<1>25. a = [q EXCEPT !.wire = SubSeq(q.wire, n + 1, Len(q.wire)), !.buffer = Rest(text),
                     !.seen = q.seen \o read, !.final = LastResult(read, q.final)]
  BY <1>1, <1>3, <1>13, <1>15, <1>17, <1>19, <1>21
<1> QED
  BY <1>11, <1>12, <1>24, <1>25

(* What the server wrote, put together again.                              *)
LEMMA ReadingIntact ==
    ASSUME NEW q, Stream(q), q.phase = "reading"
    PROVE  /\ Wire(q.seen) \o q.buffer \o q.wire = Wire(q.script)
           /\ Len(q.buffer) < 4 /\ q.final = LastResult(q.seen, "none")
<1>1. PICK s, w, buf, seen, wire :
        s = q.script /\ w = Wire(q.script) /\ buf = q.buffer /\ seen = q.seen /\ wire = q.wire
  OBVIOUS
<1>2. /\ s \in Seq(Sent) /\ buf \in Seq(Symbols) /\ wire \in Seq(Symbols) /\ seen \in Seq(Sent)
  BY <1>1, SessionAssumption DEF Stream, Reading, RequestType, Sent
<1>3. PICK c \in Nat, l \in Nat, z \in Nat, m \in Nat :
        c = Len(seen) /\ l = Len(buf) /\ z = Len(wire) /\ m = Len(s)
  BY <1>2
<1>4. /\ c <= m /\ 4 * c + l + z = 4 * m
      /\ \A i \in 1 .. c : seen[i] = s[i]
      /\ \A i \in 1 .. l : buf[i] = w[4 * c + i]
      /\ \A i \in 1 .. z : wire[i] = w[4 * c + l + i]
  BY <1>1, <1>3 DEF Stream, Reading, Window
<1>5. PICK v : v = Wire(seen)
  OBVIOUS
<1>6. /\ v \in Seq(Symbols) /\ Len(v) = 4 * c
      /\ \A j \in 1 .. c : /\ v[4 * j - 3] = <<seen[j], 1>> /\ v[4 * j - 2] = <<seen[j], 2>>
                           /\ v[4 * j - 1] = LF /\ v[4 * j] = LF
  BY <1>2, <1>3, <1>5, WireFacts
<1>7. /\ w \in Seq(Symbols) /\ Len(w) = 4 * m
      /\ \A j \in 1 .. m : /\ w[4 * j - 3] = <<s[j], 1>> /\ w[4 * j - 2] = <<s[j], 2>>
                           /\ w[4 * j - 1] = LF /\ w[4 * j] = LF
  BY <1>1, <1>2, <1>3, WireFacts
<1>8. ASSUME NEW i \in 1 .. 4 * c PROVE v[i] = w[i]
  <2>0. i \in Nat /\ i >= 1
    OBVIOUS
  <2>1. PICK j \in Nat : j >= 1 /\ (i = 4 * j - 3 \/ i = 4 * j - 2 \/ i = 4 * j - 1 \/ i = 4 * j)
    BY <2>0, Quarters
  <2>2. j \in 1 .. c /\ j \in 1 .. m
    BY <1>4, <2>1
  <2>3. seen[j] = s[j]
    BY <1>4, <2>2
  <2> QED BY <1>6, <1>7, <2>1, <2>2, <2>3
<1>9. PICK x : x = v \o buf
  OBVIOUS
<1>10. /\ x \in Seq(Symbols) /\ Len(x) = 4 * c + l
       /\ \A i \in 1 .. 4 * c : x[i] = v[i]
       /\ \A i \in 1 .. l : x[4 * c + i] = buf[i]
  <2>1. 4 * c \in Nat
    OBVIOUS
  <2>2. v \in Seq(Symbols) /\ 4 * c = Len(v) /\ buf \in Seq(Symbols) /\ l = Len(buf)
    BY <1>2, <1>3, <1>6
  <2>3. PICK k \in Nat : k = 4 * c
    BY <2>1
  <2>4. Joined(Symbols, v, k, buf, l, x)
    BY <1>9, <2>2, <2>3 DEF Joined
  <2>5. /\ x \in Seq(Symbols) /\ Len(x) = k + l
        /\ \A i \in 1 .. k : x[i] = v[i]
        /\ \A i \in 1 .. l : x[k + i] = buf[i]
    <3>1. Abutting(Symbols, v, k, buf, l, x)
      BY <2>4, ConcatAt
    <3> QED BY <3>1 DEF Abutting
  <2> QED BY <2>3, <2>5
<1>11. PICK y : y = x \o wire
  OBVIOUS
<1>12. /\ y \in Seq(Symbols) /\ Len(y) = 4 * m
       /\ \A i \in 1 .. 4 * c + l : y[i] = x[i]
       /\ \A i \in 1 .. z : y[(4 * c + l) + i] = wire[i]
  <2>1. 4 * c + l \in Nat
    OBVIOUS
  <2>2. /\ y \in Seq(Symbols) /\ Len(y) = (4 * c + l) + z
        /\ \A i \in 1 .. 4 * c + l : y[i] = x[i]
        /\ \A i \in 1 .. z : y[(4 * c + l) + i] = wire[i]
    <3>1. PICK k \in Nat : k = 4 * c + l
      BY <2>1
    <3>2. Joined(Symbols, x, k, wire, z, y)
      BY <1>2, <1>3, <1>10, <1>11, <3>1 DEF Joined
    <3>3. /\ y \in Seq(Symbols) /\ Len(y) = k + z
          /\ \A i \in 1 .. k : y[i] = x[i]
          /\ \A i \in 1 .. z : y[k + i] = wire[i]
      <4>1. Abutting(Symbols, x, k, wire, z, y)
        BY <3>2, ConcatAt
      <4> QED BY <4>1 DEF Abutting
    <3> QED BY <3>1, <3>3
  <2> QED BY <1>4, <2>2
<1>13. ASSUME NEW i \in 1 .. 4 * m PROVE y[i] = w[i]
  <2>1. CASE i <= 4 * c
    <3>1. i \in 1 .. 4 * c /\ i \in 1 .. 4 * c + l
      BY <2>1
    <3> QED BY <1>8, <1>10, <1>12, <3>1
  <2>2. CASE ~ (i <= 4 * c) /\ i <= 4 * c + l
    <3>1. PICK k \in 1 .. l : i = 4 * c + k
      <4>1. i - 4 * c \in 1 .. l /\ i = 4 * c + (i - 4 * c)
        BY <2>2
      <4> QED BY <4>1
    <3>2. i \in 1 .. 4 * c + l
      BY <2>2
    <3> QED BY <1>4, <1>10, <1>12, <3>1, <3>2
  <2>3. CASE ~ (i <= 4 * c + l)
    <3>1. PICK k \in 1 .. z : i = (4 * c + l) + k
      <4>1. i - (4 * c + l) \in 1 .. z /\ i = (4 * c + l) + (i - (4 * c + l))
        BY <1>4, <2>3
      <4> QED BY <4>1
    <3> QED BY <1>4, <1>12, <3>1
  <2> QED BY <2>1, <2>2, <2>3
<1>14. y = w
  BY <1>7, <1>12, <1>13, SeqEqual
<1>15. Len(q.buffer) < 4 /\ q.final = LastResult(q.seen, "none")
  BY DEF Stream, Reading
<1> QED
  BY <1>1, <1>5, <1>9, <1>11, <1>14, <1>15

-----------------------------------------------------------------------------
(* A request has the fields of Unsent.                                     *)
Fields == {"phase", "image", "token", "replaced", "script", "wire", "buffer",
           "final", "seen"}

IsRequest(q) == DOMAIN q = Fields

Requests ==
    /\ req = [r \in Ask |-> req[r]]
    /\ \A r \in Ask : IsRequest(req[r]) /\ req[r].replaced \in BOOLEAN

Scalars ==
    /\ asks \in 0 .. MaxAsks
    /\ answer \in 0 .. MaxAsks
    /\ loading \in BOOLEAN

(* A request in flight is about the image on display, or the image was     *)
(* replaced; an answer on display is of a request that is over; and no      *)
(* failure is on display while the spinner is on.                         *)
ImageKept ==
    /\ \A r \in InFlight : req[r].image = image \/ req[r].replaced
    /\ answer # 0 => req[answer].phase = "settled"
    /\ loading => error \in {"none", "file"}

IInv == Requests /\ Scalars /\ LoadingIsExact /\ ImageKept /\ OutcomeShown

-----------------------------------------------------------------------------
LEMMA UnsentIsRequest == IsRequest(Unsent)
BY DEF IsRequest, Unsent, Fields

(* The finally clause ends request r, keeps what it was about, and touches *)
(* no other one.                                                           *)
LEMMA SettleEffect ==
    ASSUME Requests, NEW r \in Ask, Settle(r)
    PROVE  /\ Requests'
           /\ req'[r].phase = "settled"
           /\ req'[r].image = req[r].image
           /\ req'[r].replaced = req[r].replaced
           /\ req'[r].final = req[r].final
           /\ \A q \in Ask \ {r} : req'[q] = req[q]
<1> DEFINE over == [Unsent EXCEPT !.phase = "settled", !.image = req[r].image,
                                  !.replaced = req[r].replaced, !.final = req[r].final]
<1>1. req' = [req EXCEPT ![r] = over]
  BY DEF Settle
<1>2. /\ over.phase = "settled" /\ over.image = req[r].image
      /\ over.replaced = req[r].replaced /\ over.final = req[r].final
      /\ IsRequest(over)
  <2>1. DOMAIN over = Fields
    BY UnsentIsRequest DEF IsRequest
  <2>2. /\ over.phase = "settled" /\ over.image = req[r].image
        /\ over.replaced = req[r].replaced /\ over.final = req[r].final
    BY UnsentIsRequest DEF IsRequest, Fields
  <2> QED
    BY <2>1, <2>2 DEF IsRequest
<1> HIDE DEF over
<1>3. DOMAIN req = Ask /\ req[r].replaced \in BOOLEAN
  BY DEF Requests
<1>4. req'[r] = over /\ \A q \in Ask \ {r} : req'[q] = req[q]
  BY <1>1, <1>3
<1>5. req' = [q \in Ask |-> req'[q]]
  BY <1>1, <1>3
<1>6. \A q \in Ask : IsRequest(req'[q]) /\ req'[q].replaced \in BOOLEAN
  BY <1>2, <1>3, <1>4 DEF Requests
<1> QED
  BY <1>2, <1>4, <1>5, <1>6 DEF Requests

(* When the newest request ends, with an answer or with anything else, the *)
(* spinner goes off and what is shown is its outcome.                      *)
LEMMA SettleKeeps ==
    ASSUME IInv, NEW r \in InFlight, Settle(r),
           \A row \in rows' \ rows : row[1] = r,
           image' = image, asks' = asks,
           \/ answer' = answer
           \/ answer' = r /\ req[r].final = "answer" /\ error' = error
    PROVE  IInv'
<1>1. r \in Ask /\ loading = TRUE /\ r = asks /\ abortRef = r /\ InFlight = {r}
  BY DEF IInv, LoadingIsExact, InFlight, Scalars
<1>2. answer = 0
  BY <1>1 DEF IInv, OutcomeShown
<1>3. /\ Requests'
      /\ req'[r].phase = "settled"
      /\ req'[r].image = req[r].image
      /\ req'[r].replaced = req[r].replaced
      /\ req'[r].final = req[r].final
      /\ \A q \in Ask \ {r} : req'[q] = req[q]
  BY <1>1, SettleEffect DEF IInv
<1>4. loading' = FALSE /\ abortRef' = 0
  BY <1>1 DEF Settle
<1>5. InFlight' = {}
  <2>1. ASSUME NEW q \in Ask PROVE req'[q].phase \notin {"fetching", "reading"}
    <3>1. CASE q = r
      BY <3>1, <1>3
    <3>2. CASE q # r
      BY <3>2, <1>1, <1>3 DEF InFlight
    <3> QED BY <3>1, <3>2
  <2> QED BY <2>1 DEF InFlight
<1>6. answer' \in {0, r}
  BY <1>2
<1>7. Scalars'
  BY <1>1, <1>4, <1>6 DEF IInv, Scalars, Ask
<1>8. LoadingIsExact'
  <2>1. \A row \in rows' : row[1] = asks'
    BY <1>1 DEF IInv, LoadingIsExact
  <2>2. \A q \in Ask : req'[q].phase # "aborted"
    BY <1>3 DEF IInv, LoadingIsExact
  <2> QED
    BY <1>4, <1>5, <2>1, <2>2 DEF LoadingIsExact
<1>9. ImageKept'
  BY <1>3, <1>4, <1>5, <1>6 DEF ImageKept
<1>10. OutcomeShown'
  <2>1. CASE answer' = 0
    BY <2>1 DEF OutcomeShown
  <2>2. CASE answer' # 0
    <3>1. answer' = r /\ req[r].final = "answer" /\ error' = error /\ r = asks'
      BY <2>2, <1>1, <1>2, <1>6
    <3>2. error' \in {"none", "file"}
      BY <3>1, <1>1 DEF IInv, ImageKept
    <3>3. req[r].image = image \/ req[r].replaced
      BY DEF IInv, ImageKept
    <3>4. image' = req'[r].image \/ req'[r].replaced
      BY <3>3, <1>3
    <3> QED
      BY <3>1, <3>2, <3>4, <1>3, <1>4 DEF OutcomeShown
  <2> QED BY <2>1, <2>2
<1> QED
  BY <1>3, <1>7, <1>8, <1>9, <1>10 DEF IInv

(* What arrives for a request, short of its end, changes its bytes, its    *)
(* phase within flight and the rows, and nothing that is decided by them.  *)
LEMMA ArrivalKeeps ==
    ASSUME IInv, NEW r \in InFlight, Requests',
           req'[r].phase \in {"fetching", "reading"},
           req'[r].image = req[r].image, req'[r].replaced = req[r].replaced,
           \A q \in Ask \ {r} : req'[q] = req[q],
           \A row \in rows' \ rows : row[1] = r,
           UNCHANGED <<image, answer, error, loading, abortRef, asks>>
    PROVE  IInv'
<1>1. r \in Ask /\ loading = TRUE /\ r = asks /\ InFlight = {r} /\ answer = 0
  BY DEF IInv, LoadingIsExact, InFlight, Scalars, OutcomeShown
<1>2. \A q \in Ask : q \in InFlight' <=> q \in InFlight
  <2>1. ASSUME NEW q \in Ask PROVE q \in InFlight' <=> q \in InFlight
    <3>1. CASE q = r
      BY <3>1, <1>1 DEF InFlight
    <3>2. CASE q # r
      BY <3>2 DEF InFlight
    <3> QED BY <3>1, <3>2
  <2> QED BY <2>1
<1>3. InFlight' = {r}
  BY <1>1, <1>2 DEF InFlight
<1>4. Scalars' /\ OutcomeShown'
  BY <1>1 DEF IInv, Scalars, OutcomeShown
<1>5. LoadingIsExact'
  <2>1. \A row \in rows' : row[1] = asks'
    BY <1>1 DEF IInv, LoadingIsExact
  <2>2. \A q \in Ask : req'[q].phase # "aborted"
    BY DEF IInv, LoadingIsExact
  <2>3. abortRef = r
    BY <1>1 DEF IInv, LoadingIsExact
  <2> QED
    BY <1>1, <1>3, <2>1, <2>2, <2>3 DEF LoadingIsExact
<1>6. ImageKept'
  BY <1>1, <1>3 DEF IInv, ImageKept
<1> QED
  BY <1>4, <1>5, <1>6 DEF IInv

(* IInv holds when the page is loaded, and every handler keeps it.         *)
LEMMA InitInv == Init => IInv
<1> SUFFICES ASSUME Init PROVE IInv
  OBVIOUS
<1>1. \A r \in Ask : req[r] = Unsent
  BY DEF Init
<1>2. Unsent.phase = "unsent" /\ Unsent.replaced = FALSE
  BY DEF Unsent
<1>3. Requests
  <2>1. req = [r \in Ask |-> req[r]]
    BY DEF Init
  <2> QED
    BY <1>1, <1>2, <2>1, UnsentIsRequest DEF Requests
<1>4. InFlight = {}
  BY <1>1, <1>2 DEF InFlight
<1>5. MaxAsks \in Nat
  BY SessionAssumption
<1>6. Scalars
  <2>1. asks = 0 /\ answer = 0 /\ loading \in BOOLEAN
    BY DEF Init
  <2> QED BY <1>5, <2>1 DEF Scalars
<1>7. LoadingIsExact
  BY <1>1, <1>2, <1>4 DEF Init, LoadingIsExact
<1>8. ImageKept /\ OutcomeShown
  BY <1>4 DEF Init, ImageKept, OutcomeShown
<1> QED
  BY <1>3, <1>6, <1>7, <1>8 DEF IInv

LEMMA SubmitInv == ASSUME IInv, Submit PROVE IInv'
<1> DEFINE r == asks + 1
           sent == [Unsent EXCEPT !.phase = "fetching", !.image = image, !.token = token]
           aborted == [q \in Ask |-> IF q = abortRef /\ q \in InFlight
                                     THEN [req[q] EXCEPT !.phase = "aborted"]
                                     ELSE req[q]]
<1>1. ~ loading /\ InFlight = {} /\ asks < MaxAsks
  BY DEF Submit, CanSubmit, IInv, LoadingIsExact
<1>2. r \in Ask /\ r \in 0 .. MaxAsks
  BY <1>1, SessionAssumption DEF Ask, IInv, Scalars
<1>3. \A q \in Ask : aborted[q] = req[q]
  BY <1>1
<1>4. /\ sent.phase = "fetching" /\ sent.image = image /\ sent.replaced = FALSE
      /\ IsRequest(sent)
  BY UnsentIsRequest DEF IsRequest, Fields, Unsent
<1>5. req' = [aborted EXCEPT ![r] = sent]
  BY DEF Submit
<1> HIDE DEF sent
<1>6. req'[r] = sent /\ \A q \in Ask \ {r} : req'[q] = req[q]
  <2>1. DOMAIN aborted = Ask
    OBVIOUS
  <2> HIDE DEF aborted, r
  <2> QED BY <1>2, <1>3, <1>5, <2>1
<1>7. Requests'
  <2>1. DOMAIN aborted = Ask
    OBVIOUS
  <2>2. req' = [q \in Ask |-> req'[q]]
    BY <1>5, <2>1
  <2>3. \A q \in Ask : IsRequest(req'[q]) /\ req'[q].replaced \in BOOLEAN
    BY <1>4, <1>6 DEF IInv, Requests
  <2> QED BY <2>2, <2>3 DEF Requests
<1>8. /\ asks' = r /\ error' = "none" /\ answer' = 0 /\ rows' = {}
      /\ abortRef' = r /\ loading' = TRUE /\ image' = image
  BY DEF Submit
<1> HIDE DEF aborted
<1>9. InFlight' = {r}
  <2>1. ASSUME NEW q \in Ask PROVE q \in InFlight' <=> q = r
    <3>1. CASE q = r
      BY <3>1, <1>4, <1>6 DEF InFlight
    <3>2. CASE q # r
      BY <3>2, <1>1, <1>6 DEF InFlight
    <3> QED BY <3>1, <3>2
  <2> QED BY <2>1, <1>2 DEF InFlight
<1> HIDE DEF r
<1>10. LoadingIsExact'
  <2>1. \A q \in Ask : req'[q].phase # "aborted"
    BY <1>4, <1>6 DEF IInv, LoadingIsExact
  <2> QED
    BY <1>8, <1>9, <2>1 DEF LoadingIsExact
<1>11. ImageKept'
  BY <1>4, <1>6, <1>8, <1>9 DEF ImageKept
<1>12. Scalars'
  BY <1>2, <1>8, SessionAssumption DEF Scalars, Ask
<1>13. OutcomeShown'
  BY <1>8 DEF OutcomeShown
<1> QED
  BY <1>7, <1>10, <1>11, <1>12, <1>13 DEF IInv

LEMMA SelectInv ==
    ASSUME IInv, NEW i \in Images, SelectImage(i) PROVE IInv'
<1>1. \A q \in Ask : req'[q] = IF q \in InFlight
                              THEN [req[q] EXCEPT !.replaced = TRUE] ELSE req[q]
  BY DEF SelectImage
<1>2. ASSUME NEW q \in Ask
      PROVE  /\ IsRequest(req'[q]) /\ req'[q].replaced \in BOOLEAN
             /\ req'[q].phase = req[q].phase
             /\ q \in InFlight => req'[q].replaced = TRUE
  <2>1. CASE q \in InFlight
    BY <1>1, <2>1 DEF IInv, Requests, IsRequest, Fields
  <2>2. CASE q \notin InFlight
    BY <1>1, <2>2 DEF IInv, Requests
  <2> QED BY <2>1, <2>2
<1>3. Requests'
  <2>1. req' = [q \in Ask |-> req'[q]]
    BY DEF SelectImage
  <2> QED BY <1>2, <2>1 DEF Requests
<1>4. InFlight' = InFlight
  BY <1>2 DEF InFlight
<1>5. LoadingIsExact'
  BY <1>2, <1>4 DEF SelectImage, IInv, LoadingIsExact
<1>6. ImageKept'
  BY <1>2, <1>4 DEF SelectImage, ImageKept, InFlight
<1>7. Scalars' /\ OutcomeShown'
  BY SessionAssumption DEF SelectImage, IInv, Scalars, OutcomeShown
<1> QED
  BY <1>3, <1>5, <1>6, <1>7 DEF IInv

LEMMA ReloadInv == ASSUME IInv, Reload PROVE IInv'
<1> DEFINE over == [Unsent EXCEPT !.phase = "settled"]
<1>1. \A q \in Ask : req'[q] = IF q <= asks THEN over ELSE Unsent
  BY DEF Reload
<1>2. /\ over.phase = "settled" /\ over.replaced = FALSE /\ IsRequest(over)
      /\ Unsent.phase = "unsent" /\ Unsent.replaced = FALSE
  BY UnsentIsRequest DEF IsRequest, Fields, Unsent
<1> HIDE DEF over
<1>3. \A q \in Ask : /\ IsRequest(req'[q]) /\ req'[q].replaced \in BOOLEAN
                    /\ req'[q].phase \in {"settled", "unsent"}
  BY <1>1, <1>2, UnsentIsRequest
<1>4. Requests'
  <2>1. req' = [q \in Ask |-> req'[q]]
    BY DEF Reload
  <2> QED BY <1>3, <2>1 DEF Requests
<1>5. InFlight' = {}
  BY <1>3 DEF InFlight
<1>6. LoadingIsExact'
  BY <1>3, <1>5 DEF Reload, LoadingIsExact
<1>7. ImageKept' /\ OutcomeShown'
  BY <1>5 DEF Reload, ImageKept, OutcomeShown
<1>8. Scalars'
  <2>1. MaxAsks \in Nat
    BY SessionAssumption
  <2>2. asks' = asks /\ answer' = 0 /\ loading' \in BOOLEAN
    BY DEF Reload
  <2> QED BY <2>1, <2>2 DEF IInv, Scalars
<1> QED
  BY <1>4, <1>6, <1>7, <1>8 DEF IInv

LEMMA ReadInv ==
    ASSUME IInv, NEW r \in Ask,
           NEW n \in 1 .. Len(req[r].wire), Read(r, n)
    PROVE  IInv'
<1> DEFINE text  == req[r].buffer \o SubSeq(req[r].wire, 1, n)
           lines == DataLines(Lines(text))
           whole == WholeEvents(lines)
           read  == Events(whole)
           w == SubSeq(req[r].wire, n + 1, Len(req[r].wire))
           b == Rest(text)
           s == req[r].seen \o read
           f == LastResult(read, req[r].final)
           shown == {<<r, e>> : e \in ToSet(read) \ Results}
<1>1. r \in InFlight
  BY DEF Read, InFlight
<1>2. rows' = rows \cup shown
  BY DEF Read
<1>3. \A row \in rows' \ rows : row[1] = r
  BY <1>2
<1>4. image' = image /\ answer' = answer /\ asks' = asks
  BY DEF Read
<1>5. CASE whole = lines
  <2>1. req' = [req EXCEPT ![r].wire = w, ![r].buffer = b, ![r].seen = s, ![r].final = f]
    BY <1>5 DEF Read
  <2>2. UNCHANGED <<error, loading, abortRef>>
    BY <1>5 DEF Read
  <2> HIDE DEF text, lines, whole, read, w, b, s, f, shown
  <2>3. req = [q \in Ask |-> req[q]] /\ IsRequest(req[r]) /\ req[r].replaced \in BOOLEAN
    BY DEF IInv, Requests
  <2>4. /\ req' = [q \in Ask |-> req'[q]]
        /\ \A q \in Ask \ {r} : req'[q] = req[q]
    BY <2>1, <2>3
  <2>5. /\ IsRequest(req'[r])
        /\ req'[r].phase = req[r].phase
        /\ req'[r].image = req[r].image
        /\ req'[r].replaced = req[r].replaced
    BY <2>1, <2>3 DEF IsRequest, Fields
  <2>6. Requests'
    BY <2>3, <2>4, <2>5 DEF IInv, Requests
  <2>7. req'[r].phase \in {"fetching", "reading"}
    BY <1>1, <2>5 DEF InFlight
  <2> QED
    BY <1>1, <1>3, <1>4, <2>2, <2>4, <2>5, <2>6, <2>7, ArrivalKeeps
<1>6. CASE whole # lines
  <2>1. Settle(r)
    BY <1>6 DEF Read
  <2> QED
    BY <1>1, <1>3, <1>4, <2>1, SettleKeeps
<1> QED
  BY <1>5, <1>6

LEMMA DeliverInv ==
    ASSUME IInv, NEW r \in Ask, Deliver(r) PROVE IInv'
<1> USE DEF Deliver
<1>1. ASSUME Respond(r) PROVE IInv'
  <2>1. PICK s \in Scripts :
          req' = [req EXCEPT ![r].phase = "reading", ![r].script = s, ![r].wire = Wire(s)]
    BY <1>1 DEF Respond
  <2> DEFINE w == Wire(s)
  <2>2. r \in InFlight /\ rows' = rows
        /\ UNCHANGED <<image, answer, error, loading, abortRef, asks>>
    BY <1>1 DEF Respond, view, auth, InFlight
  <2>3. req' = [req EXCEPT ![r].phase = "reading", ![r].script = s, ![r].wire = w]
    BY <2>1
  <2> HIDE DEF w
  <2>4. req = [q \in Ask |-> req[q]] /\ IsRequest(req[r]) /\ req[r].replaced \in BOOLEAN
    BY DEF IInv, Requests
  <2>5. /\ req' = [q \in Ask |-> req'[q]]
        /\ \A q \in Ask \ {r} : req'[q] = req[q]
    BY <2>3, <2>4
  <2>6. /\ IsRequest(req'[r])
        /\ req'[r].phase = "reading"
        /\ req'[r].image = req[r].image
        /\ req'[r].replaced = req[r].replaced
    BY <2>3, <2>4 DEF IsRequest, Fields
  <2>7. Requests'
    BY <2>4, <2>5, <2>6 DEF IInv, Requests
  <2> QED
    BY <2>2, <2>5, <2>6, <2>7, ArrivalKeeps
<1>2. ASSUME Done(r) PROVE IInv'
  <2>1. r \in InFlight
    BY <1>2 DEF Done, InFlight
  <2>2. /\ Settle(r) /\ image' = image /\ asks' = asks /\ rows' = rows
        /\ \/ answer' = answer
           \/ answer' = r /\ req[r].final = "answer" /\ error' = error
    BY <1>2 DEF Done, Answered, Refused, Unauthorized
  <2> QED
    BY <2>1, <2>2, SettleKeeps
<1>3. ASSUME Rejects(r) PROVE IInv'
  <2>1. r \in InFlight
    BY <1>3 DEF Rejects, InFlight, IInv, LoadingIsExact
  <2> QED
    BY <1>3, <2>1, SettleKeeps DEF Rejects
<1>4. ASSUME NEW n \in 1 .. Len(req[r].wire), Read(r, n) PROVE IInv'
  BY <1>4, ReadInv
<1> QED
  BY <1>1, <1>2, <1>3, <1>4

LEMMA NextInv == ASSUME IInv, [Next]_vars PROVE IInv'
<1>1. ASSUME NEW i \in Images, SelectImage(i) PROVE IInv'
  BY <1>1, SelectInv
<1>2. ASSUME RejectFile PROVE IInv'
  BY <1>2 DEF RejectFile, auth, IInv, Requests, Scalars, LoadingIsExact, InFlight,
              ImageKept, OutcomeShown
<1>3. ASSUME SubmitWeak PROVE IInv'
  <2>1. ~ loading /\ loading' = loading /\ req' = req /\ asks' = asks /\ answer' = 0
        /\ rows' = {} /\ abortRef' = abortRef /\ image' = image
    BY <1>3 DEF SubmitWeak, CanSubmit
  <2>2. MaxAsks \in Nat
    BY SessionAssumption
  <2>3. Scalars' /\ Requests'
    BY <2>1, <2>2 DEF IInv, Scalars, Requests
  <2>4. LoadingIsExact' /\ ImageKept' /\ OutcomeShown'
    BY <2>1 DEF IInv, LoadingIsExact, InFlight, ImageKept, OutcomeShown
  <2> QED BY <2>3, <2>4 DEF IInv
<1>4. ASSUME Submit PROVE IInv'
  BY <1>4, SubmitInv
<1>5. ASSUME SignIn \/ SignOut PROVE IInv'
  <2>1. UNCHANGED <<image, answer, error, rows, loading, abortRef, asks, req>>
    BY <1>5 DEF SignIn, SignOut, view
  <2> QED
    BY <2>1 DEF IInv, Requests, Scalars, LoadingIsExact, InFlight, ImageKept,
                OutcomeShown
<1>6. ASSUME Reload PROVE IInv'
  BY <1>6, ReloadInv
<1>7. ASSUME NEW r \in Ask, Deliver(r) PROVE IInv'
  BY <1>7, DeliverInv
<1>8. ASSUME UNCHANGED vars PROVE IInv'
  BY <1>8 DEF vars, IInv, Requests, Scalars, LoadingIsExact, InFlight, ImageKept,
              OutcomeShown
<1> QED
  BY <1>1, <1>2, <1>3, <1>4, <1>5, <1>6, <1>7, <1>8 DEF Next, User

(* The inductive invariant of the tab: the requests with what is shown.    *)
THEOREM SessionInvariant == Spec => []IInv
<1>1. Init => IInv
  BY InitInv
<1>2. IInv /\ [Next]_vars => IInv'
  BY NextInv
<1> QED
  BY <1>1, <1>2, PTL DEF Spec

(* The spinner is on exactly while the newest request is out, and only it  *)
(* can be aborted: the state of App.jsx agrees with the network.           *)
THEOREM SpinnerIsExact == Spec => []LoadingIsExact
<1>1. IInv => LoadingIsExact
  BY DEF IInv
<1> QED
  BY <1>1, SessionInvariant, PTL

(* An answer on display is the outcome of the newest request, about the    *)
(* image on display unless that was replaced while the request was out.    *)
THEOREM AnswersBelong == Spec => []OutcomeShown
<1>1. IInv => OutcomeShown
  BY DEF IInv
<1> QED
  BY <1>1, SessionInvariant, PTL

-----------------------------------------------------------------------------
(* The state of App.jsx that is only typed, and the streams of bytes.      *)
Typed ==
    /\ image \in Images \cup {NoImage}
    /\ token \in 0 .. MaxSignIns
    /\ signIns \in 0 .. MaxSignIns
    /\ error \in Error
    /\ rows \subseteq Ask \X Progress
    /\ \A r \in Ask : Stream(req[r])

(* Typed holds at the start, and every handler keeps it.                   *)
LEMMA InitTyped == Init => Typed
<1> SUFFICES ASSUME Init PROVE Typed
  OBVIOUS
<1>1. \A r \in Ask : Stream(req[r])
  BY UnsentStream DEF Init
<1>2. MaxSignIns \in Nat
  BY SessionAssumption
<1> QED
  BY <1>1, <1>2 DEF Init, Typed, Error

(* The finally clause leaves nothing of the bytes to speak of.             *)
LEMMA SettleTyped ==
    ASSUME Requests, \A q \in Ask : Stream(req[q]), NEW r \in Ask, Settle(r)
    PROVE  \A q \in Ask : Stream(req'[q])
<1>1. PICK over : over = [Unsent EXCEPT !.phase = "settled", !.image = req[r].image,
                            !.replaced = req[r].replaced, !.final = req[r].final]
  OBVIOUS
<1>2. PICK q : q = req[r]
  OBVIOUS
<1>3. Stream(q)
  BY <1>2
<1>4. Stream([Unsent EXCEPT !.phase = "settled", !.image = q.image,
                            !.replaced = q.replaced, !.final = q.final])
  BY <1>3, SettledStream
<1>5. Stream(over)
  BY <1>1, <1>2, <1>4
<1>6. req' = [req EXCEPT ![r] = over] /\ DOMAIN req = Ask
  BY <1>1 DEF Settle, Requests
<1> QED
  BY <1>5, <1>6

LEMMA SubmitTyped == ASSUME IInv, Typed, Submit PROVE Typed'
<1>1. PICK sent : sent = [Unsent EXCEPT !.phase = "fetching", !.image = image, !.token = token]
  OBVIOUS
<1>2. Stream(sent)
  BY <1>1, SentStream DEF Typed
<1>3. PICK aborted : aborted = [q \in Ask |-> IF q = abortRef /\ q \in InFlight
                                              THEN [req[q] EXCEPT !.phase = "aborted"]
                                              ELSE req[q]]
  OBVIOUS
<1>4. DOMAIN aborted = Ask /\ req' = [aborted EXCEPT ![asks + 1] = sent]
  BY <1>1, <1>3 DEF Submit
<1>5. ASSUME NEW q \in Ask PROVE Stream(aborted[q])
  <2>1. PICK p : p = req[q]
    OBVIOUS
  <2>2. Stream(p) /\ Stream([p EXCEPT !.phase = "aborted"])
    BY <2>1, SettledStream DEF Typed
  <2> QED BY <1>3, <2>1, <2>2
<1>6. \A q \in Ask : Stream(req'[q])
  BY <1>2, <1>4, <1>5
<1>7. /\ image' = image /\ token' = token /\ signIns' = signIns /\ error' = "none"
      /\ rows' = {}
  BY DEF Submit, auth
<1> QED
  BY <1>6, <1>7 DEF Typed, Error

LEMMA SelectTyped ==
    ASSUME Typed, NEW i \in Images, SelectImage(i) PROVE Typed'
<1>1. ASSUME NEW q \in Ask PROVE Stream(req'[q])
  <2>1. PICK p : p = req[q]
    OBVIOUS
  <2>2. Stream(p) /\ Stream([p EXCEPT !.replaced = TRUE])
    BY <2>1, ReplacedStream DEF Typed
  <2>3. req'[q] = IF q \in InFlight THEN [p EXCEPT !.replaced = TRUE] ELSE p
    BY <2>1 DEF SelectImage
  <2> QED BY <2>2, <2>3
<1>2. /\ image' = i /\ token' = token /\ signIns' = signIns /\ error' = "none"
      /\ rows' = rows
  BY DEF SelectImage, auth
<1> QED
  BY <1>1, <1>2 DEF Typed, Error

LEMMA ReloadTyped == ASSUME Typed, Reload PROVE Typed'
<1>1. Stream([Unsent EXCEPT !.phase = "settled"])
  BY UnsentStream, SettledStream
<1>2. ASSUME NEW q \in Ask PROVE Stream(req'[q])
  <2>1. req'[q] = IF q <= asks THEN [Unsent EXCEPT !.phase = "settled"] ELSE Unsent
    BY DEF Reload
  <2> QED BY <1>1, <2>1, UnsentStream
<1>3. /\ image' = NoImage /\ token' = token /\ signIns' = signIns /\ error' = "none"
      /\ rows' = {}
  BY DEF Reload, auth
<1> QED
  BY <1>2, <1>3 DEF Typed, Error

LEMMA ReadTyped ==
    ASSUME Requests, Typed, NEW r \in Ask,
           NEW n \in 1 .. Len(req[r].wire), Read(r, n)
    PROVE  Typed'
<1>1. PICK q : q = req[r]
  OBVIOUS
<1>2. PICK text : text = q.buffer \o SubSeq(q.wire, 1, n)
  OBVIOUS
<1>3. PICK lines : lines = DataLines(Lines(text))
  OBVIOUS
<1>4. PICK read : read = Events(WholeEvents(lines))
  OBVIOUS
<1>5. Arrived(q, n, text, lines, read)
  BY <1>1, <1>2, <1>3, <1>4 DEF Arrived, Typed, Read
<1>6. PICK f : f = LastResult(read, q.final)
  OBVIOUS
<1>7. PICK w, b, s :
        w = SubSeq(q.wire, n + 1, Len(q.wire)) /\ b = Rest(text) /\ s = q.seen \o read
  OBVIOUS
<1>8. /\ WholeEvents(lines) = lines /\ read \in Seq(Sent)
      /\ Stream([q EXCEPT !.wire = SubSeq(q.wire, n + 1, Len(q.wire)),
                          !.buffer = Rest(text), !.seen = q.seen \o read,
                          !.final = LastResult(read, q.final)])
  BY <1>5, ReadStream
<1>9. Stream([q EXCEPT !.wire = w, !.buffer = b, !.seen = s, !.final = f])
  BY <1>6, <1>7, <1>8
<1>10. /\ req' = [req EXCEPT ![r].wire = w, ![r].buffer = b, ![r].seen = s, ![r].final = f]
       /\ error' = error
       /\ rows' = rows \cup {<<r, e>> : e \in ToSet(read) \ Results}
       /\ image' = image /\ token' = token /\ signIns' = signIns
  BY <1>1, <1>2, <1>3, <1>4, <1>6, <1>7, <1>8 DEF Read, auth
<1>11. \A p \in Ask : Stream(req'[p])
  <2>1. DOMAIN req = Ask
    BY DEF Requests
  <2>2. req'[r] = [q EXCEPT !.wire = w, !.buffer = b, !.seen = s, !.final = f]
    BY <1>1, <1>10, <2>1
  <2>3. \A p \in Ask \ {r} : req'[p] = req[p]
    BY <1>10, <2>1
  <2> QED BY <1>9, <2>2, <2>3 DEF Typed
<1>12. rows' \subseteq Ask \X Progress
  <2>1. ToSet(read) \subseteq Sent
    BY <1>8 DEF ToSet
  <2>2. \A e \in ToSet(read) \ Results : e \in Progress
    BY <2>1 DEF Sent
  <2> QED BY <1>10, <2>2 DEF Typed
<1> QED
  BY <1>10, <1>11, <1>12 DEF Typed

LEMMA DeliverTyped ==
    ASSUME Requests, Typed, NEW r \in Ask, Deliver(r) PROVE Typed'
<1>1. ASSUME Respond(r) PROVE Typed'
  <2>1. PICK s \in Scripts :
          req' = [req EXCEPT ![r].phase = "reading", ![r].script = s, ![r].wire = Wire(s)]
    BY <1>1 DEF Respond
  <2>2. PICK q : q = req[r]
    OBVIOUS
  <2>3. PICK w : w = Wire(s)
    OBVIOUS
  <2>4. Stream(q) /\ q.phase = "fetching"
    BY <1>1, <2>2 DEF Typed, Respond
  <2>5. Stream([q EXCEPT !.phase = "reading", !.script = s, !.wire = w])
    BY <2>3, <2>4, RespondStream
  <2>6. DOMAIN req = Ask
    BY DEF Requests
  <2>7. req'[r] = [q EXCEPT !.phase = "reading", !.script = s, !.wire = w]
    BY <2>1, <2>2, <2>3, <2>6
  <2>8. \A p \in Ask \ {r} : req'[p] = req[p]
    BY <2>1, <2>6
  <2>9. \A p \in Ask : Stream(req'[p])
    BY <2>5, <2>7, <2>8 DEF Typed
  <2>10. /\ image' = image /\ token' = token /\ signIns' = signIns /\ error' = error
         /\ rows' = rows
    BY <1>1 DEF Respond, view, auth
  <2> QED
    BY <2>9, <2>10 DEF Typed
<1>2. ASSUME Settle(r), image' = image, signIns' = signIns, rows' = rows,
             token' \in {0, token}, error' \in Error
      PROVE  Typed'
  <2>1. \A q \in Ask : Stream(req'[q])
    BY <1>2, SettleTyped DEF Typed
  <2>2. token' \in 0 .. MaxSignIns
    BY <1>2, SessionAssumption DEF Typed
  <2> QED
    BY <1>2, <2>1, <2>2 DEF Typed
<1>3. ASSUME Done(r) PROVE Typed'
  <2>1. /\ Settle(r) /\ image' = image /\ signIns' = signIns /\ rows' = rows
        /\ token' \in {0, token} /\ error' \in {error, "request"}
    BY <1>3 DEF Done, Answered, Refused, Unauthorized, auth
  <2> QED
    BY <1>2, <2>1 DEF Typed, Error
<1>4. ASSUME Rejects(r) PROVE Typed'
  <2>1. /\ Settle(r) /\ image' = image /\ signIns' = signIns /\ rows' = rows
        /\ token' \in {0, token} /\ error' \in {error, "request"}
    BY <1>4 DEF Rejects, auth
  <2> QED
    BY <1>2, <2>1 DEF Typed, Error
<1>5. ASSUME NEW n \in 1 .. Len(req[r].wire), Read(r, n) PROVE Typed'
  BY <1>5, ReadTyped
<1> QED
  BY <1>1, <1>3, <1>4, <1>5 DEF Deliver

LEMMA NextTyped == ASSUME IInv, Typed, [Next]_vars PROVE Typed'
<1>1. ASSUME NEW i \in Images, SelectImage(i) PROVE Typed'
  BY <1>1, SelectTyped
<1>2. ASSUME RejectFile PROVE Typed'
  BY <1>2 DEF RejectFile, auth, Typed, Error
<1>3. ASSUME SubmitWeak PROVE Typed'
  BY <1>3 DEF SubmitWeak, auth, Typed, Error
<1>4. ASSUME Submit PROVE Typed'
  BY <1>4, SubmitTyped
<1>5. ASSUME SignIn PROVE Typed'
  <2>1. signIns + 1 \in 0 .. MaxSignIns
    BY <1>5, SessionAssumption DEF SignIn, Typed
  <2> QED
    BY <1>5, <2>1 DEF SignIn, view, Typed
<1>6. ASSUME SignOut PROVE Typed'
  <2>1. 0 \in 0 .. MaxSignIns
    BY SessionAssumption
  <2> QED
    BY <1>6, <2>1 DEF SignOut, view, Typed
<1>7. ASSUME Reload PROVE Typed'
  BY <1>7, ReloadTyped
<1>8. ASSUME NEW r \in Ask, Deliver(r) PROVE Typed'
  BY <1>8, DeliverTyped DEF IInv
<1>9. ASSUME UNCHANGED vars PROVE Typed'
  BY <1>9 DEF vars, Typed
<1> QED
  BY <1>1, <1>2, <1>3, <1>4, <1>5, <1>6, <1>7, <1>8, <1>9 DEF Next, User

(* The tab together with the bytes of its requests.                        *)
THEOREM StreamInvariant == Spec => [](IInv /\ Typed)
<1>1. Init => IInv /\ Typed
  BY InitInv, InitTyped
<1>2. IInv /\ Typed /\ [Next]_vars => (IInv /\ Typed)'
  BY NextInv, NextTyped
<1> QED
  BY <1>1, <1>2, PTL DEF Spec

(* However the network cuts the bytes: what was handed out, what is kept   *)
(* and what is to come is what the server wrote, the reader of api.js never*)
(* sits on a whole event, and it holds the last result that it read.       *)
THEOREM StreamsIntact == Spec => []StreamIntact
<1>1. IInv /\ Typed => StreamIntact
  <2> SUFFICES ASSUME Typed, NEW r \in Ask, req[r].phase = "reading"
               PROVE  /\ Wire(req[r].seen) \o req[r].buffer \o req[r].wire
                            = Wire(req[r].script)
                      /\ Len(req[r].buffer) < 4
                      /\ req[r].final = LastResult(req[r].seen, "none")
    BY DEF StreamIntact
  <2>1. PICK q : q = req[r]
    OBVIOUS
  <2>2. Stream(q) /\ q.phase = "reading"
    BY <2>1 DEF Typed
  <2> QED
    BY <2>1, <2>2, ReadingIntact
<1> QED
  BY <1>1, StreamInvariant, PTL

(* A piece of any size leaves only whole events in front of the last blank *)
(* line.                                                                   *)
LEMMA PiecesParse ==
    ASSUME Typed, NEW r \in Ask, NEW n \in 1 .. Len(req[r].wire), req[r].phase = "reading"
    PROVE  LET lines == DataLines(Lines(req[r].buffer \o SubSeq(req[r].wire, 1, n)))
           IN  WholeEvents(lines) = lines
<1>1. PICK q : q = req[r]
  OBVIOUS
<1>2. PICK text : text = q.buffer \o SubSeq(q.wire, 1, n)
  OBVIOUS
<1>3. PICK lines : lines = DataLines(Lines(text))
  OBVIOUS
<1>4. PICK read : read = Events(WholeEvents(lines))
  OBVIOUS
<1>5. Arrived(q, n, text, lines, read)
  BY <1>1, <1>2, <1>3, <1>4 DEF Arrived, Typed
<1>6. WholeEvents(lines) = lines
  BY <1>5, ReadStream
<1> QED
  BY <1>1, <1>2, <1>3, <1>6

(* JSON.parse in api.js never meets an event that is cut off: reading a    *)
(* piece of the body, whatever its size, does not end the request, and no  *)
(* notice comes of it.                                                     *)
THEOREM ReadsNeverThrow ==
    Spec => [][\A r \in Ask, n \in Nat :
                  Read(r, n) => error' = error /\ req'[r].phase = "reading"]_vars
<1>1. IInv /\ Typed /\ [Next]_vars
        => [\A r \in Ask, n \in Nat :
              Read(r, n) => error' = error /\ req'[r].phase = "reading"]_vars
  <2> SUFFICES ASSUME IInv, Typed, NEW r \in Ask, NEW n \in Nat, Read(r, n)
               PROVE  error' = error /\ req'[r].phase = "reading"
    OBVIOUS
  <2>1. n \in 1 .. Len(req[r].wire) /\ req[r].phase = "reading"
    BY DEF Read
  <2>2. PICK text : text = req[r].buffer \o SubSeq(req[r].wire, 1, n)
    OBVIOUS
  <2>3. PICK lines : lines = DataLines(Lines(text))
    OBVIOUS
  <2>4. WholeEvents(lines) = lines
    BY <2>1, <2>2, <2>3, PiecesParse
  <2>5. PICK w, b, s, f :
          /\ w = SubSeq(req[r].wire, n + 1, Len(req[r].wire)) /\ b = Rest(text)
          /\ s = req[r].seen \o Events(lines) /\ f = LastResult(Events(lines), req[r].final)
    OBVIOUS
  <2>6. /\ error' = error
        /\ req' = [req EXCEPT ![r].wire = w, ![r].buffer = b, ![r].seen = s, ![r].final = f]
    BY <2>2, <2>3, <2>4, <2>5 DEF Read
  <2>7. DOMAIN req = Ask /\ IsRequest(req[r])
    BY DEF IInv, Requests
  <2>8. req'[r].phase = req[r].phase
    BY <2>6, <2>7 DEF IsRequest, Fields
  <2> QED
    BY <2>1, <2>6, <2>8
<1> QED
  BY <1>1, StreamInvariant, PTL DEF Spec

(* The values of the state of App.jsx and of its requests.                 *)
THEOREM SessionTypes == Spec => []TypeOK
<1>1. IInv /\ Typed => TypeOK
  <2> SUFFICES ASSUME IInv, Typed PROVE TypeOK
    OBVIOUS
  <2>1. req \in [Ask -> RequestType]
    <3>1. req = [r \in Ask |-> req[r]]
      BY DEF IInv, Requests
    <3>2. \A r \in Ask : req[r] \in RequestType
      BY DEF Typed, Stream
    <3> QED BY <3>1, <3>2
  <2>2. abortRef \in 0 .. MaxAsks
    <3>1. asks \in 0 .. MaxAsks /\ MaxAsks \in Nat /\ abortRef \in {0, asks}
      BY SessionAssumption DEF IInv, LoadingIsExact, Scalars
    <3> QED BY <3>1
  <2> QED
    BY <2>1, <2>2 DEF IInv, Scalars, Typed, TypeOK
<1> QED
  BY <1>1, StreamInvariant, PTL
=============================================================================
