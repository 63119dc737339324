---------------------------- MODULE ProgramsProofs ---------------------------
(***************************************************************************)
(* The programs that run beside the backend's requests, each by itself     *)
(* first: the answer cache (what is used last is dropped last), the errors *)
(* folder of evaluate.py and the checkpoints and step counts of            *)
(* finetune_lora.py, for any sizes, dataset, settings and number of runs,  *)
(* and wherever they are killed; the orchestrator is in OrchestratorProofs.*)
(* The last part puts them together.                                       *)
(***************************************************************************)
EXTENDS Programs, OrchestratorProofs, SequenceTheorems, FunctionTheorems,
        FiniteSetTheorems, TLAPS

(* ------------------------------- cache --------------------------------- *)

(* A queue: a sequence that names nothing twice.                           *)
Queues == {s \in Seq(Keys) : IsInjective(s)}

Named(s) == {s[i] : i \in 1 .. Len(s)}

(* The keys behind x: those put or hit later.                              *)
Behind(s, x) == {y \in Keys : \E i, j \in 1 .. Len(s) : i < j /\ s[i] = x /\ s[j] = y}

(* What a queue is, place by place.                                        *)
LEMMA QueueFacts ==
    ASSUME NEW s \in Queues
    PROVE  /\ s \in Seq(Keys) /\ Len(s) \in Nat /\ DOMAIN s = 1 .. Len(s)
           /\ \A i \in 1 .. Len(s) : s[i] \in Keys
           /\ \A i, j \in 1 .. Len(s) : s[i] = s[j] => i = j
           /\ \A x : Contains(s, x) <=> x \in Named(s)
  <1>1. s \in Seq(Keys) /\ Len(s) \in Nat /\ DOMAIN s = 1 .. Len(s)
    BY DEF Queues
  <1>2. \A i, j \in 1 .. Len(s) : s[i] = s[j] => i = j
    BY <1>1 DEF Queues, IsInjective
  <1>3. \A i \in 1 .. Len(s) : s[i] \in Keys
    BY <1>1
  <1>4. \A x : Contains(s, x) <=> x \in Named(s)
    BY <1>1 DEF Contains, Named
  <1> QED BY <1>1, <1>2, <1>3, <1>4

LEMMA QueueIs ==
    ASSUME NEW s \in Seq(Keys), \A i, j \in 1 .. Len(s) : s[i] = s[j] => i = j
    PROVE  s \in Queues
  BY DEF Queues, IsInjective

(* One place at most, and so as many behind x as places after its own.     *)
LEMMA BehindCount ==
    ASSUME NEW s \in Queues, NEW p \in 1 .. Len(s)
    PROVE  IsFiniteSet(Behind(s, s[p])) /\ Cardinality(Behind(s, s[p])) = Len(s) - p
  <1>1. PICK z \in Nat : z = Len(s)
    BY QueueFacts
  <1>2. p \in 1 .. z /\ z - p \in Nat
    BY <1>1
  <1>3. /\ \A i \in 1 .. z : s[i] \in Keys
        /\ \A i, j \in 1 .. z : s[i] = s[j] => i = j
    BY <1>1, QueueFacts
  <1> DEFINE later == p + 1 .. z
             f == [i \in later |-> s[i]]
  <1>4. Behind(s, s[p]) = {s[i] : i \in later}
    <2>1. Behind(s, s[p]) = {y \in Keys : \E i, j \in 1 .. z : i < j /\ s[i] = s[p] /\ s[j] = y}
      BY <1>1 DEF Behind
    <2>2. ASSUME NEW y \in Behind(s, s[p]) PROVE y \in {s[i] : i \in later}
      <3>1. PICK i \in 1 .. z, j \in 1 .. z : i < j /\ s[i] = s[p] /\ s[j] = y
        BY <2>1, <2>2
      <3>2. i = p
        BY <1>2, <1>3, <3>1
      <3>3. j \in later
        BY <1>2, <3>1, <3>2
      <3> QED BY <3>1, <3>3
    <2>3. ASSUME NEW i \in later PROVE s[i] \in Behind(s, s[p])
      <3>1. i \in 1 .. z /\ p < i
        BY <1>2
      <3>2. s[i] \in Keys
        BY <1>3, <3>1
      <3> HIDE DEF later
      <3> QED BY <1>2, <2>1, <3>1, <3>2
    <2> HIDE DEF later
    <2> QED BY <2>2, <2>3
  <1>5. IsFiniteSet(later) /\ Cardinality(later) = z - p
    <2>1. p + 1 \in Int /\ z \in Int
      BY <1>2
    <2>2. IsFiniteSet(later) /\ Cardinality(later) = IF p + 1 > z THEN 0 ELSE z - (p + 1) + 1
      BY <2>1, FS_Interval
    <2> HIDE DEF later
    <2> QED BY <1>2, <2>2
  <1>6. f \in Bijection(later, Behind(s, s[p]))
    <2>1. later \subseteq 1 .. z
      BY <1>2
    <2> HIDE DEF later
    <2>2. f \in [later -> Behind(s, s[p])]
      BY <1>4
    <2>3. \A i, j \in later : f[i] = f[j] => i = j
      BY <1>3, <2>1
    <2>5. \A i \in later : f[i] = s[i]
      OBVIOUS
    <2> HIDE DEF f
    <2>4. \A y \in Behind(s, s[p]) : \E i \in later : f[i] = y
      <3> SUFFICES ASSUME NEW y \in Behind(s, s[p]) PROVE \E i \in later : f[i] = y
        OBVIOUS
      <3>1. PICK i \in later : y = s[i]
        BY <1>4
      <3> QED BY <2>5, <3>1
    <2> HIDE DEF later
    <2> QED BY <2>2, <2>3, <2>4, Fun_IsBij
  <1> HIDE DEF later, f
  <1>7. ExistsBijection(later, Behind(s, s[p]))
    BY <1>6 DEF ExistsBijection
  <1>8. IsFiniteSet(Behind(s, s[p])) /\ Cardinality(Behind(s, s[p])) = Cardinality(later)
    BY <1>5, <1>7, FS_Bijection
  <1> QED BY <1>1, <1>5, <1>8

(* What was at p is gone, and what was after it is one place earlier.      *)
Lifted(s, r, z, p) ==
    /\ s \in Queues /\ r \in Seq(Keys) /\ z \in Nat /\ z = Len(s) /\ p \in 1 .. z
    /\ Len(r) = z - 1
    /\ \A i \in 1 .. z - 1 : (i < p => r[i] = s[i]) /\ (i >= p => r[i] = s[i + 1])

LEMMA LiftedFacts ==
    ASSUME NEW s, NEW r, NEW z, NEW p, Lifted(s, r, z, p)
    PROVE  /\ r \in Queues /\ Named(r) = Named(s) \ {s[p]}
           /\ \A x : x # s[p] => Behind(r, x) = Behind(s, x) \ {s[p]}
  <1>0. /\ s \in Queues /\ r \in Seq(Keys) /\ z \in Nat /\ z = Len(s) /\ p \in 1 .. z
        /\ Len(r) = z - 1
        /\ \A i \in 1 .. z - 1 : (i < p => r[i] = s[i]) /\ (i >= p => r[i] = s[i + 1])
    BY DEF Lifted
  <1> USE <1>0
  <1>1. /\ \A i \in 1 .. z : s[i] \in Keys
        /\ \A i, j \in 1 .. z : s[i] = s[j] => i = j
    BY QueueFacts
  <1>2. PICK f : f = [i \in 1 .. z - 1 |-> IF i < p THEN i ELSE i + 1]
    OBVIOUS
  <1>3. \A i \in 1 .. z - 1 : f[i] \in 1 .. z /\ f[i] # p /\ r[i] = s[f[i]]
    <2> SUFFICES ASSUME NEW i \in 1 .. z - 1 PROVE f[i] \in 1 .. z /\ f[i] # p /\ r[i] = s[f[i]]
      OBVIOUS
    <2>1. f[i] = IF i < p THEN i ELSE i + 1
      BY <1>2
    <2> QED BY <2>1
  <1>4. \A i, j \in 1 .. z - 1 : (i < j <=> f[i] < f[j]) /\ (f[i] = f[j] => i = j)
    BY <1>2
  <1>5. \A j \in 1 .. z : j # p => \E i \in 1 .. z - 1 : f[i] = j
    <2> SUFFICES ASSUME NEW j \in 1 .. z, j # p PROVE \E i \in 1 .. z - 1 : f[i] = j
      OBVIOUS
    <2>1. CASE j < p
      <3>1. j \in 1 .. z - 1
        BY <2>1
      <3> QED BY <1>2, <2>1, <3>1
    <2>2. CASE j > p
      <3>1. j - 1 \in 1 .. z - 1 /\ ~ (j - 1 < p) /\ (j - 1) + 1 = j
        BY <2>2
      <3> QED BY <1>2, <3>1
    <2> QED BY <2>1, <2>2
  <1>6. r \in Queues
    <2>1. ASSUME NEW i \in 1 .. z - 1, NEW j \in 1 .. z - 1, r[i] = r[j] PROVE i = j
      <3>1. f[i] = f[j]
        BY <1>1, <1>3, <2>1
      <3> QED BY <1>4, <3>1
    <2> QED BY <2>1, QueueIs
  <1>7. Named(r) = Named(s) \ {s[p]}
    <2>1. ASSUME NEW i \in 1 .. z - 1 PROVE r[i] \in Named(s) \ {s[p]}
      BY <1>1, <1>3 DEF Named
    <2>2. ASSUME NEW j \in 1 .. z, s[j] # s[p] PROVE s[j] \in Named(r)
      <3>1. PICK i \in 1 .. z - 1 : f[i] = j
        BY <1>5, <2>2
      <3> QED BY <1>3, <3>1 DEF Named
    <2>3. Named(r) = {r[i] : i \in 1 .. z - 1} /\ Named(s) = {s[j] : j \in 1 .. z}
      BY DEF Named
    <2>4. ASSUME NEW x \in Named(r) PROVE x \in Named(s) \ {s[p]}
      <3>1. PICK i \in 1 .. z - 1 : x = r[i]
        BY <2>3
      <3> QED BY <2>1, <3>1
    <2>5. ASSUME NEW x \in Named(s) \ {s[p]} PROVE x \in Named(r)
      <3>1. PICK j \in 1 .. z : x = s[j]
        BY <2>3
      <3> QED BY <2>2, <2>5, <3>1
    <2> QED BY <2>4, <2>5
  <1>8. ASSUME NEW x, x # s[p] PROVE Behind(r, x) = Behind(s, x) \ {s[p]}
    <2>1. ASSUME NEW y \in Behind(r, x) PROVE y \in Behind(s, x) /\ y # s[p]
      <3>1. PICK i \in 1 .. z - 1, j \in 1 .. z - 1 : i < j /\ r[i] = x /\ r[j] = y
        BY <2>1 DEF Behind
      <3>2. f[i] \in 1 .. z /\ f[j] \in 1 .. z /\ f[j] # p /\ s[f[i]] = x /\ s[f[j]] = y
        BY <1>3, <3>1
      <3>3. f[i] < f[j]
        BY <1>4, <3>1
      <3> QED BY <1>1, <2>1, <3>2, <3>3 DEF Behind
    <2>2. ASSUME NEW y \in Behind(s, x), y # s[p] PROVE y \in Behind(r, x)
      <3>1. PICK i \in 1 .. z, j \in 1 .. z : i < j /\ s[i] = x /\ s[j] = y
        BY <2>2 DEF Behind
      <3>2. PICK a \in 1 .. z - 1 : f[a] = i
        BY <1>5, <1>8, <3>1
      <3>3. PICK b \in 1 .. z - 1 : f[b] = j
        BY <1>5, <2>2, <3>1
      <3>4. a < b
        BY <1>4, <3>1, <3>2, <3>3
      <3>5. r[a] = x /\ r[b] = y
        BY <1>3, <3>1, <3>2, <3>3
      <3> QED BY <2>2, <3>4, <3>5 DEF Behind
    <2> QED BY <2>1, <2>2
  <1> QED BY <1>6, <1>7, <1>8

(* Without k the others stay, in their order.                              *)
LEMMA WithoutFacts ==
    ASSUME NEW s \in Queues, NEW k
    PROVE  /\ Without(s, k) \in Queues /\ Named(Without(s, k)) = Named(s) \ {k}
           /\ Len(Without(s, k)) \in Nat /\ Len(Without(s, k)) <= Len(s)
           /\ Contains(s, k) => Len(Without(s, k)) = Len(s) - 1
           /\ \A x : x # k => Behind(Without(s, k), x) = Behind(s, x) \ {k}
  <1>0. s \in Seq(Keys) /\ DOMAIN s = 1 .. Len(s) /\ Len(s) \in Nat
    BY QueueFacts
  <1>1. CASE ~ Contains(s, k)
    <2>1. Without(s, k) = s /\ k \notin Named(s)
      BY <1>1, QueueFacts DEF Without
    <2>2. \A x : k \notin Behind(s, x)
      BY <2>1 DEF Behind, Named
    <2>3. \A x : Behind(s, x) = Behind(s, x) \ {k}
      BY <2>2
    <2>4. Named(s) = Named(s) \ {k}
      BY <2>1
    <2>5. Len(s) <= Len(s)
      BY <1>0
    <2>6. PICK w : w = Without(s, k)
      OBVIOUS
    <2>7. w = s
      BY <2>1, <2>6
    <2>8. \A x : x # k => Behind(w, x) = Behind(s, x) \ {k}
      BY <2>3, <2>7, Zenon
    <2> QED BY <1>0, <1>1, <2>4, <2>5, <2>6, <2>7, <2>8, Zenon
  <1>2. CASE Contains(s, k)
    <2>1. PICK z \in Nat : z = Len(s)
      BY <1>0
    <2>2. PICK p : p = CHOOSE i \in DOMAIN s : s[i] = k
      OBVIOUS
    <2>3. p \in 1 .. z /\ s[p] = k
      BY <1>0, <1>2, <2>1, <2>2 DEF Contains
    <2>4. Without(s, k) = SubSeq(s, 1, p - 1) \o SubSeq(s, p + 1, z)
      BY <1>2, <2>1, <2>2 DEF Without, RemoveAt
    <2>5. PICK a : a = SubSeq(s, 1, p - 1)
      OBVIOUS
    <2>6. PICK b : b = SubSeq(s, p + 1, z)
      OBVIOUS
    <2>7. \A i \in 1 .. z : s[i] \in Keys
      BY <2>1, QueueFacts
    <2>8. a \in Seq(Keys) /\ Len(a) = p - 1 /\ \A i \in 1 .. p - 1 : a[i] = s[i]
      BY <1>0, <2>1, <2>3, <2>5, <2>7, SubSeqProperties
    <2>9. /\ b \in Seq(Keys) /\ Len(b) = z - p
          /\ \A i \in 1 .. z - p : b[i] = s[p + i]
      <3>1. /\ b \in Seq(Keys)
            /\ Len(b) = IF p + 1 <= z THEN z - (p + 1) + 1 ELSE 0
            /\ \A i \in 1 .. z - (p + 1) + 1 : b[i] = s[(p + 1) + i - 1]
        BY <1>0, <2>1, <2>3, <2>6, <2>7, SubSeqProperties
      <3>2. Len(b) = z - p
        BY <2>3, <3>1
      <3>3. ASSUME NEW i \in 1 .. z - p PROVE b[i] = s[p + i]
        <4>1. i \in 1 .. z - (p + 1) + 1 /\ (p + 1) + i - 1 = p + i
          BY <2>3
        <4> QED BY <3>1, <4>1
      <3> QED BY <3>1, <3>2, <3>3
    <2>10. PICK r : r = a \o b
      OBVIOUS
    <2>11. /\ r \in Seq(Keys) /\ Len(r) = z - 1
           /\ \A i \in 1 .. z - 1 : r[i] = IF i <= p - 1 THEN a[i] ELSE b[i - (p - 1)]
      <3>1. /\ r \in Seq(Keys) /\ Len(r) = Len(a) + Len(b)
            /\ \A i \in 1 .. Len(a) + Len(b) :
                 r[i] = IF i <= Len(a) THEN a[i] ELSE b[i - Len(a)]
        BY <2>8, <2>9, <2>10, ConcatProperties
      <3>2. Len(a) + Len(b) = z - 1
        BY <2>3, <2>8, <2>9
      <3> QED BY <2>8, <3>1, <3>2
    <2>12. \A i \in 1 .. z - 1 : (i < p => r[i] = s[i]) /\ (i >= p => r[i] = s[i + 1])
      <3> SUFFICES ASSUME NEW i \in 1 .. z - 1
                   PROVE  (i < p => r[i] = s[i]) /\ (i >= p => r[i] = s[i + 1])
        OBVIOUS
      <3>1. CASE i < p
        <4>1. i <= p - 1 /\ i \in 1 .. p - 1 /\ ~ (i >= p)
          BY <2>3, <3>1
        <4> QED BY <2>8, <2>11, <4>1
      <3>2. CASE i >= p
        <4>1. ~ (i <= p - 1) /\ i - (p - 1) \in 1 .. z - p /\ p + (i - (p - 1)) = i + 1
          BY <2>3, <3>2
        <4>2. r[i] = b[i - (p - 1)]
          BY <2>11, <4>1
        <4>3. b[i - (p - 1)] = s[p + (i - (p - 1))]
          BY <2>9, <4>1
        <4> QED BY <2>3, <3>2, <4>1, <4>2, <4>3
      <3> QED BY <2>3, <3>1, <3>2
    <2>13. /\ r \in Queues /\ Named(r) = Named(s) \ {s[p]}
           /\ \A x : x # s[p] => Behind(r, x) = Behind(s, x) \ {s[p]}
      <3>1. Lifted(s, r, z, p)
        BY <2>1, <2>3, <2>11, <2>12 DEF Lifted
      <3> QED BY <3>1, LiftedFacts
    <2>14. Without(s, k) = r
      BY <2>4, <2>5, <2>6, <2>10
    <2>15. Len(r) \in Nat /\ Len(r) <= Len(s) /\ Len(r) = Len(s) - 1
      BY <2>1, <2>3, <2>11
    <2> QED BY <2>3, <2>13, <2>14, <2>15
  <1> QED BY <1>1, <1>2

(* s with k at its end: in front of it the rest of s, in order.            *)
LEMMA MoveToEndFacts ==
    ASSUME NEW s \in Queues, NEW k \in Keys
    PROVE  LET r == MoveToEnd(s, k)
           IN  /\ r \in Queues /\ Named(r) = Named(s) \cup {k}
               /\ Behind(r, k) = {} /\ (Contains(s, k) => Len(r) = Len(s))
               /\ \A x \in Named(s) \ {k} : Behind(r, x) = Behind(s, x) \cup {k}
  <1>1. PICK w : w = Without(s, k)
    OBVIOUS
  <1>2. /\ w \in Queues /\ Named(w) = Named(s) \ {k}
        /\ \A x : x # k => Behind(w, x) = Behind(s, x) \ {k}
    BY <1>1, WithoutFacts
  <1>3. w \in Seq(Keys)
    BY <1>2, QueueFacts
  <1>4. PICK z \in Nat : z = Len(w)
    BY <1>2, QueueFacts
  <1>5. PICK r : r = Append(w, k)
    OBVIOUS
  <1>6. MoveToEnd(s, k) = r
    BY <1>1, <1>5 DEF MoveToEnd
  <1>7. r \in Seq(Keys) /\ Len(r) = z + 1 /\ r[z + 1] = k /\ \A i \in 1 .. z : r[i] = w[i]
    BY <1>3, <1>4, <1>5, AppendProperties
  <1>8. \A i \in 1 .. z : w[i] # k /\ w[i] \in Keys
    BY <1>2, <1>4, QueueFacts DEF Named
  <1>9. \A i, j \in 1 .. z : w[i] = w[j] => i = j
    BY <1>2, <1>4, QueueFacts
  <1>10. r \in Queues
    <2>1. ASSUME NEW i \in 1 .. z + 1, NEW j \in 1 .. z + 1, r[i] = r[j] PROVE i = j
      <3>1. CASE i = z + 1 \/ j = z + 1
        <4>1. \A a \in 1 .. z + 1 : r[a] = k => a = z + 1
          BY <1>7, <1>8
        <4> QED BY <1>7, <2>1, <3>1, <4>1
      <3>2. CASE i \in 1 .. z /\ j \in 1 .. z
        BY <1>7, <1>9, <2>1, <3>2
      <3> QED BY <3>1, <3>2
    <2> QED BY <1>7, <2>1, QueueIs
  <1>11. Named(r) = Named(s) \cup {k}
    <2>1. Named(r) = Named(w) \cup {k}
      <3>1. \A i \in 1 .. z + 1 : i = z + 1 \/ i \in 1 .. z
        OBVIOUS
      <3>2. z + 1 \in 1 .. z + 1 /\ \A i \in 1 .. z : i \in 1 .. z + 1
        OBVIOUS
      <3>3. Named(r) = {r[i] : i \in 1 .. z + 1} /\ Named(w) = {w[i] : i \in 1 .. z}
        BY <1>4, <1>7 DEF Named
      <3>4. ASSUME NEW x \in Named(r) PROVE x \in Named(w) \cup {k}
        BY <1>7, <3>1, <3>3
      <3>5. ASSUME NEW x \in Named(w) \cup {k} PROVE x \in Named(r)
        BY <1>7, <3>2, <3>3
      <3> QED BY <3>4, <3>5
    <2> QED BY <1>2, <2>1
  <1>12. Behind(r, k) = {}
    <2> SUFFICES ASSUME NEW i \in 1 .. z + 1, NEW j \in 1 .. z + 1, i < j, r[i] = k PROVE FALSE
      BY <1>7 DEF Behind
    <2>1. i \in 1 .. z
      OBVIOUS
    <2> QED BY <1>7, <1>8, <2>1
  <1>13. ASSUME NEW x \in Named(s) \ {k} PROVE Behind(r, x) = Behind(s, x) \cup {k}
    <2>1. Behind(w, x) = Behind(s, x) \ {k}
      BY <1>2
    <2>2. PICK a \in 1 .. z : w[a] = x
      <3>1. x \in Named(w)
        BY <1>2
      <3> QED BY <1>4, <3>1 DEF Named
    <2>3. ASSUME NEW y \in Behind(r, x) PROVE y \in Behind(w, x) \cup {k}
      <3>1. PICK i \in 1 .. z + 1, j \in 1 .. z + 1 : i < j /\ r[i] = x /\ r[j] = y
        BY <1>7, <2>3 DEF Behind
      <3>2. CASE j = z + 1
        BY <1>7, <3>1, <3>2
      <3>3. CASE j # z + 1
        <4>1. i \in 1 .. z /\ j \in 1 .. z
          BY <3>1, <3>3
        <4>2. w[i] = x /\ w[j] = y
          BY <1>7, <3>1, <4>1
        <4> QED BY <1>4, <2>3, <3>1, <4>1, <4>2 DEF Behind
      <3> QED BY <3>2, <3>3
    <2>4. k \in Behind(r, x)
      <3>1. a \in 1 .. z + 1 /\ z + 1 \in 1 .. z + 1 /\ a < z + 1
        OBVIOUS
      <3>2. r[a] = x /\ r[z + 1] = k
        BY <1>7, <2>2
      <3> QED BY <1>7, <3>1, <3>2 DEF Behind
    <2>5. ASSUME NEW y \in Behind(w, x) PROVE y \in Behind(r, x)
      <3>1. PICK i \in 1 .. z, j \in 1 .. z : i < j /\ w[i] = x /\ w[j] = y
        BY <1>4, <2>5 DEF Behind
      <3>2. i \in 1 .. z + 1 /\ j \in 1 .. z + 1 /\ r[i] = x /\ r[j] = y
        BY <1>7, <3>1
      <3> QED BY <1>7, <2>5, <3>1, <3>2 DEF Behind
    <2> QED BY <2>1, <2>3, <2>4, <2>5
  <1>14. Contains(s, k) => Len(r) = Len(s)
    <2> SUFFICES ASSUME Contains(s, k) PROVE Len(r) = Len(s)
      OBVIOUS
    <2>1. z = Len(s) - 1 /\ Len(s) \in Nat
      BY <1>1, <1>4, QueueFacts, WithoutFacts
    <2> QED BY <1>7, <2>1
  <1> QED BY <1>6, <1>10, <1>11, <1>12, <1>13, <1>14

(* The last m of s; what is dropped has m or more behind it.               *)
LEMMA NewestFacts ==
    ASSUME NEW s \in Queues, NEW m \in Nat
    PROVE  LET r == Newest(s, m)
           IN  /\ r \in Queues /\ Len(r) \in Nat /\ Len(r) <= m
               /\ Named(r) \subseteq Named(s)
               /\ \A x : Behind(r, x) \subseteq Behind(s, x)
               /\ \A x \in Named(s) \ Named(r) : Cardinality(Behind(s, x)) >= m
               /\ \A x \in Named(r) : Cardinality(Behind(s, x)) < m
  <1>1. PICK z \in Nat : z = Len(s)
    BY QueueFacts
  <1>2. PICK d : d = IF z > m THEN z - m ELSE 0
    OBVIOUS
  <1>3. d \in Nat /\ d <= z /\ z - d <= m /\ z - d \in Nat /\ (d = 0 \/ z - d = m)
    BY <1>2
  <1>4. PICK r : r = SubSeq(s, d + 1, z)
    OBVIOUS
  <1>5. Newest(s, m) = r
    <2>1. (IF z > m THEN z - m + 1 ELSE 1) = d + 1
      BY <1>2
    <2> QED BY <1>1, <1>4, <2>1 DEF Newest
  <1>6. /\ s \in Seq(Keys) /\ \A i \in 1 .. z : s[i] \in Keys
        /\ \A i, j \in 1 .. z : s[i] = s[j] => i = j
    BY <1>1, QueueFacts
  <1>7. r \in Seq(Keys) /\ Len(r) = z - d /\ \A i \in 1 .. z - d : r[i] = s[d + i]
    <2>1. /\ r \in Seq(Keys)
          /\ Len(r) = IF d + 1 <= z THEN z - (d + 1) + 1 ELSE 0
          /\ \A i \in 1 .. z - (d + 1) + 1 : r[i] = s[(d + 1) + i - 1]
      <3>1. d + 1 \in 1 .. z + 1 /\ z \in d .. z
        BY <1>3
      <3>2. \A i \in d + 1 .. z : s[i] \in Keys
        BY <1>3, <1>6
      <3> QED BY <1>1, <1>4, <1>6, <3>1, <3>2, SubSeqProperties
    <2>2. Len(r) = z - d
      BY <1>3, <2>1
    <2>3. ASSUME NEW i \in 1 .. z - d PROVE r[i] = s[d + i]
      <3>1. i \in 1 .. z - (d + 1) + 1 /\ (d + 1) + i - 1 = d + i
        BY <1>3
      <3> QED BY <2>1, <3>1
    <2> QED BY <2>1, <2>2, <2>3
  <1>8. \A i \in 1 .. z - d : d + i \in 1 .. z
    BY <1>3
  <1>9. r \in Queues
    <2>1. ASSUME NEW i \in 1 .. z - d, NEW j \in 1 .. z - d, r[i] = r[j] PROVE i = j
      <3>1. d + i = d + j
        BY <1>6, <1>7, <1>8, <2>1
      <3> QED BY <1>3, <3>1
    <2> QED BY <1>7, <2>1, QueueIs
  <1>10. Named(r) \subseteq Named(s)
    BY <1>1, <1>7, <1>8 DEF Named
  <1>11. ASSUME NEW x, NEW y \in Behind(r, x) PROVE y \in Behind(s, x)
    <2>1. PICK i \in 1 .. z - d, j \in 1 .. z - d : i < j /\ r[i] = x /\ r[j] = y
      BY <1>7, <1>11 DEF Behind
    <2>2. d + i \in 1 .. z /\ d + j \in 1 .. z /\ s[d + i] = x /\ s[d + j] = y
      BY <1>7, <1>8, <2>1
    <2>3. d + i < d + j
      BY <1>3, <2>1
    <2> QED BY <1>1, <1>11, <2>2, <2>3 DEF Behind
  <1>12. ASSUME NEW x \in Named(s) \ Named(r) PROVE Cardinality(Behind(s, x)) >= m
    <2>1. PICK p \in 1 .. z : s[p] = x
      BY <1>1, <1>12 DEF Named
    <2>2. p <= d
      <3> SUFFICES ASSUME p > d PROVE FALSE
        BY <1>3
      <3>1. p - d \in 1 .. z - d /\ d + (p - d) = p
        BY <1>3
      <3>2. r[p - d] = x
        BY <1>7, <2>1, <3>1
      <3> QED BY <1>7, <1>12, <3>1, <3>2 DEF Named
    <2>3. Cardinality(Behind(s, x)) = z - p
      BY <1>1, <2>1, BehindCount
    <2> QED BY <1>3, <2>2, <2>3
  <1>13. ASSUME NEW x \in Named(r) PROVE Cardinality(Behind(s, x)) < m
    <2>1. PICK i \in 1 .. z - d : r[i] = x
      BY <1>7, <1>13 DEF Named
    <2>2. d + i \in 1 .. z /\ s[d + i] = x
      BY <1>7, <1>8, <2>1
    <2>3. Cardinality(Behind(s, x)) = z - (d + i)
      BY <1>1, <2>2, BehindCount
    <2> QED BY <1>3, <2>3
  <1>14. Len(r) \in Nat /\ Len(r) <= m
    BY <1>3, <1>7
  <1> QED BY <1>5, <1>9, <1>10, <1>11, <1>12, <1>13, <1>14

(* The store keeps its keys in the order of their last use, and a key that *)
(* is gone before its time has MaxEntries later ones behind it.            *)
CacheInv ==
    /\ store \in Queues /\ Len(store) <= MaxEntries
    /\ touched \in Queues /\ stale \subseteq Keys
    /\ \A x \in Named(store) : x \in Named(touched) /\ Behind(store, x) \subseteq Behind(touched, x)
    /\ \A x \in Named(touched) \ stale :
         x \notin Named(store) => Cardinality(Behind(touched, x)) >= MaxEntries

(* Finitely many are behind a key.                                         *)
LEMMA BehindSize ==
    ASSUME NEW s \in Queues, NEW x \in Named(s)
    PROVE  IsFiniteSet(Behind(s, x)) /\ Cardinality(Behind(s, x)) \in Nat
  <1>1. PICK p \in 1 .. Len(s) : s[p] = x
    BY DEF Named
  <1>2. IsFiniteSet(Behind(s, x))
    BY <1>1, BehindCount
  <1> QED BY <1>2, FS_CardinalityType

(* A count in one order that the other's reaches as well.                  *)
LEMMA BehindMore ==
    ASSUME NEW s \in Queues, NEW t \in Queues, NEW x \in Named(t), NEW m \in Nat,
           x \in Named(s), Behind(s, x) \subseteq Behind(t, x), Cardinality(Behind(s, x)) >= m
    PROVE  Cardinality(Behind(t, x)) >= m
  <1>1. IsFiniteSet(Behind(t, x)) /\ Cardinality(Behind(t, x)) \in Nat
    BY BehindSize
  <1>2. Cardinality(Behind(s, x)) \in Nat
    BY BehindSize
  <1>3. Cardinality(Behind(s, x)) <= Cardinality(Behind(t, x))
    BY <1>1, FS_Subset
  <1> QED BY <1>1, <1>2, <1>3

(* A key put or hit goes to the end of both orders.                        *)
LEMMA BothMoved ==
    ASSUME CacheInv, NEW k \in Keys, NEW s, NEW t,
           s = MoveToEnd(store, k), t = MoveToEnd(touched, k)
    PROVE  /\ s \in Queues /\ t \in Queues /\ k \in Named(s)
           /\ \A x \in Named(s) : x \in Named(t) /\ Behind(s, x) \subseteq Behind(t, x)
           /\ \A x \in Named(t) \ (stale \ {k}) :
                x \notin Named(s) => Cardinality(Behind(t, x)) >= MaxEntries
  <1>1. store \in Queues /\ touched \in Queues
    BY DEF CacheInv
  <1>2. /\ s \in Queues /\ Named(s) = Named(store) \cup {k} /\ Behind(s, k) = {}
        /\ \A x \in Named(store) \ {k} : Behind(s, x) = Behind(store, x) \cup {k}
    BY <1>1, MoveToEndFacts
  <1>3. /\ t \in Queues /\ Named(t) = Named(touched) \cup {k}
        /\ \A x \in Named(touched) \ {k} : Behind(t, x) = Behind(touched, x) \cup {k}
    BY <1>1, MoveToEndFacts
  <1>4. ASSUME NEW x \in Named(s) PROVE x \in Named(t) /\ Behind(s, x) \subseteq Behind(t, x)
    <2>1. CASE x = k
      BY <1>2, <1>3, <2>1
    <2>2. CASE x # k
      <3>1. x \in Named(store) /\ x \in Named(touched)
            /\ Behind(store, x) \subseteq Behind(touched, x)
        BY <1>2, <1>4, <2>2 DEF CacheInv
      <3> QED BY <1>2, <1>3, <2>2, <3>1
    <2> QED BY <2>1, <2>2
  <1>5. ASSUME NEW x \in Named(t) \ (stale \ {k}), x \notin Named(s)
        PROVE  Cardinality(Behind(t, x)) >= MaxEntries
    <2>1. x # k /\ x \notin Named(store) /\ x \in Named(touched) \ stale
      BY <1>2, <1>3, <1>5
    <2>2. Cardinality(Behind(touched, x)) >= MaxEntries
      BY <2>1 DEF CacheInv
    <2>3. Behind(touched, x) \subseteq Behind(t, x)
      BY <1>3, <2>1
    <2> QED BY <1>1, <1>3, <2>1, <2>2, <2>3, BehindMore, CacheAssumption
  <1> QED BY <1>2, <1>3, <1>4, <1>5

LEMMA HitKeeps == ASSUME CacheInv, NEW k \in Keys, MemGetHit(k) PROVE CacheInv'
  <1>1. PICK s, t : s = MoveToEnd(store, k) /\ t = MoveToEnd(touched, k)
    OBVIOUS
  <1>2. store' = s /\ touched' = t /\ stale' = stale
    BY <1>1 DEF MemGetHit
  <1>3. /\ s \in Queues /\ t \in Queues
        /\ \A x \in Named(s) : x \in Named(t) /\ Behind(s, x) \subseteq Behind(t, x)
        /\ \A x \in Named(t) \ (stale \ {k}) :
             x \notin Named(s) => Cardinality(Behind(t, x)) >= MaxEntries
    BY <1>1, BothMoved
  <1>4. Len(s) <= MaxEntries
    <2>1. Contains(store, k) /\ store \in Queues /\ Len(store) <= MaxEntries
      BY DEF MemGetHit, Hit, CacheInv
    <2> QED BY <1>1, <2>1, MoveToEndFacts
  <1>5. stale \subseteq Keys
    BY DEF CacheInv
  <1> QED BY <1>2, <1>3, <1>4, <1>5 DEF CacheInv

LEMMA MissKeeps == ASSUME CacheInv, NEW k \in Keys, MemGetMiss(k) PROVE CacheInv'
  <1>1. PICK s : s = Without(store, k)
    OBVIOUS
  <1>2. store' = s /\ touched' = touched /\ stale' = stale
    BY <1>1 DEF MemGetMiss
  <1>3. /\ store \in Queues /\ Len(store) \in Nat /\ Len(store) <= MaxEntries
        /\ touched \in Queues /\ stale \subseteq Keys
    BY QueueFacts DEF CacheInv
  <1>4. /\ s \in Queues /\ Named(s) = Named(store) \ {k}
        /\ Len(s) \in Nat /\ Len(s) <= Len(store)
        /\ \A x : x # k => Behind(s, x) = Behind(store, x) \ {k}
    BY <1>1, <1>3, WithoutFacts
  <1>5. k \notin Named(store) \/ k \in stale
    BY <1>3, QueueFacts DEF MemGetMiss, Hit
  <1>6. ASSUME NEW x \in Named(s)
        PROVE  x \in Named(touched) /\ Behind(s, x) \subseteq Behind(touched, x)
    BY <1>4 DEF CacheInv
  <1>7. ASSUME NEW x \in Named(touched) \ stale, x \notin Named(s)
        PROVE  Cardinality(Behind(touched, x)) >= MaxEntries
    <2>1. x \notin Named(store)
      BY <1>4, <1>5, <1>7
    <2> QED BY <2>1 DEF CacheInv
  <1>8. Len(s) <= MaxEntries
    BY <1>3, <1>4, CacheAssumption
  <1> QED BY <1>2, <1>3, <1>4, <1>6, <1>7, <1>8 DEF CacheInv

LEMMA PutKeeps == ASSUME CacheInv, NEW k \in Keys, MemPut(k) PROVE CacheInv'
  <1>1. PICK s, t : s = MoveToEnd(store, k) /\ t = MoveToEnd(touched, k)
    OBVIOUS
  <1>2. PICK r : r = Newest(s, MaxEntries)
    OBVIOUS
  <1>3. store' = r /\ touched' = t /\ stale' = stale \ {k}
    BY <1>1, <1>2 DEF MemPut
  <1>4. /\ s \in Queues /\ t \in Queues
        /\ \A x \in Named(s) : x \in Named(t) /\ Behind(s, x) \subseteq Behind(t, x)
        /\ \A x \in Named(t) \ (stale \ {k}) :
             x \notin Named(s) => Cardinality(Behind(t, x)) >= MaxEntries
    BY <1>1, BothMoved
  <1>5. /\ r \in Queues /\ Len(r) <= MaxEntries /\ Named(r) \subseteq Named(s)
        /\ \A x : Behind(r, x) \subseteq Behind(s, x)
        /\ \A x \in Named(s) \ Named(r) : Cardinality(Behind(s, x)) >= MaxEntries
    BY <1>2, <1>4, CacheAssumption, NewestFacts
  <1>6. ASSUME NEW x \in Named(r)
        PROVE  x \in Named(t) /\ Behind(r, x) \subseteq Behind(t, x)
    BY <1>4, <1>5
  <1>7. ASSUME NEW x \in Named(t) \ (stale \ {k}), x \notin Named(r)
        PROVE  Cardinality(Behind(t, x)) >= MaxEntries
    <2>1. CASE x \in Named(s)
      <3>1. Cardinality(Behind(s, x)) >= MaxEntries /\ Behind(s, x) \subseteq Behind(t, x)
        BY <1>4, <1>5, <1>7, <2>1
      <3> QED BY <1>4, <2>1, <3>1, BehindMore, CacheAssumption
    <2>2. CASE x \notin Named(s)
      BY <1>4, <1>7, <2>2
    <2> QED BY <2>1, <2>2
  <1>8. stale \ {k} \subseteq Keys
    BY DEF CacheInv
  <1> QED BY <1>3, <1>4, <1>5, <1>6, <1>7, <1>8 DEF CacheInv

LEMMA ExpireKeeps == ASSUME CacheInv, NEW k \in Keys, Expire(k) PROVE CacheInv'
  BY DEF CacheInv, Expire

LEMMA CacheAside == ASSUME CacheInv, UNCHANGED cacheVars PROVE CacheInv'
  BY DEF CacheInv, cacheVars

(* The two orders agree in every state of the cache.                       *)
THEOREM CacheInvariant == CacheSpec => []CacheInv
  <1>1. CacheInit => CacheInv
    <2> SUFFICES ASSUME CacheInit PROVE CacheInv
      OBVIOUS
    <2>1. store = <<>> /\ touched = <<>> /\ stale = {}
      BY DEF CacheInit
    <2>2. <<>> \in Queues /\ Len(<<>>) = 0 /\ Named(<<>>) = {}
      BY DEF Queues, IsInjective, Named
    <2> QED BY <2>1, <2>2, CacheAssumption DEF CacheInv
  <1>2. ASSUME CacheInv, [CacheNext]_cacheVars PROVE CacheInv'
    <2>1. CASE CacheNext
      BY <1>2, <2>1, HitKeeps, MissKeeps, PutKeeps, ExpireKeeps DEF CacheNext
    <2>2. CASE UNCHANGED cacheVars
      BY <1>2, <2>2, CacheAside
    <2> QED BY <1>2, <2>1, <2>2
  <1> QED BY <1>1, <1>2, PTL DEF CacheSpec

(* _mem_put drops no answer that has not expired and is among the last     *)
(* ANSWER_CACHE_MAX put or hit, for any number of keys.                    *)
THEOREM CacheKeepsRecent == CacheSpec => []KeepsRecent
  <1>1. CacheInv => KeepsRecent
    <2> SUFFICES ASSUME CacheInv,
                        NEW k \in ToSet(Newest(touched, MaxEntries)) \ stale
                 PROVE  Contains(store, k)
      BY DEF KeepsRecent
    <2>1. PICK r : r = Newest(touched, MaxEntries)
      OBVIOUS
    <2>2. store \in Queues /\ touched \in Queues
      BY DEF CacheInv
    <2>3. /\ r \in Queues /\ Named(r) \subseteq Named(touched)
          /\ \A x \in Named(r) : Cardinality(Behind(touched, x)) < MaxEntries
      BY <2>1, <2>2, CacheAssumption, NewestFacts
    <2>4. k \in Named(r)
      BY <2>1, <2>3, QueueFacts DEF ToSet, Named
    <2>5. Cardinality(Behind(touched, k)) \in Nat
      BY <2>2, <2>3, <2>4, BehindSize
    <2>6. k \in Named(store)
      <3> SUFFICES ASSUME k \notin Named(store) PROVE FALSE
        OBVIOUS
      <3>1. Cardinality(Behind(touched, k)) >= MaxEntries
        BY <2>3, <2>4 DEF CacheInv
      <3> QED BY <2>3, <2>4, <2>5, <3>1, CacheAssumption
    <2> QED BY <2>2, <2>6, QueueFacts
  <1> QED BY <1>1, CacheInvariant, PTL

(* _store holds ANSWER_CACHE_MAX keys at most, and none twice.             *)
THEOREM CacheTypes == CacheSpec => []CacheTypeOK
  <1>1. CacheInv => CacheTypeOK
    BY DEF CacheInv, CacheTypeOK, Queues
  <1> QED BY <1>1, CacheInvariant, PTL

(* ----------------------------- evaluation ------------------------------ *)
Answers == UNION {Predictions[i] : i \in Nat}

Scored(f, m, i) == i \in images[f] <=> ~ MatchFn(m, said[f][i + 1], Gold[i + 1])

EvalTypes ==
    /\ folder \in Folders \cup {"none"} /\ n \in Nat
    /\ said \in [Folders -> Seq(Answers)]
    /\ images \in [Folders -> SUBSET Nat]
    /\ DOMAIN report = Folders

(* While an evaluation runs, its folder has no report, and the errors it   *)
(* has gathered are the images it has saved.                               *)
Running ==
    folder # "none" =>
        /\ report[folder] = {}
        /\ Len(said[folder]) <= n
        /\ images[folder] = {e.index : e \in errors}
        /\ images[folder] \subseteq 0 .. Len(said[folder]) - 1
        /\ \A i \in 0 .. Len(said[folder]) - 1 : Scored(folder, metric, i)

Reported ==
    \A f \in Folders : \A r \in report[f] :
        /\ Failed(r) = images[f]
        /\ Len(said[f]) = r.n
        /\ \A i \in 0 .. r.n - 1 : Scored(f, r.metric, i)

EvalInv == EvalTypes /\ Running /\ Reported

(* A step that leaves a folder alone leaves its report true.               *)
LEMMA ReportAside ==
    ASSUME NEW f \in Folders, Reported, said'[f] = said[f], images'[f] = images[f],
           report'[f] = report[f]
    PROVE  \A r \in report'[f] :
               /\ Failed(r) = images'[f]
               /\ Len(said'[f]) = r.n
               /\ \A i \in 0 .. r.n - 1 : Scored(f, r.metric, i)'
  BY DEF Reported, Scored

(* An evaluation starts: errors.json goes first.                           *)
LEMMA StartKeeps == ASSUME EvalInv, NEW f \in Folders, Start(f) PROVE EvalInv'
  <1>1. /\ folder' = f /\ errors' = {}
        /\ images' = [images EXCEPT ![f] = {}] /\ report' = [report EXCEPT ![f] = {}]
        /\ said' = [said EXCEPT ![f] = <<>>] /\ n' \in Limits
    BY DEF Start
  <1>2. EvalTypes'
    <2>1. said' \in [Folders -> Seq(Answers)]
      BY <1>1 DEF EvalInv, EvalTypes
    <2> QED BY <1>1, <2>1, EvaluationAssumption DEF EvalInv, EvalTypes
  <1>3. report'[f] = {} /\ said'[f] = <<>> /\ images'[f] = {}
    BY <1>1 DEF EvalInv, EvalTypes
  <1>4. Running'
    <2>1. n' \in Nat
      BY <1>2 DEF EvalTypes
    <2> QED BY <1>1, <1>3, <2>1 DEF Running
  <1>5. Reported'
    <2>1. \A g \in Folders \ {f} : /\ said'[g] = said[g] /\ images'[g] = images[g]
                                   /\ report'[g] = report[g]
      BY <1>1 DEF EvalInv, EvalTypes
    <2> QED BY <1>3, <2>1, ReportAside DEF EvalInv, Reported
  <1> QED BY <1>2, <1>4, <1>5 DEF EvalInv

(* A sample is answered and, if it is wrong, its image is kept.            *)
LEMMA SampleKeeps == ASSUME EvalInv, Sample PROVE EvalInv'
  <1>1. PICK f \in Folders : f = folder /\ folder # "none"
    BY DEF Sample, EvalInv, EvalTypes
  <1>2. PICK i \in Nat : i = Len(said[f]) /\ i < n
    BY <1>1 DEF Sample, EvalInv, EvalTypes
  <1>3. PICK pred \in Predictions[i + 1] :
          /\ said' = [said EXCEPT ![f] = Append(@, pred)]
          /\ \/ MatchFn(metric, pred, Gold[i + 1]) /\ UNCHANGED <<errors, images>>
             \/ /\ ~ MatchFn(metric, pred, Gold[i + 1])
                /\ images' = [images EXCEPT ![f] = @ \cup {i}]
                /\ errors' = errors \cup {[index |-> i, gold |-> Gold[i + 1], pred |-> pred]}
    BY <1>1, <1>2 DEF Sample
  <1>4. UNCHANGED <<folder, metric, n, report, compared>>
    BY DEF Sample
  <1>5. pred \in Answers
    BY <1>2, <1>3 DEF Answers
  <1>6. said[f] \in Seq(Answers) /\ said'[f] = Append(said[f], pred)
    BY <1>3 DEF EvalInv, EvalTypes
  <1>7. /\ Len(said'[f]) = i + 1 /\ said'[f][i + 1] = pred
        /\ \A j \in 0 .. i - 1 : said'[f][j + 1] = said[f][j + 1]
    BY <1>2, <1>5, <1>6
  <1>8. EvalTypes'
    <2>1. said' \in [Folders -> Seq(Answers)]
      BY <1>3, <1>5, <1>6 DEF EvalInv, EvalTypes
    <2>2. images' \in [Folders -> SUBSET Nat]
      BY <1>3 DEF EvalInv, EvalTypes
    <2> QED BY <1>4, <2>1, <2>2 DEF EvalInv, EvalTypes
  <1>9. \/ MatchFn(metric, pred, Gold[i + 1]) /\ images'[f] = images[f]
        \/ ~ MatchFn(metric, pred, Gold[i + 1]) /\ images'[f] = images[f] \cup {i}
    BY <1>3 DEF EvalInv, EvalTypes
  <1>10. images[f] \subseteq 0 .. i - 1
    BY <1>1, <1>2 DEF EvalInv, Running
  <1>11. images'[f] = {e.index : e \in errors'}
    <2>1. images[f] = {e.index : e \in errors}
      BY <1>1 DEF EvalInv, Running
    <2>2. CASE UNCHANGED <<errors, images>>
      BY <2>1, <2>2
    <2>3. CASE /\ images' = [images EXCEPT ![f] = @ \cup {i}]
               /\ errors' = errors \cup {[index |-> i, gold |-> Gold[i + 1], pred |-> pred]}
      <3>1. PICK x : x = [index |-> i, gold |-> Gold[i + 1], pred |-> pred]
        OBVIOUS
      <3>2. x.index = i
        BY <3>1
      <3>3. {e.index : e \in errors \cup {x}} = {e.index : e \in errors} \cup {x.index}
        OBVIOUS
      <3>4. images'[f] = images[f] \cup {i}
        BY <2>3 DEF EvalInv, EvalTypes
      <3> QED BY <2>1, <2>3, <3>1, <3>2, <3>3, <3>4
    <2> QED BY <1>3, <2>2, <2>3
  <1>12. \A j \in 0 .. i : Scored(f, metric, j)'
    <2>1. ASSUME NEW j \in 0 .. i - 1 PROVE Scored(f, metric, j)'
      <3>1. Scored(f, metric, j)
        BY <1>1, <1>2 DEF EvalInv, Running
      <3>2. j \in images'[f] <=> j \in images[f]
        BY <1>2, <1>9
      <3> QED BY <1>4, <1>7, <3>1, <3>2 DEF Scored
    <2>2. Scored(f, metric, i)'
      <3>1. i \notin images[f]
        BY <1>2, <1>10
      <3> QED BY <1>4, <1>7, <1>9, <3>1 DEF Scored
    <2> QED BY <1>2, <2>1, <2>2
  <1>13. Running'
    <2>1. report'[f] = {} /\ i + 1 <= n
      BY <1>1, <1>2, <1>4 DEF EvalInv, Running, EvalTypes
    <2>2. images'[f] \subseteq 0 .. i
      BY <1>2, <1>9, <1>10
    <2> QED BY <1>1, <1>2, <1>4, <1>7, <1>11, <1>12, <2>1, <2>2 DEF Running
  <1>14. Reported'
    <2>1. \A g \in Folders \ {f} : /\ said'[g] = said[g] /\ images'[g] = images[g]
                                   /\ report'[g] = report[g]
      BY <1>3, <1>4 DEF EvalInv, EvalTypes
    <2>2. report'[f] = {}
      BY <1>1, <1>4 DEF EvalInv, Running
    <2> QED BY <2>1, <2>2, ReportAside DEF EvalInv, Reported
  <1> QED BY <1>8, <1>13, <1>14 DEF EvalInv

(* errors.json is written last.                                            *)
LEMMA ReportKeeps == ASSUME EvalInv, Report PROVE EvalInv'
  <1>1. PICK f \in Folders : f = folder /\ folder # "none"
    BY DEF Report, EvalInv, EvalTypes
  <1>2. /\ Len(said[f]) = n /\ folder' = "none"
        /\ report' = [report EXCEPT ![f] = {[metric |-> metric, n |-> n, errors |-> errors]}]
        /\ UNCHANGED <<n, images, said>>
    BY <1>1 DEF Report
  <1>3. EvalTypes'
    BY <1>2 DEF EvalInv, EvalTypes
  <1>4. Running'
    BY <1>2 DEF Running
  <1>5. report'[f] = {[metric |-> metric, n |-> n, errors |-> errors]}
    BY <1>2 DEF EvalInv, EvalTypes
  <1>6. /\ images[f] = {e.index : e \in errors}
        /\ \A i \in 0 .. n - 1 : Scored(f, metric, i)
    BY <1>1, <1>2 DEF EvalInv, Running
  <1>7. \A i : Scored(f, metric, i) => \A r \in report'[f] : Scored(f, r.metric, i)'
    BY <1>2, <1>5 DEF Scored
  <1>8. \A r \in report'[f] : /\ Failed(r) = images'[f] /\ Len(said'[f]) = r.n
                              /\ \A i \in 0 .. r.n - 1 : Scored(f, r.metric, i)'
    BY <1>2, <1>5, <1>6, <1>7 DEF Failed
  <1>9. \A g \in Folders \ {f} : /\ said'[g] = said[g] /\ images'[g] = images[g]
                                 /\ report'[g] = report[g]
    BY <1>2 DEF EvalInv, EvalTypes
  <1>10. Reported'
    BY <1>8, <1>9, ReportAside DEF EvalInv, Reported
  <1> QED BY <1>3, <1>4, <1>10 DEF EvalInv

(* A comparison or a kill touches no error folder.                         *)
LEMMA AsideKeeps ==
    ASSUME EvalInv, UNCHANGED <<n, errors, images, report, said, metric>>,
           folder' \in {folder, "none"}
    PROVE  EvalInv'
  <1>1. EvalTypes'
    BY DEF EvalInv, EvalTypes
  <1>2. \A f, m, i : Scored(f, m, i)' <=> Scored(f, m, i)
    BY DEF Scored
  <1>3. Reported'
    BY <1>2, ReportAside DEF EvalInv, Reported
  <1>4. Running'
    BY <1>2 DEF EvalInv, Running
  <1> QED BY <1>1, <1>3, <1>4 DEF EvalInv

(* The invariant of the errors folders.                                    *)
THEOREM EvaluationInvariant == EvalSpec => []EvalInv
  <1>1. EvalInit => EvalInv
    <2> SUFFICES ASSUME EvalInit PROVE EvalInv
      OBVIOUS
    <2>1. said \in [Folders -> Seq(Answers)]
      BY DEF EvalInit
    <2>2. n \in Nat /\ images \in [Folders -> SUBSET Nat]
      BY DEF EvalInit
    <2>3. \A f \in Folders : report[f] = {}
      BY DEF EvalInit
    <2> QED BY <2>1, <2>2, <2>3 DEF EvalInit, EvalInv, EvalTypes, Running, Reported
  <1>2. ASSUME EvalInv, [EvalNext]_evalVars PROVE EvalInv'
    <2>1. CASE Killed \/ Compare \/ UNCHANGED evalVars
      BY <1>2, <2>1, AsideKeeps DEF Killed, Compare, evalVars
    <2> QED BY <1>2, <2>1, StartKeeps, SampleKeeps, ReportKeeps DEF EvalNext
  <1> QED BY <1>1, <1>2, PTL DEF EvalSpec

(* An errors.json is always that of the last run into its folder, with the *)
(* images beside it, and says of every sample whether the model was right. *)
THEOREM ReportsTrue == EvalSpec => []ErrorsAreLastRun
  <1>1. ASSUME EvalInv PROVE ErrorsAreLastRun
    <2> SUFFICES ASSUME NEW f \in Folders, NEW r \in report[f]
                 PROVE  /\ folder # f
                        /\ Failed(r) = images[f]
                        /\ DOMAIN said[f] = 1 .. r.n
                        /\ \A i \in 0 .. r.n - 1 :
                             Results(r)[i] = "success" <=>
                                 MatchFn(r.metric, said[f][i + 1], Gold[i + 1])
      BY DEF ErrorsAreLastRun
    <2>1. folder # f
      BY <1>1, EvaluationAssumption DEF EvalInv, Running
    <2>2. /\ Failed(r) = images[f] /\ Len(said[f]) = r.n
          /\ \A i \in 0 .. r.n - 1 : Scored(f, r.metric, i)
      BY <1>1 DEF EvalInv, Reported
    <2>3. DOMAIN said[f] = 1 .. r.n
      BY <1>1, <2>2 DEF EvalInv, EvalTypes
    <2>4. ASSUME NEW i \in 0 .. r.n - 1
          PROVE  Results(r)[i] = "success" <=> i \notin Failed(r)
      BY DEF Results
    <2> QED BY <2>1, <2>2, <2>3, <2>4 DEF Scored
  <1> QED BY <1>1, EvaluationInvariant, PTL

(* What the reports tell of each error, and the comparison of the reports. *)
Told(f, es) ==
    \A e \in es : /\ e.index \in 0 .. Len(said[f]) - 1
                  /\ e.gold = Gold[e.index + 1] /\ e.pred = said[f][e.index + 1]

SampleTypes ==
    /\ metric \in {"exact", "relaxed"} /\ n \in 0 .. Len(Gold)
    /\ \A e \in errors : e.index \in 0 .. n
    /\ \A f \in Folders : \A i \in DOMAIN said[f] :
         i \in DOMAIN Gold /\ said[f][i] \in Predictions[i]

ErrorsTold ==
    /\ folder # "none" => Told(folder, errors) /\ compared = {}
    /\ \A f \in Folders : \A r \in report[f] : Told(f, r.errors)

OneReport == \A f \in Folders : \A r, q \in report[f] : r = q

ComparedKnown ==
    \A c \in compared, zs \in report["zero_shot"], lora \in report["lora_finetune"] :
        c.metric = zs.metric /\ c.rows = Rows(zs, lora)

EvalDetail == SampleTypes /\ ErrorsTold /\ OneReport /\ ComparedKnown

(* A step that leaves a folder alone leaves what its report tells true.    *)
LEMMA ToldAside ==
    ASSUME NEW f, NEW es, Told(f, es), said'[f] = said[f]
    PROVE  Told(f, es)'
  BY DEF Told

LEMMA StartDetail ==
    ASSUME EvalInv, EvalDetail, NEW f \in Folders, Start(f) PROVE EvalDetail'
  <1>1. /\ folder' = f /\ errors' = {} /\ compared' = {}
        /\ report' = [report EXCEPT ![f] = {}]
        /\ said' = [said EXCEPT ![f] = <<>>]
        /\ metric' \in {"exact", "relaxed"} /\ n' \in Limits
    BY DEF Start
  <1>2. \A g \in Folders \ {f} : said'[g] = said[g] /\ report'[g] = report[g]
    BY <1>1 DEF EvalInv, EvalTypes
  <1>3. said'[f] = <<>> /\ report'[f] = {}
    BY <1>1 DEF EvalInv, EvalTypes
  <1>4. SampleTypes'
    <2>1. n' \in 0 .. Len(Gold)
      BY <1>1, EvaluationAssumption
    <2> QED BY <1>1, <1>2, <1>3, <2>1 DEF EvalDetail, SampleTypes
  <1>5. ErrorsTold'
    <2>1. ASSUME NEW g \in Folders, NEW r \in report'[g] PROVE Told(g, r.errors)'
      BY <1>2, <1>3, <2>1, ToldAside DEF EvalDetail, ErrorsTold
    <2>2. Told(folder, errors)'
      BY <1>1 DEF Told
    <2> QED BY <1>1, <2>1, <2>2 DEF ErrorsTold
  <1>6. OneReport' /\ ComparedKnown'
    BY <1>1, <1>2, <1>3 DEF EvalDetail, OneReport, ComparedKnown
  <1> QED BY <1>4, <1>5, <1>6 DEF EvalDetail

LEMMA SampleDetail == ASSUME EvalInv, EvalDetail, Sample PROVE EvalDetail'
  <1>1. PICK f \in Folders : f = folder /\ folder # "none"
    BY DEF Sample, EvalInv, EvalTypes
  <1>2. PICK i \in Nat : i = Len(said[f]) /\ i < n
    BY <1>1 DEF Sample, EvalInv, EvalTypes
  <1>3. PICK pred \in Predictions[i + 1] :
          /\ said' = [said EXCEPT ![f] = Append(@, pred)]
          /\ errors' \in {errors, errors \cup
                            {[index |-> i, gold |-> Gold[i + 1], pred |-> pred]}}
    BY <1>1, <1>2 DEF Sample
  <1>4. UNCHANGED <<folder, metric, n, report, compared>>
    BY DEF Sample
  <1>5. i + 1 \in DOMAIN Gold /\ i \in 0 .. n
    BY <1>2, EvaluationAssumption DEF EvalDetail, SampleTypes
  <1>6. /\ said[f] \in Seq(Answers) /\ said'[f] = Append(said[f], pred)
        /\ pred \in Answers
    BY <1>2, <1>3 DEF EvalInv, EvalTypes, Answers
  <1>7. /\ Len(said'[f]) = i + 1 /\ said'[f][i + 1] = pred
        /\ \A j \in 0 .. i - 1 : said'[f][j + 1] = said[f][j + 1]
        /\ \A j \in 1 .. i : j \in DOMAIN said[f] /\ said'[f][j] = said[f][j]
        /\ DOMAIN said'[f] = 1 .. i + 1
    BY <1>2, <1>6
  <1>8. \A g \in Folders \ {f} : said'[g] = said[g]
    BY <1>3 DEF EvalInv, EvalTypes
  <1>9. PICK x : x = [index |-> i, gold |-> Gold[i + 1], pred |-> pred]
    OBVIOUS
  <1>10. x.index = i /\ x.gold = Gold[i + 1] /\ x.pred = pred
    BY <1>9
  <1>11. errors' \in {errors, errors \cup {x}}
    BY <1>3, <1>9
  <1>12. SampleTypes'
    <2>1. \A e \in errors' : e.index \in 0 .. n
      BY <1>5, <1>10, <1>11 DEF EvalDetail, SampleTypes
    <2>2. ASSUME NEW j \in DOMAIN said'[f]
          PROVE  j \in DOMAIN Gold /\ said'[f][j] \in Predictions[j]
      <3>1. j = i + 1 \/ j \in 1 .. i
        BY <1>7
      <3> QED BY <1>1, <1>5, <1>7, <3>1 DEF EvalDetail, SampleTypes
    <2> QED BY <1>4, <1>8, <2>1, <2>2 DEF EvalDetail, SampleTypes
  <1>13. ErrorsTold'
    <2>1. Told(f, errors)'
      <3>1. ASSUME NEW e \in errors
            PROVE  /\ e.index \in 0 .. i
                   /\ e.gold = Gold[e.index + 1] /\ e.pred = said'[f][e.index + 1]
        BY <1>1, <1>2, <1>7 DEF EvalDetail, ErrorsTold, Told
      <3> QED BY <1>2, <1>7, <1>10, <1>11, <3>1 DEF Told
    <2>2. ASSUME NEW g \in Folders, NEW r \in report'[g] PROVE Told(g, r.errors)'
      <3>1. g # f
        BY <1>1, <1>4 DEF EvalInv, Running
      <3> QED BY <1>4, <1>8, <3>1, ToldAside DEF EvalDetail, ErrorsTold
    <2> QED BY <1>1, <1>4, <2>1, <2>2 DEF EvalDetail, ErrorsTold
  <1>14. OneReport' /\ ComparedKnown'
    BY <1>4 DEF EvalDetail, OneReport, ComparedKnown
  <1> QED BY <1>12, <1>13, <1>14 DEF EvalDetail

LEMMA ReportDetail == ASSUME EvalInv, EvalDetail, Report PROVE EvalDetail'
  <1>1. PICK f \in Folders : f = folder /\ folder # "none"
    BY DEF Report, EvalInv, EvalTypes
  <1>2. PICK x : x = [metric |-> metric, n |-> n, errors |-> errors]
    OBVIOUS
  <1>3. /\ folder' = "none" /\ report' = [report EXCEPT ![f] = {x}]
        /\ UNCHANGED <<metric, n, errors, said, compared>>
    BY <1>1, <1>2 DEF Report
  <1>4. report'[f] = {x} /\ \A g \in Folders \ {f} : report'[g] = report[g]
    BY <1>3 DEF EvalInv, EvalTypes
  <1>5. SampleTypes'
    BY <1>3 DEF EvalDetail, SampleTypes
  <1>6. ErrorsTold'
    <2>1. Told(f, x.errors)'
      BY <1>1, <1>2, <1>3, ToldAside DEF EvalDetail, ErrorsTold
    <2>2. \A g \in Folders \ {f} : \A r \in report'[g] : Told(g, r.errors)'
      BY <1>3, <1>4, ToldAside DEF EvalDetail, ErrorsTold
    <2> QED BY <1>3, <1>4, <2>1, <2>2 DEF ErrorsTold
  <1>7. OneReport' /\ ComparedKnown'
    BY <1>1, <1>3, <1>4 DEF EvalDetail, OneReport, ErrorsTold, ComparedKnown
  <1> QED BY <1>5, <1>6, <1>7 DEF EvalDetail

LEMMA CompareDetail ==
    ASSUME EvalInv, EvalDetail, Compare \/ Killed \/ UNCHANGED evalVars
    PROVE  EvalDetail'
  <1>1. UNCHANGED <<metric, n, errors, report, said>> /\ folder' \in {folder, "none"}
    BY DEF Compare, Killed, evalVars
  <1>2. SampleTypes' /\ OneReport'
    BY <1>1 DEF EvalDetail, SampleTypes, OneReport
  <1>3. ErrorsTold'
    <2>1. \A f, es : Told(f, es) => Told(f, es)'
      BY <1>1 DEF Told
    <2>2. folder' # "none" => compared' = compared /\ folder' = folder
      BY DEF Compare, Killed, evalVars
    <2> QED BY <1>1, <2>1, <2>2 DEF EvalDetail, ErrorsTold
  <1>4. ComparedKnown'
    <2>1. CASE Compare
      <3>1. PICK zs \in report["zero_shot"], lora \in report["lora_finetune"] :
              compared' \in {{}, {[metric |-> zs.metric, rows |-> Rows(zs, lora)]}}
        BY <2>1 DEF Compare
      <3>2. \A r \in report["zero_shot"], q \in report["lora_finetune"] : r = zs /\ q = lora
        BY EvaluationAssumption DEF EvalDetail, OneReport
      <3>3. \A c \in compared' : c.metric = zs.metric /\ c.rows = Rows(zs, lora)
        BY <3>1
      <3> QED BY <1>1, <3>2, <3>3 DEF ComparedKnown
    <2>2. CASE Killed \/ UNCHANGED evalVars
      BY <1>1, <2>2 DEF EvalDetail, ComparedKnown, Killed, evalVars
    <2> QED BY <2>1, <2>2
  <1> QED BY <1>2, <1>3, <1>4 DEF EvalDetail

(* What reports and comparison tell is so in every reachable state.        *)
THEOREM ReportsTold == EvalSpec => []EvalDetail
  <1>1. EvalInit => EvalDetail
    <2> SUFFICES ASSUME EvalInit PROVE EvalDetail
      OBVIOUS
    <2>1. Len(Gold) \in Nat
      BY EvaluationAssumption
    <2>2. \A f \in Folders : said[f] = <<>> /\ report[f] = {}
      BY DEF EvalInit
    <2> QED BY <2>1, <2>2, EvaluationAssumption
            DEF EvalInit, EvalDetail, SampleTypes, ErrorsTold, OneReport, ComparedKnown
  <1>2. ASSUME EvalInv, EvalDetail, [EvalNext]_evalVars PROVE EvalDetail'
    BY <1>2, StartDetail, SampleDetail, ReportDetail, CompareDetail DEF EvalNext
  <1> QED BY <1>1, <1>2, EvaluationInvariant, PTL DEF EvalSpec

(* An answer that the scoring reads alike is within the tolerance.         *)
LEMMA SameIsRelaxed ==
    ASSUME NEW i \in DOMAIN Gold,
           NEW a \in Predictions[i] \cup {Gold[i]}, NEW b \in Predictions[i] \cup {Gold[i]},
           a.text = b.text
    PROVE  RelaxedMatch(a, b)
  <1>1. /\ a.number \in Nat \cup {NoNumber} /\ b.number = a.number /\ a.lower = b.lower
    BY EvaluationAssumption
  <1>2. CASE a.number = NoNumber
    BY <1>1, <1>2 DEF RelaxedMatch
  <1>3. CASE a.number # NoNumber
    <2>1. PICK x \in Nat : x = a.number
      BY <1>1, <1>3
    <2>2. Abs(x - x) = 0 /\ 100 * 0 <= 5 * x
      BY DEF Abs
    <2>3. RelaxedMatch(a, b) = IF x = 0 THEN x = 0 ELSE 100 * Abs(x - x) <= 5 * x
      BY <1>1, <1>3, <2>1 DEF RelaxedMatch
    <2> QED BY <2>2, <2>3
  <1> QED BY <1>2, <1>3

(* The samples that two reports name and the rows that come of them.       *)
LEMMA RowFacts ==
    ASSUME NEW zs, NEW lora, NEW w \in Rows(zs, lora)
    PROVE  \/ \E e \in zs.errors : /\ e.index \notin Failed(lora) /\ w.index = e.index
                                   /\ w.zeroShot = e.pred /\ w.lora = e.gold
           \/ \E e \in lora.errors : /\ e.index \notin Failed(zs) /\ w.index = e.index
                                     /\ w.zeroShot = e.gold /\ w.lora = e.pred
  <1>1. \A e : LET v == Row(e, "zero_shot")
               IN v.index = e.index /\ v.zeroShot = e.pred /\ v.lora = e.gold
    BY DEF Row
  <1>2. \A e : LET v == Row(e, "lora_finetune")
               IN v.index = e.index /\ v.zeroShot = e.gold /\ v.lora = e.pred
    BY DEF Row
  <1>3. \/ \E e \in zs.errors : e.index \notin Failed(lora) /\ w = Row(e, "zero_shot")
        \/ \E e \in lora.errors : e.index \notin Failed(zs) /\ w = Row(e, "lora_finetune")
    BY DEF Rows
  <1> QED BY <1>1, <1>2, <1>3

LEMMA RowIndices ==
    ASSUME NEW zs, NEW lora
    PROVE  {w.index : w \in Rows(zs, lora)} =
               (Failed(zs) \ Failed(lora)) \cup (Failed(lora) \ Failed(zs))
  <1>1. \A e : Row(e, "zero_shot").index = e.index /\ Row(e, "lora_finetune").index = e.index
    BY DEF Row
  <1>2. ASSUME NEW i \in (Failed(zs) \ Failed(lora)) \cup (Failed(lora) \ Failed(zs))
        PROVE  \E w \in Rows(zs, lora) : w.index = i
    <2>1. CASE i \in Failed(zs) \ Failed(lora)
      <3>1. PICK e \in zs.errors : e.index = i
        BY <2>1 DEF Failed
      <3>2. Row(e, "zero_shot") \in Rows(zs, lora)
        BY <2>1, <3>1 DEF Rows
      <3> QED BY <1>1, <3>1, <3>2
    <2>2. CASE i \in Failed(lora) \ Failed(zs)
      <3>1. PICK e \in lora.errors : e.index = i
        BY <2>2 DEF Failed
      <3>2. Row(e, "lora_finetune") \in Rows(zs, lora)
        BY <2>2, <3>1 DEF Rows
      <3> QED BY <1>1, <3>1, <3>2
    <2> QED BY <1>2, <2>1, <2>2
  <1>3. ASSUME NEW w \in Rows(zs, lora)
        PROVE  w.index \in (Failed(zs) \ Failed(lora)) \cup (Failed(lora) \ Failed(zs))
    <2>1. \A r : \A e \in r.errors : e.index \in Failed(r)
      BY DEF Failed
    <2> QED BY <2>1, RowFacts
  <1> QED BY <1>2, <1>3

(* A comparison of two exact or two relaxed runs over the same samples     *)
(* lists those that exactly one run got wrong, and what it says the models *)
(* predicted is right, or within the tolerance where --metric was relaxed. *)
THEOREM ComparisonsSound == EvalSpec => []ComparisonSound
  <1>1. ASSUME EvalInv, EvalDetail PROVE ComparisonSound
    <2> SUFFICES ASSUME NEW c \in compared, NEW zs \in report["zero_shot"],
                        NEW lora \in report["lora_finetune"],
                        zs.n = lora.n, zs.metric = lora.metric
                 PROVE  /\ {w.index : w \in c.rows} =
                             {i \in 0 .. zs.n - 1 :
                                MatchFn(zs.metric, said["zero_shot"][i + 1], Gold[i + 1])
                                # MatchFn(lora.metric, said["lora_finetune"][i + 1], Gold[i + 1])}
                        /\ \A w \in c.rows :
                             /\ RelaxedMatch(said["zero_shot"][w.index + 1], w.zeroShot)
                             /\ RelaxedMatch(said["lora_finetune"][w.index + 1], w.lora)
                             /\ c.metric = "exact" =>
                                  /\ w.zeroShot.text = said["zero_shot"][w.index + 1].text
                                  /\ w.lora.text = said["lora_finetune"][w.index + 1].text
      BY DEF ComparisonSound
    <2> DEFINE saidZs == said["zero_shot"]  saidLora == said["lora_finetune"]
               Right(s, i) == MatchFn(zs.metric, s[i + 1], Gold[i + 1])
    <2>0. "zero_shot" \in Folders /\ "lora_finetune" \in Folders
      BY EvaluationAssumption
    <2>1. c.metric = zs.metric /\ c.rows = Rows(zs, lora)
      BY <1>1 DEF EvalDetail, ComparedKnown
    <2>2. /\ Len(saidZs) = zs.n /\ Len(saidLora) = zs.n
          /\ \A i \in 0 .. zs.n - 1 : i \in Failed(zs) <=> ~ Right(saidZs, i)
          /\ \A i \in 0 .. zs.n - 1 : i \in Failed(lora) <=> ~ Right(saidLora, i)
      BY <1>1, <2>0 DEF EvalInv, Reported, Scored
    <2>3. /\ \A e \in zs.errors : /\ e.index \in 0 .. zs.n - 1
                                  /\ e.gold = Gold[e.index + 1] /\ e.pred = saidZs[e.index + 1]
          /\ \A e \in lora.errors : /\ e.index \in 0 .. zs.n - 1
                                    /\ e.gold = Gold[e.index + 1]
                                    /\ e.pred = saidLora[e.index + 1]
      BY <1>1, <2>0, <2>2 DEF EvalDetail, ErrorsTold, Told
    <2>4. ASSUME NEW i \in 0 .. zs.n - 1
          PROVE  /\ i + 1 \in DOMAIN Gold
                 /\ saidZs[i + 1] \in Predictions[i + 1]
                 /\ saidLora[i + 1] \in Predictions[i + 1]
      <3>1. saidZs \in Seq(Answers) /\ saidLora \in Seq(Answers)
        BY <1>1, <2>0 DEF EvalInv, EvalTypes
      <3>2. i + 1 \in DOMAIN saidZs /\ i + 1 \in DOMAIN saidLora
        <4>1. Len(saidZs) = zs.n /\ Len(saidLora) = zs.n
          BY <2>2
        <4>2. zs.n \in Nat
          BY <3>1, <4>1
        <4>3. i + 1 \in 1 .. zs.n
          BY <4>2
        <4>4. DOMAIN saidZs = 1 .. zs.n /\ DOMAIN saidLora = 1 .. zs.n
          BY <3>1, <4>1
        <4> QED BY <4>3, <4>4
      <3> QED BY <1>1, <2>0, <3>2 DEF EvalDetail, SampleTypes
    <2>5. {w.index : w \in c.rows} = {i \in 0 .. zs.n - 1 : Right(saidZs, i) # Right(saidLora, i)}
      <3>1. Failed(zs) \subseteq 0 .. zs.n - 1 /\ Failed(lora) \subseteq 0 .. zs.n - 1
        BY <2>3 DEF Failed
      <3>2. \A s, i : Right(s, i) \in BOOLEAN
        <4>1. ASSUME NEW a, NEW b PROVE RelaxedMatch(a, b) \in BOOLEAN
          <5>1. (100 * Abs(a.number - b.number) <= 5 * b.number) \in BOOLEAN
            OBVIOUS
          <5> QED BY <5>1, Zenon DEF RelaxedMatch
        <4>2. \A a, b : ExactMatch(a, b) \in BOOLEAN
          BY Zenon DEF ExactMatch
        <4> QED BY Zenon, <4>1, <4>2 DEF MatchFn
      <3>3. \A i \in 0 .. zs.n - 1 :
              (i \in (Failed(zs) \ Failed(lora)) \cup (Failed(lora) \ Failed(zs)))
                <=> (Right(saidZs, i) # Right(saidLora, i))
        BY <2>2, <3>2
      <3>4. {w.index : w \in c.rows} =
              (Failed(zs) \ Failed(lora)) \cup (Failed(lora) \ Failed(zs))
        BY <2>1, RowIndices
      <3> HIDE DEF Right
      <3> QED BY <3>1, <3>3, <3>4
    <2>6. ASSUME NEW i \in 0 .. zs.n - 1, NEW s \in {saidZs, saidLora}
          PROVE  /\ RelaxedMatch(s[i + 1], s[i + 1])
                 /\ Right(s, i) => RelaxedMatch(s[i + 1], Gold[i + 1])
                 /\ Right(s, i) /\ c.metric = "exact" => s[i + 1].text = Gold[i + 1].text
      <3>1. i + 1 \in DOMAIN Gold /\ s[i + 1] \in Predictions[i + 1]
        BY <2>4
      <3>2. RelaxedMatch(s[i + 1], s[i + 1])
        BY <3>1, SameIsRelaxed
      <3>3. s[i + 1].text = Gold[i + 1].text => RelaxedMatch(s[i + 1], Gold[i + 1])
        BY <3>1, SameIsRelaxed
      <3> QED BY <2>1, <3>2, <3>3 DEF MatchFn, ExactMatch
    <2>7. ASSUME NEW w \in c.rows
          PROVE  /\ RelaxedMatch(saidZs[w.index + 1], w.zeroShot)
                 /\ RelaxedMatch(saidLora[w.index + 1], w.lora)
                 /\ c.metric = "exact" => /\ w.zeroShot.text = saidZs[w.index + 1].text
                                          /\ w.lora.text = saidLora[w.index + 1].text
      <3>1. CASE \E e \in zs.errors : /\ e.index \notin Failed(lora) /\ w.index = e.index
                                      /\ w.zeroShot = e.pred /\ w.lora = e.gold
        <4>1. PICK i \in 0 .. zs.n - 1 : /\ w.index = i /\ i \notin Failed(lora)
                                         /\ w.zeroShot = saidZs[i + 1]
                                         /\ w.lora = Gold[i + 1]
          BY <2>3, <3>1
        <4>2. Right(saidLora, i)
          BY <2>2, <4>1
        <4> HIDE DEF Right
        <4> QED BY <2>6, <4>1, <4>2
      <3>2. CASE \E e \in lora.errors : /\ e.index \notin Failed(zs) /\ w.index = e.index
                                        /\ w.zeroShot = e.gold /\ w.lora = e.pred
        <4>1. PICK i \in 0 .. zs.n - 1 : /\ w.index = i /\ i \notin Failed(zs)
                                         /\ w.zeroShot = Gold[i + 1]
                                         /\ w.lora = saidLora[i + 1]
          BY <2>3, <3>2
        <4>2. Right(saidZs, i)
          BY <2>2, <4>1
        <4> HIDE DEF Right
        <4> QED BY <2>6, <4>1, <4>2
      <3> QED BY <2>1, <3>1, <3>2, RowFacts
    <2> QED BY <2>5, <2>7
  <1> QED BY <1>1, EvaluationInvariant, ReportsTold, PTL

(* The state of the evaluation is of its type.                             *)
THEOREM EvaluationTypes == EvalSpec => []EvalTypeOK
  <1>1. EvalInv /\ EvalDetail => EvalTypeOK
    BY EvaluationAssumption DEF EvalInv, EvalTypes, EvalDetail, SampleTypes, EvalTypeOK
  <1> QED BY <1>1, EvaluationInvariant, ReportsTold, PTL

(* ------------------------------ training ------------------------------- *)
TrainTypes ==
    /\ stage \in {"off", "train", "stepped", "saving", "finishing", "done"}
    /\ step \in Nat
    /\ bestLoss \in Nat /\ bestLoss <= Infinity /\ lowest = bestLoss
    /\ saving \in {<<>>, <<Best>>, <<Final>>}
                    \cup {<<Regular(k)>> : k \in Nat} \cup {<<Best, Regular(k)>> : k \in Nat}
    /\ half \in BOOLEAN
    /\ Best \in DOMAIN adapters

(* Between the adapter and the trainer state the first checkpoint in line  *)
(* has this step's weights; a kill in between is on record.                *)
HalfSaved ==
    half => /\ saving # <<>>
            /\ Head(saving) \in DOMAIN adapters
            /\ adapters[Head(saving)] = Tag
            /\ stage \in {"saving", "finishing"} \/ (stage = "off" /\ Head(saving) \in mixed)

StatesMatch ==
    \A c \in DOMAIN adapters \ mixed :
        (half => c # Head(saving)) => c \in DOMAIN logs /\ adapters[c] = logs[c]

BestSaved ==
    /\ stage \in {"train", "stepped", "done"} => saving = <<>>
    /\ saving # <<>> /\ Head(saving) = Best => evalLoss = lowest
    /\ lowest < Infinity /\ (saving = <<>> \/ Head(saving) # Best) =>
         adapters[Best].run = trainings /\ adapters[Best].loss = lowest

TrainInv == TrainTypes /\ HalfSaved /\ StatesMatch /\ BestSaved

(* checkpoint-best is only ever the first in line.                         *)
LEMMA LineFacts ==
    ASSUME TrainTypes
    PROVE  /\ Best \in Range(saving) <=> saving # <<>> /\ Head(saving) = Best
           /\ saving # <<>> => Tail(saving) \in {<<>>} \cup {<<Regular(k)>> : k \in Nat}
           /\ saving # <<>> /\ Tail(saving) # <<>> => Head(Tail(saving)) # Best
  <1>1. CASE saving = <<>>
    BY <1>1 DEF Range
  <1>2. CASE saving = <<Best>>
    BY <1>2 DEF Range
  <1>3. CASE saving = <<Final>>
    BY <1>3 DEF Range, Best, Final
  <1>4. ASSUME NEW k \in Nat, saving = <<Regular(k)>>
        PROVE  /\ Best \in Range(saving) <=> saving # <<>> /\ Head(saving) = Best
               /\ saving # <<>> => Tail(saving) \in {<<>>} \cup {<<Regular(j)>> : j \in Nat}
               /\ saving # <<>> /\ Tail(saving) # <<>> => Head(Tail(saving)) # Best
    BY <1>4 DEF Range, Best, Regular
  <1>5. ASSUME NEW k \in Nat, saving = <<Best, Regular(k)>>
        PROVE  /\ Best \in Range(saving) <=> saving # <<>> /\ Head(saving) = Best
               /\ saving # <<>> => Tail(saving) \in {<<>>} \cup {<<Regular(j)>> : j \in Nat}
               /\ saving # <<>> /\ Tail(saving) # <<>> => Head(Tail(saving)) # Best
    <2>1. Range(saving) = {Best, Regular(k)} /\ Head(saving) = Best
      BY <1>5 DEF Range
    <2>2. Tail(saving) = <<Regular(k)>> /\ Head(Tail(saving)) = Regular(k)
      BY <1>5
    <2>3. Regular(k) # Best
      BY DEF Best, Regular
    <2> QED BY <2>1, <2>2, <2>3
  <1> QED BY <1>1, <1>2, <1>3, <1>4, <1>5 DEF TrainTypes

(* Two checkpoints in line: in this order.                                 *)
LEMMA ConcatPair == ASSUME NEW a, NEW b PROVE <<a>> \o <<b>> = <<a, b>>
  <1> DEFINE S == {a, b}
  <1>1. <<a>> \in Seq(S) /\ <<b>> \in Seq(S) /\ <<a, b>> \in Seq(S)
    OBVIOUS
  <1>2. /\ <<a>> \o <<b>> \in Seq(S) /\ Len(<<a>> \o <<b>>) = 2
        /\ (<<a>> \o <<b>>)[1] = a /\ (<<a>> \o <<b>>)[2] = b
    BY <1>1, ConcatProperties
  <1>3. PICK t \in Seq(S) : t = <<a, b>>
    BY <1>1
  <1>4. Len(t) = 2 /\ t[1] = a /\ t[2] = b
    BY <1>3
  <1>5. PICK s \in Seq(S) : s = <<a>> \o <<b>>
    BY <1>2
  <1>6. Len(s) = 2 /\ s[1] = a /\ s[2] = b
    BY <1>2, <1>5
  <1>7. \A i \in 1 .. Len(s) : s[i] = t[i]
    <2>1. \A i \in 1 .. 2 : i = 1 \/ i = 2
      OBVIOUS
    <2> QED BY <1>4, <1>6, <2>1
  <1>8. s = t
    BY <1>4, <1>6, <1>7, SeqEqual
  <1> QED BY <1>3, <1>5, <1>8

(* A step that writes nothing and leaves the line alone.                   *)
LEMMA TrainAside ==
    ASSUME TrainInv, step' \in Nat, half => step' = step, ~ half \/ stage' = stage,
           stage' \in {"train", "stepped", "saving", "finishing", "done"},
           stage' \in {"train", "stepped", "done"} => saving = <<>>,
           UNCHANGED <<evalLoss, bestLoss, lowest, saving, half, adapters, logs,
                       mixed, trainings>>
    PROVE  TrainInv'
  <1>1. TrainTypes'
    BY DEF TrainInv, TrainTypes
  <1>2. HalfSaved'
    BY DEF TrainInv, HalfSaved, Tag
  <1>3. StatesMatch' /\ BestSaved'
    BY DEF TrainInv, StatesMatch, BestSaved
  <1> QED BY <1>1, <1>2, <1>3 DEF TrainInv

(* A training starts, maybe under the name of an earlier one.              *)
LEMMA StartTrainingKeeps == ASSUME TrainInv, StartTraining PROVE TrainInv'
  <1>1. /\ stage' = "train" /\ step' = 0 /\ saving' = <<>> /\ half' = FALSE
        /\ evalLoss' = Infinity /\ bestLoss' = Infinity /\ lowest' = Infinity
        /\ UNCHANGED <<adapters, logs, mixed>> /\ stage \in {"off", "done"}
    BY DEF StartTraining
  <1>0. Infinity \in Nat
    BY TrainingAssumption
  <1>2. TrainTypes'
    <2>1. bestLoss' \in Nat /\ bestLoss' <= Infinity /\ lowest' = bestLoss'
      BY <1>0, <1>1
    <2>2. half' \in BOOLEAN /\ step' \in Nat
      BY <1>1
    <2> QED BY <1>1, <2>1, <2>2 DEF TrainInv, TrainTypes
  <1>3. HalfSaved'
    BY <1>1 DEF HalfSaved
  <1>4. BestSaved'
    BY <1>1, TrainingAssumption DEF BestSaved
  <1>5. StatesMatch'
    <2>1. half => Head(saving) \in mixed
      BY <1>1 DEF TrainInv, HalfSaved
    <2> QED BY <1>1, <2>1 DEF TrainInv, StatesMatch
  <1> QED BY <1>2, <1>3, <1>4, <1>5 DEF TrainInv

(* The loss of a step is compared with the best so far.                    *)
LEMMA ValidateKeeps == ASSUME TrainInv, Validate PROVE TrainInv'
  <1>1. /\ stage = "stepped" /\ stage' = "saving" /\ evalLoss' \in Losses
        /\ bestLoss' = IF evalLoss' < bestLoss THEN evalLoss' ELSE bestLoss
        /\ lowest' = Min({lowest, evalLoss'})
        /\ saving' = (IF evalLoss' < bestLoss THEN <<Best>> ELSE <<>>) \o RegularDue
        /\ UNCHANGED <<step, half, adapters, logs, mixed, trainings>>
    BY DEF Validate
  <1>2. evalLoss' \in Nat /\ bestLoss \in Nat /\ lowest = bestLoss /\ step \in Nat
    BY <1>1, TrainingAssumption DEF TrainInv, TrainTypes
  <1>3. lowest' = bestLoss'
    <2>1. \A a, b \in Nat : Min({a, b}) = IF b < a THEN b ELSE a
      BY DEF Min
    <2> QED BY <1>1, <1>2, <2>1
  <1>4. saving = <<>> /\ ~ half
    BY <1>1 DEF TrainInv, BestSaved, HalfSaved
  <1>5. RegularDue \in {<<>>, <<Regular(step)>>}
    BY DEF RegularDue
  <1>6. CASE evalLoss' < bestLoss
    <2>1. saving' \in {<<Best>>, <<Best, Regular(step)>>} /\ bestLoss' = evalLoss'
      <3>1. saving' = <<Best>> \o RegularDue /\ bestLoss' = evalLoss'
        BY <1>1, <1>6
      <3>2. <<Best>> \o <<>> = <<Best>> /\ <<Best>> \o <<Regular(step)>> = <<Best, Regular(step)>>
        <4>1. \A a : <<a>> \o <<>> = <<a>>
          OBVIOUS
        <4> QED BY <4>1, ConcatPair
      <3> QED BY <1>5, <3>1, <3>2
    <2>2. TrainTypes'
      <3>1. bestLoss' \in Nat /\ bestLoss' <= Infinity
        BY <1>2, <1>6, <2>1, TrainingAssumption DEF TrainInv, TrainTypes
      <3>2. saving' \in {<<Best>>} \cup {<<Best, Regular(k)>> : k \in Nat}
        BY <1>2, <2>1
      <3> QED BY <1>1, <1>2, <1>3, <3>1, <3>2 DEF TrainInv, TrainTypes
    <2>3. BestSaved'
      <3>1. saving' # <<>> /\ Head(saving') = Best
        BY <2>1
      <3> QED BY <1>1, <1>3, <2>1, <3>1 DEF BestSaved
    <2> QED BY <1>1, <1>4, <2>2, <2>3 DEF TrainInv, HalfSaved, StatesMatch
  <1>7. CASE ~ (evalLoss' < bestLoss)
    <2>1. saving' \in {<<>>, <<Regular(step)>>} /\ bestLoss' = bestLoss
      BY <1>1, <1>5, <1>7
    <2>2. TrainTypes'
      BY <1>1, <1>2, <1>3, <2>1 DEF TrainInv, TrainTypes
    <2>3. saving' = <<>> \/ Head(saving') # Best
      BY <2>1 DEF Best, Regular
    <2>4. BestSaved'
      BY <1>1, <1>2, <1>3, <1>4, <2>1, <2>3 DEF TrainInv, BestSaved
    <2> QED BY <1>1, <1>4, <2>2, <2>4 DEF TrainInv, HalfSaved, StatesMatch
  <1> QED BY <1>6, <1>7

(* A step that is not validated saves no checkpoint-best.                  *)
LEMMA NoValidationKeeps == ASSUME TrainInv, NoValidation PROVE TrainInv'
  <1>1. /\ stage = "stepped" /\ stage' = "saving" /\ saving' = RegularDue
        /\ UNCHANGED <<step, evalLoss, bestLoss, lowest, half, adapters, logs,
                       mixed, trainings>>
    BY DEF NoValidation
  <1>2. saving = <<>> /\ ~ half /\ step \in Nat
    BY <1>1 DEF TrainInv, TrainTypes, BestSaved, HalfSaved
  <1>3. saving' \in {<<>>, <<Regular(step)>>}
    BY <1>1 DEF RegularDue
  <1>4. saving' = <<>> \/ Head(saving') # Best
    BY <1>3 DEF Best, Regular
  <1>5. TrainTypes'
    BY <1>1, <1>2, <1>3 DEF TrainInv, TrainTypes
  <1>6. BestSaved'
    BY <1>1, <1>2, <1>4 DEF TrainInv, BestSaved
  <1> QED BY <1>1, <1>2, <1>5, <1>6 DEF TrainInv, HalfSaved, StatesMatch

(* The line for the final checkpoint, from a line that is empty.           *)
LEMMA FinishKeeps ==
    ASSUME TrainInv, saving = <<>>, Finish,
           UNCHANGED <<step, evalLoss, bestLoss, lowest, half, adapters, logs,
                       mixed, trainings>>
    PROVE  TrainInv'
  <1>1. saving' = <<Final>> /\ stage' = "finishing" /\ ~ half
    BY DEF Finish, TrainInv, HalfSaved
  <1>2. Head(saving') # Best
    BY <1>1 DEF Best, Final
  <1>3. TrainTypes'
    BY <1>1 DEF TrainInv, TrainTypes
  <1>4. BestSaved'
    BY <1>1, <1>2 DEF TrainInv, BestSaved
  <1> QED BY <1>1, <1>3, <1>4 DEF TrainInv, HalfSaved, StatesMatch

(* The first half of a save: the adapter.                                  *)
LEMMA SaveAdapterKeeps == ASSUME TrainInv, SaveAdapter PROVE TrainInv'
  <1>1. /\ saving # <<>> /\ stage \in {"saving", "finishing"} /\ ~ half /\ half' = TRUE
        /\ adapters' = Written(adapters, Head(saving))
        /\ UNCHANGED <<stage, step, evalLoss, bestLoss, lowest, saving, logs,
                       mixed, trainings>>
    BY DEF SaveAdapter, loopVars
  <1>2. /\ DOMAIN adapters' = DOMAIN adapters \cup {Head(saving)}
        /\ adapters'[Head(saving)] = Tag
        /\ \A c \in DOMAIN adapters \ {Head(saving)} : adapters'[c] = adapters[c]
    BY <1>1 DEF Written
  <1>3. TrainTypes'
    BY <1>1, <1>2 DEF TrainInv, TrainTypes
  <1>4. HalfSaved'
    BY <1>1, <1>2 DEF HalfSaved, Tag
  <1>5. StatesMatch'
    BY <1>1, <1>2 DEF TrainInv, StatesMatch
  <1>6. BestSaved'
    BY <1>1, <1>2 DEF TrainInv, TrainTypes, BestSaved
  <1> QED BY <1>3, <1>4, <1>5, <1>6 DEF TrainInv

(* The second half: the log that ends it.                                  *)
LEMMA SaveTrainerStateKeeps == ASSUME TrainInv, SaveTrainerState PROVE TrainInv'
  <1>1. /\ half /\ half' = FALSE /\ stage \in {"saving", "finishing"}
        /\ logs' = Written(logs, Head(saving)) /\ mixed' = mixed \ {Head(saving)}
        /\ saving' = Tail(saving)
        /\ UNCHANGED <<stage, step, evalLoss, bestLoss, lowest, adapters, trainings>>
    BY DEF SaveTrainerState, loopVars
  <1>2. saving # <<>> /\ adapters[Head(saving)] = Tag
    BY <1>1 DEF TrainInv, HalfSaved
  <1>3. saving' = <<>> \/ Head(saving') # Best
    BY <1>1, <1>2, LineFacts DEF TrainInv
  <1>4. TrainTypes'
    BY <1>1, <1>2, LineFacts DEF TrainInv, TrainTypes
  <1>5. HalfSaved'
    BY <1>1 DEF HalfSaved
  <1>6. StatesMatch'
    <2>1. /\ DOMAIN logs' = DOMAIN logs \cup {Head(saving)} /\ logs'[Head(saving)] = Tag
          /\ \A c \in DOMAIN logs \ {Head(saving)} : logs'[c] = logs[c]
      BY <1>1 DEF Written
    <2> QED BY <1>1, <1>2, <2>1 DEF TrainInv, StatesMatch
  <1>7. BestSaved'
    <2>1. CASE Head(saving) = Best
      <3>1. evalLoss = lowest /\ adapters[Best].run = trainings /\ adapters[Best].loss = evalLoss
        BY <1>2, <2>1 DEF TrainInv, BestSaved, Tag
      <3> QED BY <1>1, <1>3, <3>1 DEF BestSaved
    <2>2. CASE Head(saving) # Best
      BY <1>1, <1>3, <2>2 DEF TrainInv, BestSaved
    <2> QED BY <2>1, <2>2
  <1> QED BY <1>4, <1>5, <1>6, <1>7 DEF TrainInv

(* A training is killed: a save cut in two stays mixed.                    *)
LEMMA KillKeeps == ASSUME TrainInv, Kill PROVE TrainInv'
  <1>1. /\ stage' = "off"
        /\ mixed' = IF half THEN mixed \cup {Head(saving)} ELSE mixed
        /\ UNCHANGED <<step, evalLoss, bestLoss, lowest, saving, half, adapters,
                       logs, trainings>>
    BY DEF Kill
  <1>2. TrainTypes'
    BY <1>1 DEF TrainInv, TrainTypes
  <1>3. HalfSaved'
    BY <1>1 DEF TrainInv, HalfSaved, Tag
  <1>4. StatesMatch'
    BY <1>1 DEF TrainInv, StatesMatch
  <1>5. BestSaved'
    BY <1>1 DEF TrainInv, BestSaved
  <1> QED BY <1>2, <1>3, <1>4, <1>5 DEF TrainInv

(* The invariant of the run folder.                                        *)
THEOREM TrainingInvariant == TrainSpec => []TrainInv
  <1>1. TrainInit => TrainInv
    <2> SUFFICES ASSUME TrainInit PROVE TrainInv
      OBVIOUS
    <2>1. TrainTypes
      <3>1. Infinity \in Nat
        BY TrainingAssumption
      <3>2. bestLoss \in Nat /\ bestLoss <= Infinity /\ lowest = bestLoss /\ Best \in DOMAIN adapters
        BY <3>1 DEF TrainInit
      <3> QED BY <3>2 DEF TrainInit, TrainTypes
    <2>2. HalfSaved /\ StatesMatch
      BY DEF TrainInit, HalfSaved, StatesMatch
    <2>3. BestSaved
      BY TrainingAssumption DEF TrainInit, BestSaved
    <2> QED BY <2>1, <2>2, <2>3 DEF TrainInv
  <1>2. ASSUME TrainInv, [TrainNext]_trainVars PROVE TrainInv'
    <2>0. step \in Nat /\ (stage \in {"train", "stepped", "done"} => saving = <<>> /\ ~ half)
      BY <1>2 DEF TrainInv, TrainTypes, BestSaved, HalfSaved
    <2>1. CASE Accumulate
      BY <1>2, <2>0, <2>1, TrainAside DEF Accumulate, diskVars
    <2>2. CASE OptimizerStep
      BY <1>2, <2>0, <2>2, TrainAside DEF OptimizerStep, diskVars
    <2>3. CASE Saved
      <3>1. saving = <<>> /\ ~ half
        BY <1>2, <2>3 DEF Saved, TrainInv, HalfSaved
      <3>2. CASE Finish
        BY <1>2, <2>3, <3>1, <3>2, FinishKeeps DEF Saved
      <3>3. CASE stage' = "train" /\ UNCHANGED saving
        BY <1>2, <2>0, <2>3, <3>1, <3>3, TrainAside DEF Saved
      <3> QED BY <2>3, <3>2, <3>3 DEF Saved
    <2>4. CASE EpochEnds
      <3>1. saving = <<>> /\ ~ half
        BY <2>0, <2>4 DEF EpochEnds
      <3>2. CASE Finish
        BY <1>2, <2>4, <3>1, <3>2, FinishKeeps DEF EpochEnds
      <3>3. CASE UNCHANGED <<stage, saving>>
        BY <1>2, <2>0, <2>4, <3>1, <3>3, TrainAside DEF EpochEnds
      <3> QED BY <2>4, <3>2, <3>3 DEF EpochEnds
    <2>5. CASE Done
      <3>1. saving = <<>> /\ ~ half
        BY <1>2, <2>5 DEF Done, TrainInv, HalfSaved
      <3> QED BY <1>2, <2>0, <2>5, <3>1, TrainAside DEF Done, diskVars
    <2>6. CASE UNCHANGED trainVars
      <3>1. UNCHANGED <<stage, step, evalLoss, bestLoss, lowest, saving, half, adapters, logs,
                        mixed, trainings>>
        BY <2>6 DEF trainVars, loopVars, diskVars
      <3> QED BY <1>2, <3>1 DEF TrainInv, TrainTypes, HalfSaved, Tag, StatesMatch, BestSaved
    <2> QED
      BY <1>2, <2>1, <2>2, <2>3, <2>4, <2>5, <2>6, StartTrainingKeeps, NoValidationKeeps,
         ValidateKeeps, SaveAdapterKeeps, SaveTrainerStateKeeps, KillKeeps
         DEF TrainNext
  <1> QED BY <1>1, <1>2, PTL DEF TrainSpec

(* checkpoint-best is the best of the latest run that validated, and every *)
(* checkpoint that no kill has cut in two is of one piece.                 *)
THEOREM BestCheckpoint == TrainSpec => []BestIsLowest
  <1>1. TrainInv => BestIsLowest
    BY LineFacts DEF TrainInv, BestSaved, StatesMatch, BestIsLowest
  <1> QED BY <1>1, TrainingInvariant, PTL

(* ------------------------ counting in groups --------------------------- *)
LEMMA DivMod ==
    ASSUME NEW b \in Nat, NEW g \in Nat \ {0}
    PROVE  b \div g \in Nat /\ b % g \in 0 .. g - 1 /\ b = g * (b \div g) + (b % g)
  OBVIOUS

LEMMA Mono ==
    ASSUME NEW x \in Int, NEW y \in Int, NEW g \in Nat, x <= y
    PROVE  x * g <= y * g /\ g * x <= g * y
  OBVIOUS

LEMMA UniqueQuotient ==
    ASSUME NEW g \in Nat \ {0}, NEW x \in Int, NEW y \in Int,
           NEW r \in 0 .. g - 1, NEW s \in 0 .. g - 1, g * x + r = g * y + s
    PROVE  x = y /\ r = s
  <1>1. CASE x < y
    <2>1. g * (x + 1) <= g * y
      BY <1>1, Mono
    <2>2. g * (x + 1) = g * x + g
      OBVIOUS
    <2> QED BY <2>1, <2>2
  <1>2. CASE y < x
    <2>1. g * (y + 1) <= g * x
      BY <1>2, Mono
    <2>2. g * (y + 1) = g * y + g
      OBVIOUS
    <2> QED BY <2>1, <2>2
  <1> QED BY <1>1, <1>2

(* One more batch ends a group, or is one more of it.                      *)
LEMMA DivStep ==
    ASSUME NEW b \in Nat, NEW g \in Nat \ {0}
    PROVE  /\ (b + 1) % g = 0 => b % g = g - 1 /\ (b + 1) \div g = b \div g + 1
           /\ (b + 1) % g # 0 => (b + 1) % g = (b % g) + 1 /\ (b + 1) \div g = b \div g
  <1>1. PICK q \in Nat, r \in 0 .. g - 1 : q = b \div g /\ r = b % g /\ b = g * q + r
    BY DivMod
  <1>2. PICK x \in Nat, s \in 0 .. g - 1 :
          x = (b + 1) \div g /\ s = (b + 1) % g /\ b + 1 = g * x + s
    BY DivMod
  <1>3. CASE r = g - 1
    <2>1. g * (q + 1) = g * q + g
      OBVIOUS
    <2>2. g * x + s = g * (q + 1) + 0
      BY <1>1, <1>2, <1>3, <2>1
    <2>3. x = q + 1 /\ s = 0
      BY <2>2, UniqueQuotient
    <2> QED BY <1>1, <1>2, <1>3, <2>3
  <1>4. CASE r # g - 1
    <2>1. g * x + s = g * q + (r + 1) /\ r + 1 \in 0 .. g - 1
      BY <1>1, <1>2, <1>4
    <2>2. x = q /\ s = r + 1
      BY <2>1, UniqueQuotient
    <2> QED BY <1>1, <1>2, <2>2
  <1> QED BY <1>3, <1>4

(* The first group is not full yet.                                        *)
LEMMA DivSmall ==
    ASSUME NEW b \in Nat, NEW g \in Nat \ {0}, b < g
    PROVE  b \div g = 0 /\ b % g = b
  <1>1. PICK q \in Nat, r \in 0 .. g - 1 : q = b \div g /\ r = b % g /\ b = g * q + r
    BY DivMod
  <1>2. g * q + r = g * 0 + b
    BY <1>1
  <1> QED BY <1>1, <1>2, UniqueQuotient

LEMMA MaxMin ==
    \A a, b \in Int : /\ Max({a, b}) = IF a >= b THEN a ELSE b
                      /\ Min({a, b}) = IF a <= b THEN a ELSE b
  BY DEF Max, Min

(* --------------------------- the ledger -------------------------------- *)
CountTypes ==
    /\ hp \in Configs
    /\ epoch \in Nat /\ batch \in Nat /\ grads \in Nat /\ applied \in Nat
    /\ step \in Nat /\ trainings \in Nat
    /\ batch <= hp.batches /\ epoch < hp.epochs

(* What waits: the group that is under way, and until the first group of   *)
(* an epoch is full, the remainder of the epoch before.  Where an epoch    *)
(* has no full group nothing is ever used.                                 *)
Waiting ==
    IF StepsPerEpoch = 0 THEN epoch * hp.batches + batch
    ELSE IF batch >= hp.gradAccum THEN batch % hp.gradAccum
    ELSE batch + (IF epoch = 0 THEN 0 ELSE Remainder)

Carried ==
    Remainder * (IF StepsPerEpoch = 0 THEN 0
                 ELSE IF batch >= hp.gradAccum THEN epoch
                 ELSE IF epoch = 0 THEN 0 ELSE epoch - 1)

Ledger ==
    /\ grads = Waiting
    /\ applied + grads = epoch * hp.batches + batch
    /\ applied - step * hp.gradAccum = Carried
    /\ step = epoch * StepsPerEpoch + (batch \div hp.gradAccum)

(* How many steps there are when: the cap is looked at after a step.       *)
Cap == IF hp.maxSteps >= 1 THEN hp.maxSteps ELSE 1

Capped ==
    /\ step <= Cap
    /\ stage = "train" => step < Cap
    /\ stage \in {"stepped", "saving"} => step >= 1 /\ grads = 0
    /\ stage \in {"finishing", "done"} =>
         \/ step = Cap /\ grads = 0
         \/ step < Cap /\ epoch + 1 = hp.epochs /\ batch = hp.batches

CountInv == CountTypes /\ Ledger /\ Capped

(* The settings of a run.                                                  *)
LEMMA ConfigFacts ==
    ASSUME hp \in Configs
    PROVE  /\ hp.batches \in Nat /\ hp.gradAccum \in Nat \ {0} /\ hp.epochs \in Nat \ {0}
           /\ hp.maxSteps \in Int
           /\ StepsPerEpoch \in Nat /\ Remainder \in 0 .. hp.gradAccum - 1
           /\ hp.batches = hp.gradAccum * StepsPerEpoch + Remainder
           /\ hp.batches < hp.gradAccum => StepsPerEpoch = 0
           /\ StepsPerEpoch = 0 => hp.batches < hp.gradAccum
           /\ Cap \in Nat /\ Cap >= 1 /\ Cap >= hp.maxSteps
  <1>1. /\ hp.batches \in Nat /\ hp.gradAccum \in Nat \ {0} /\ hp.epochs \in Nat \ {0}
        /\ hp.maxSteps \in Int
    BY TrainingAssumption
  <1>2. /\ StepsPerEpoch \in Nat /\ Remainder \in 0 .. hp.gradAccum - 1
        /\ hp.batches = hp.gradAccum * StepsPerEpoch + Remainder
    BY <1>1, DivMod DEF StepsPerEpoch, Remainder
  <1>3. hp.batches < hp.gradAccum => StepsPerEpoch = 0
    BY <1>1, DivSmall DEF StepsPerEpoch
  <1>4. StepsPerEpoch = 0 => hp.batches < hp.gradAccum
    BY <1>1, <1>2
  <1>5. Cap \in Nat /\ Cap >= 1 /\ Cap >= hp.maxSteps
    BY <1>1 DEF Cap
  <1> QED BY <1>1, <1>2, <1>3, <1>4, <1>5
LEMMA CountFacts ==
    ASSUME CountInv
    PROVE  /\ hp.gradAccum \in Nat \ {0} /\ hp.batches \in Nat
           /\ StepsPerEpoch \in Nat /\ Remainder \in Nat
           /\ batch \in Nat /\ epoch \in Nat /\ grads \in Nat /\ applied \in Nat
           /\ step \in Nat /\ trainings \in Nat
  <1>1. /\ hp \in Configs
        /\ batch \in Nat /\ epoch \in Nat /\ grads \in Nat /\ applied \in Nat
        /\ step \in Nat /\ trainings \in Nat
    BY DEF CountInv, CountTypes
  <1>2. /\ hp.gradAccum \in Nat \ {0} /\ hp.batches \in Nat
        /\ StepsPerEpoch \in Nat /\ Remainder \in Nat
    BY <1>1, ConfigFacts
  <1> QED BY <1>1, <1>2

(* A step that counts nothing.                                             *)
LEMMA CountsAside ==
    ASSUME CountInv, UNCHANGED <<hp, epoch, batch, grads, applied, step>>, trainings' \in Nat,
           Capped'
    PROVE  CountInv'
  BY DEF CountInv, CountTypes, Ledger, Waiting, Carried, StepsPerEpoch, Remainder

(* A training starts, and with it every count.                             *)
LEMMA StartCounts == ASSUME CountInv, StartTraining PROVE CountInv'
  <1>1. /\ hp' \in Configs /\ epoch' = 0 /\ batch' = 0 /\ grads' = 0 /\ applied' = 0
        /\ step' = 0 /\ trainings' = trainings + 1 /\ stage' = "train"
    BY DEF StartTraining
  <1>2. /\ hp'.gradAccum \in Nat \ {0} /\ hp'.batches \in Nat /\ hp'.epochs \in Nat \ {0}
        /\ hp'.maxSteps \in Int
    BY <1>1, TrainingAssumption
  <1>3. StepsPerEpoch' \in Nat /\ Remainder' \in Nat /\ 0 \div hp'.gradAccum = 0
    <2>1. PICK g \in Nat \ {0}, B \in Nat : g = hp'.gradAccum /\ B = hp'.batches
      BY <1>2
    <2>2. B \div g \in Nat /\ B % g \in Nat /\ 0 \div g = 0
      BY DivMod, DivSmall
    <2> QED BY <2>1, <2>2 DEF StepsPerEpoch, Remainder
  <1>4. CountTypes' /\ Capped'
    BY <1>1, <1>2, CountFacts DEF CountTypes, Capped, Cap
  <1>5. Waiting' = 0 /\ Carried' = 0
    <2>1. PICK g \in Nat \ {0}, B \in Nat, q \in Nat, r \in Nat :
            /\ g = hp'.gradAccum /\ B = hp'.batches
            /\ q = StepsPerEpoch' /\ r = Remainder'
      BY <1>2, <1>3
    <2>2. Waiting' = IF q = 0 THEN 0 * B + 0 ELSE 0
      BY <1>1, <2>1 DEF Waiting
    <2>3. Carried' = r * 0
      BY <1>1, <2>1 DEF Carried
    <2> QED BY <2>2, <2>3
  <1>6. Ledger'
    BY <1>1, <1>2, <1>3, <1>5 DEF Ledger
  <1> QED BY <1>4, <1>6 DEF CountInv

LEMMA InitCounts == TrainInit => CountInv
  <1> SUFFICES ASSUME TrainInit PROVE CountInv
    OBVIOUS
  <1>1. /\ hp \in Configs /\ epoch = 0 /\ batch = 0 /\ grads = 0 /\ applied = 0
        /\ step = 0 /\ trainings = 0 /\ stage = "off"
    BY TrainingAssumption DEF TrainInit
  <1>2. /\ hp.gradAccum \in Nat \ {0} /\ hp.batches \in Nat /\ hp.epochs \in Nat \ {0}
        /\ StepsPerEpoch \in Nat /\ Remainder \in Nat /\ Cap \in Nat /\ Cap >= 1
    BY <1>1, ConfigFacts
  <1>3. 0 \div hp.gradAccum = 0
    BY <1>2, DivSmall
  <1>4. CountTypes /\ Capped
    BY <1>1, <1>2 DEF CountTypes, Capped
  <1>5. Waiting = 0 /\ Carried = 0
    BY <1>1, <1>2 DEF Waiting, Carried
  <1>6. Ledger
    BY <1>1, <1>2, <1>3, <1>5 DEF Ledger
  <1> QED BY <1>4, <1>6 DEF CountInv

(* A batch that does not fill its group waits.                             *)
LEMMA AccumulateCounts == ASSUME CountInv, Accumulate PROVE CountInv'
  <1>1. /\ stage = "train" /\ batch < hp.batches /\ (batch + 1) % hp.gradAccum # 0
        /\ batch' = batch + 1 /\ grads' = grads + 1
        /\ UNCHANGED <<hp, stage, epoch, applied, step, trainings>>
    BY DEF Accumulate
  <1>2. PICK g \in Nat \ {0}, b \in Nat, e \in Nat, q \in Nat, r \in Nat, B \in Nat :
          /\ g = hp.gradAccum /\ b = batch /\ e = epoch /\ q = StepsPerEpoch /\ r = Remainder
          /\ B = hp.batches
    BY CountFacts
  <1>3. /\ (b + 1) % g = (b % g) + 1 /\ (b + 1) \div g = b \div g
        /\ b % g \in 0 .. g - 1
    BY <1>1, <1>2, DivStep, DivMod
  <1>4. UNCHANGED <<StepsPerEpoch, Remainder, Cap>>
    BY <1>1 DEF StepsPerEpoch, Remainder, Cap
  <1>5. b + 1 >= g <=> b >= g
    <2>1. CASE b + 1 = g
      <3>1. b % g = b
        BY <2>1, DivSmall
      <3>2. (b + 1) % g = 0
        <4>1. g * 1 + 0 = g * (g \div g) + (g % g) /\ g % g \in 0 .. g - 1 /\ g \div g \in Nat
          BY DivMod
        <4> QED BY <2>1, <4>1, UniqueQuotient
      <3> QED BY <1>1, <1>2, <3>2
    <2>2. CASE b + 1 # g
      BY <2>2
    <2> QED BY <2>1, <2>2
  <1>6. grads \in Nat /\ applied \in Nat /\ step \in Nat
    BY DEF CountInv, CountTypes
  <1>7. CountTypes'
    BY <1>1, <1>2, <1>6 DEF CountInv, CountTypes
  <1>8. Capped'
    BY <1>1, <1>4 DEF CountInv, Capped
  <1>9. Waiting' = Waiting + 1
    <2>1. Waiting = IF q = 0 THEN e * B + b
                    ELSE IF b >= g THEN b % g
                    ELSE b + (IF e = 0 THEN 0 ELSE r)
      BY <1>2 DEF Waiting
    <2>2. Waiting' = IF q = 0 THEN e * B + (b + 1)
                     ELSE IF b + 1 >= g THEN (b + 1) % g
                     ELSE (b + 1) + (IF e = 0 THEN 0 ELSE r)
      BY <1>1, <1>2, <1>4 DEF Waiting
    <2>3. e * B \in Nat
      OBVIOUS
    <2> QED BY <1>3, <1>5, <2>1, <2>2, <2>3
  <1>10. Carried' = Carried
    <2>1. Carried = r * (IF q = 0 THEN 0 ELSE IF b >= g THEN e ELSE IF e = 0 THEN 0 ELSE e - 1)
      BY <1>2 DEF Carried
    <2>2. Carried' = r * (IF q = 0 THEN 0 ELSE IF b + 1 >= g THEN e
                          ELSE IF e = 0 THEN 0 ELSE e - 1)
      BY <1>1, <1>2, <1>4 DEF Carried
    <2> QED BY <1>5, <2>1, <2>2
  <1>11. Ledger'
    <2>1. /\ grads = Waiting /\ applied + grads = e * B + b
          /\ applied - step * g = Carried /\ step = e * q + (b \div g)
      BY <1>2 DEF CountInv, Ledger
    <2>2. grads' = Waiting' /\ applied' - step' * g = Carried'
      BY <1>1, <1>9, <1>10, <2>1
    <2>3. applied' + grads' = e * B + (b + 1)
      <3>1. e * B \in Nat
        OBVIOUS
      <3> QED BY <1>1, <1>6, <2>1, <3>1
    <2>4. step' = e * q + ((b + 1) \div g)
      BY <1>1, <1>3, <2>1
    <2> QED BY <1>1, <1>2, <1>4, <2>2, <2>3, <2>4 DEF Ledger
  <1> QED BY <1>7, <1>8, <1>11 DEF CountInv
(* A batch that fills its group: what waits is used.                       *)
LEMMA StepCounts == ASSUME CountInv, OptimizerStep PROVE CountInv'
  <1>1. /\ stage = "train" /\ batch < hp.batches /\ (batch + 1) % hp.gradAccum = 0
        /\ batch' = batch + 1 /\ applied' = applied + grads + 1 /\ grads' = 0
        /\ step' = step + 1 /\ stage' = "stepped"
        /\ UNCHANGED <<hp, epoch, trainings>>
    BY DEF OptimizerStep
  <1>2. PICK g \in Nat \ {0}, b \in Nat, e \in Nat, q \in Nat, r \in Nat, B \in Nat :
          /\ g = hp.gradAccum /\ b = batch /\ e = epoch /\ q = StepsPerEpoch /\ r = Remainder
          /\ B = hp.batches
    BY CountFacts
  <1>3. /\ (b + 1) % g = 0 /\ b % g = g - 1 /\ (b + 1) \div g = (b \div g) + 1
        /\ b \div g \in Nat
    BY <1>1, <1>2, DivStep, DivMod
  <1>4. UNCHANGED <<StepsPerEpoch, Remainder, Cap>>
    BY <1>1 DEF StepsPerEpoch, Remainder, Cap
  <1>5. b + 1 >= g /\ (b >= g \/ b = g - 1)
    <2>1. ASSUME b + 1 < g PROVE FALSE
      BY <1>3, <2>1, DivSmall
    <2> QED BY <2>1
  <1>6. q >= 1
    <2>1. hp \in Configs /\ batch + 1 <= hp.batches
      BY <1>1, <1>2, ConfigFacts DEF CountInv, CountTypes
    <2>2. B >= g
      BY <1>2, <1>5, <2>1
    <2>3. q = 0 => B < g
      BY <1>2, <2>1, ConfigFacts
    <2> QED BY <2>2, <2>3
  <1>7. PICK G \in Nat, A \in Nat, s \in Nat : G = grads /\ A = applied /\ s = step
    BY DEF CountInv, CountTypes
  <1>8. CountTypes'
    BY <1>1, <1>2, <1>7 DEF CountInv, CountTypes
  <1>9. Capped'
    BY <1>1, <1>4, <1>7, ConfigFacts DEF CountInv, CountTypes, Capped
  <1>10. Waiting' = 0
    BY <1>1, <1>2, <1>3, <1>4, <1>5, <1>6 DEF Waiting
  <1>11. /\ G = IF b >= g THEN b % g ELSE b + (IF e = 0 THEN 0 ELSE r)
         /\ A + G = e * B + b
         /\ A - s * g = r * (IF b >= g THEN e ELSE IF e = 0 THEN 0 ELSE e - 1)
         /\ s = e * q + (b \div g)
    BY <1>2, <1>6, <1>7 DEF CountInv, Ledger, Waiting, Carried
  <1>12. Carried' = r * e
    BY <1>1, <1>2, <1>4, <1>5, <1>6 DEF Carried
  <1>13. (s + 1) * g = s * g + g /\ s * g \in Nat
    OBVIOUS
  <1>14. (A + G + 1) - (s + 1) * g = r * e
    <2>1. CASE b >= g
      BY <1>3, <1>11, <1>13, <2>1
    <2>2. CASE ~ (b >= g) /\ e = 0
      <3>1. r * 0 = 0
        OBVIOUS
      <3>2. A - s * g = 0 /\ G = g - 1
        BY <1>5, <1>11, <2>2, <3>1
      <3> QED BY <1>13, <2>2, <3>1, <3>2
    <2>3. CASE ~ (b >= g) /\ e # 0
      <3>1. r * e = r * (e - 1) + r /\ r * (e - 1) \in Int
        OBVIOUS
      <3>2. A - s * g = r * (e - 1) /\ G = g - 1 + r
        BY <1>5, <1>11, <2>3
      <3> QED BY <1>13, <3>1, <3>2
    <2> QED BY <2>1, <2>2, <2>3
  <1>15. Ledger'
    <2>1. applied' - step' * hp'.gradAccum = Carried'
      BY <1>1, <1>2, <1>7, <1>12, <1>14
    <2>2. step' = epoch' * StepsPerEpoch' + (batch' \div hp'.gradAccum)
      <3>1. e * q \in Nat
        OBVIOUS
      <3>2. s + 1 = e * q + ((b + 1) \div g)
        BY <1>3, <1>11, <3>1
      <3> QED BY <1>1, <1>2, <1>4, <1>7, <3>2
    <2>3. applied' + grads' = epoch' * hp'.batches + batch'
      <3>1. e * B \in Nat
        OBVIOUS
      <3>2. (A + G + 1) + 0 = e * B + (b + 1)
        <4>1. A + G = e * B + b
          BY <1>11
        <4> QED BY <3>1, <4>1
      <3> QED BY <1>1, <1>2, <1>7, <3>2
    <2> QED BY <1>1, <1>10, <2>1, <2>2, <2>3 DEF Ledger
  <1> QED BY <1>8, <1>9, <1>15 DEF CountInv

(* The next epoch starts with what is left of this one.                    *)
LEMMA EpochCounts == ASSUME CountInv, EpochEnds PROVE CountInv'
  <1>1. /\ stage = "train" /\ batch = hp.batches
        /\ UNCHANGED <<hp, grads, applied, step, trainings>>
    BY DEF EpochEnds
  <1>2. CASE ~ (epoch + 1 < hp.epochs)
    <2>1. stage' = "finishing" /\ UNCHANGED <<epoch, batch>>
      BY <1>2 DEF EpochEnds, Finish
    <2>2. epoch + 1 = hp.epochs
      BY <1>2, ConfigFacts DEF CountInv, CountTypes
    <2>3. Capped'
      BY <1>1, <2>1, <2>2 DEF CountInv, Capped, Cap
    <2> QED BY <1>1, <2>1, <2>3, CountsAside DEF CountInv, CountTypes
  <1>3. CASE epoch + 1 < hp.epochs
    <2>1. epoch' = epoch + 1 /\ batch' = 0 /\ UNCHANGED stage
      BY <1>3 DEF EpochEnds
    <2>2. PICK g \in Nat \ {0}, b \in Nat, e \in Nat, q \in Nat, r \in Nat, B \in Nat :
            /\ g = hp.gradAccum /\ b = batch /\ e = epoch /\ q = StepsPerEpoch /\ r = Remainder
            /\ B = hp.batches
      BY CountFacts
    <2>3. UNCHANGED <<StepsPerEpoch, Remainder, Cap>>
      BY <1>1 DEF StepsPerEpoch, Remainder, Cap
    <2>4. /\ B \div g = q /\ B % g = r /\ r < g /\ B = g * q + r
          /\ 0 \div g = 0 /\ 0 % g = 0
          /\ q = 0 <=> B < g
      <3>1. B \div g = q /\ B % g = r
        BY <2>2 DEF StepsPerEpoch, Remainder
      <3>2. r < g /\ B = g * q + r /\ (q = 0 <=> B < g)
        BY <2>2, ConfigFacts DEF CountInv, CountTypes
      <3> QED BY <3>1, <3>2, DivSmall
    <2>5. CountTypes'
      BY <1>1, <1>3, <2>1, <2>2 DEF CountInv, CountTypes
    <2>6. Capped'
      BY <1>1, <2>1, <2>3 DEF CountInv, Capped
    <2>7. /\ grads = IF q = 0 THEN e * B + B ELSE r
          /\ applied + grads = e * B + B
          /\ applied - step * g = r * (IF q = 0 THEN 0 ELSE e)
          /\ step = e * q + q
      BY <1>1, <2>2, <2>4 DEF CountInv, Ledger, Waiting, Carried
    <2>8. /\ (e + 1) * B = e * B + B /\ (e + 1) * q = e * q + q
          /\ e * B \in Nat /\ e * q \in Nat
      OBVIOUS
    <2>9. Waiting' = IF q = 0 THEN (e + 1) * B + 0 ELSE r
      BY <1>1, <2>1, <2>2, <2>3 DEF Waiting
    <2>10. Carried' = r * (IF q = 0 THEN 0 ELSE e)
      BY <1>1, <2>1, <2>2, <2>3 DEF Carried
    <2>11. Ledger'
      <3>1. grads' = Waiting'
        BY <1>1, <2>7, <2>8, <2>9
      <3>2. applied' + grads' = epoch' * hp'.batches + batch'
        BY <1>1, <2>1, <2>2, <2>7, <2>8
      <3>3. applied' - step' * hp'.gradAccum = Carried'
        BY <1>1, <2>2, <2>7, <2>10
      <3>4. step' = epoch' * StepsPerEpoch' + (batch' \div hp'.gradAccum)
        <4>1. step' = (e + 1) * q + 0
          BY <1>1, <2>7, <2>8
        <4> QED BY <1>1, <2>1, <2>2, <2>3, <2>4, <4>1
      <3> QED BY <3>1, <3>2, <3>3, <3>4 DEF Ledger
    <2> QED BY <2>5, <2>6, <2>11 DEF CountInv
  <1> QED BY <1>2, <1>3

(* What is counted is so in every reachable state.                         *)
THEOREM CountsHold == TrainSpec => []CountInv
  <1>2. ASSUME CountInv, [TrainNext]_trainVars PROVE CountInv'
    <2>0. trainings \in Nat /\ step \in Nat /\ hp \in Configs
      BY <1>2 DEF CountInv, CountTypes
    <2>2. CASE NoValidation \/ Validate
      <3>1. /\ stage = "stepped" /\ stage' = "saving"
            /\ UNCHANGED <<hp, epoch, batch, grads, applied, step, trainings>>
        BY <2>2 DEF NoValidation, Validate
      <3>2. Capped'
        BY <1>2, <3>1 DEF CountInv, Capped, Cap
      <3> QED BY <1>2, <2>0, <3>1, <3>2, CountsAside
    <2>3. CASE SaveAdapter \/ SaveTrainerState \/ UNCHANGED trainVars
      <3>1. UNCHANGED <<stage, hp, epoch, batch, grads, applied, step, trainings>>
        BY <2>3 DEF SaveAdapter, SaveTrainerState, trainVars, loopVars
      <3>2. Capped'
        BY <1>2, <3>1 DEF CountInv, Capped, Cap
      <3> QED BY <1>2, <2>0, <3>1, <3>2, CountsAside
    <2>4. CASE Saved
      <3>1. /\ stage = "saving" /\ UNCHANGED <<hp, epoch, batch, grads, applied, step, trainings>>
            /\ \/ step >= hp.maxSteps /\ stage' = "finishing"
               \/ ~ (step >= hp.maxSteps) /\ stage' = "train"
        BY <2>4 DEF Saved, Finish
      <3>2. hp.maxSteps \in Int /\ Cap' = Cap /\ Cap = IF hp.maxSteps >= 1 THEN hp.maxSteps ELSE 1
        BY <2>0, <3>1, ConfigFacts DEF Cap
      <3>3. step <= Cap /\ step >= 1 /\ grads = 0
        BY <1>2, <3>1 DEF CountInv, Capped
      <3>4. Capped'
        <4>1. CASE step >= hp.maxSteps /\ stage' = "finishing"
          <5>1. step = Cap
            BY <2>0, <3>2, <3>3, <4>1
          <5> QED BY <2>0, <3>1, <3>2, <3>3, <4>1, <5>1 DEF Capped
        <4>2. CASE ~ (step >= hp.maxSteps) /\ stage' = "train"
          BY <2>0, <3>1, <3>2, <3>3, <4>2 DEF Capped
        <4> QED BY <3>1, <4>1, <4>2
      <3> QED BY <1>2, <2>0, <3>1, <3>4, CountsAside
    <2>5. CASE Done \/ Kill
      <3>1. /\ stage' = "off" \/ (stage = "finishing" /\ stage' = "done")
            /\ UNCHANGED <<hp, epoch, batch, grads, applied, step, trainings>>
        BY <2>5 DEF Done, Kill
      <3>2. Capped'
        BY <1>2, <3>1 DEF CountInv, Capped, Cap
      <3> QED BY <1>2, <2>0, <3>1, <3>2, CountsAside
    <2> QED BY <1>2, <2>2, <2>3, <2>4, <2>5, StartCounts, AccumulateCounts, StepCounts,
               EpochCounts
            DEF TrainNext
  <1> QED BY <1>2, InitCounts, PTL DEF TrainSpec
(* No more steps than all epochs have groups.                              *)
LEMMA StepsWithinEpochs ==
    ASSUME CountInv
    PROVE  /\ step <= StepsPerEpoch * hp.epochs
           /\ epoch + 1 = hp.epochs /\ batch = hp.batches => step = StepsPerEpoch * hp.epochs
  <1>1. PICK g \in Nat \ {0}, b \in Nat, e \in Nat, q \in Nat, B \in Nat, E \in Nat :
          /\ g = hp.gradAccum /\ b = batch /\ e = epoch /\ q = StepsPerEpoch
          /\ B = hp.batches /\ E = hp.epochs
    BY CountFacts, ConfigFacts DEF CountInv, CountTypes
  <1>2. /\ b <= B /\ e + 1 <= E /\ step = e * q + (b \div g) /\ q = B \div g
    BY <1>1 DEF CountInv, CountTypes, Ledger, StepsPerEpoch
  <1>3. b \div g <= q
    <2>1. PICK x \in Nat, s \in 0 .. g - 1 : x = b \div g /\ b = g * x + s
      BY DivMod
    <2>2. PICK r \in 0 .. g - 1 : B = g * q + r
      BY <1>2, DivMod
    <2>3. ASSUME x >= q + 1 PROVE FALSE
      <3>1. g * (q + 1) <= g * x /\ g * (q + 1) = g * q + g
        BY <2>3, Mono
      <3> QED BY <1>2, <2>1, <2>2, <3>1
    <2> QED BY <2>1, <2>3
  <1>4. (e + 1) * q <= E * q /\ (e + 1) * q = e * q + q /\ e * q \in Nat /\ E * q = q * E
    BY <1>2, Mono
  <1>5. b \div g \in Nat
    BY DivMod
  <1>6. step <= q * E
    BY <1>2, <1>3, <1>4, <1>5
  <1>7. e + 1 = E /\ b = B => step = q * E
    BY <1>2, <1>4, <1>5
  <1> QED BY <1>1, <1>6, <1>7

(* What a run that is done has never used.                                 *)
LEMMA UnusedWhenDone ==
    ASSUME CountInv, stage = "done"
    PROVE  grads = Unused
  <1>1. PICK g \in Nat \ {0}, e \in Nat, q \in Nat, B \in Nat, E \in Nat \ {0},
             m \in Int, s \in Nat, c \in Nat, T \in Nat :
          /\ g = hp.gradAccum /\ e = epoch /\ q = StepsPerEpoch
          /\ B = hp.batches /\ E = hp.epochs /\ m = hp.maxSteps /\ s = step /\ c = Cap
          /\ T = q * E
    <2>1. \A x, y \in Nat : x * y \in Nat
      OBVIOUS
    <2> QED BY <2>1, CountFacts, ConfigFacts DEF CountInv, CountTypes
  <1>2. T = StepsPerEpoch * hp.epochs
    BY <1>1
  <1>3. c = IF m >= 1 THEN m ELSE 1
    BY <1>1 DEF Cap
  <1>4. s <= T /\ (epoch + 1 = hp.epochs /\ batch = hp.batches => s = T)
    BY <1>1, <1>2, StepsWithinEpochs
  <1>5. Unused = IF q = 0 THEN E * B ELSE IF m <= T THEN 0 ELSE Remainder
    BY <1>1, <1>2 DEF Unused
  <1>6. CASE step = Cap /\ grads = 0
    <2>1. m <= T /\ T >= 1
      <3>1. s = c
        BY <1>1, <1>6
      <3>2. c <= T
        BY <1>4, <3>1
      <3>3. m <= c /\ c >= 1
        BY <1>3
      <3> QED BY <3>2, <3>3
    <2>2. q # 0
      <3>1. 0 * E = 0
        OBVIOUS
      <3> QED BY <1>1, <2>1, <3>1
    <2> QED BY <1>5, <1>6, <2>1, <2>2
  <1>7. CASE step < Cap /\ epoch + 1 = hp.epochs /\ batch = hp.batches
    <2>1. s = T /\ T < c
      BY <1>1, <1>4, <1>7
    <2>2. e * B + B = E * B
      <3>1. (e + 1) * B = e * B + B
        OBVIOUS
      <3>2. e + 1 = E
        BY <1>1, <1>7
      <3> QED BY <3>1, <3>2
    <2>3. grads = IF q = 0 THEN e * B + B
                  ELSE IF B >= g THEN Remainder
                  ELSE batch + (IF epoch = 0 THEN 0 ELSE Remainder)
      BY <1>1, <1>7 DEF CountInv, Ledger, Waiting, Remainder
    <2>4. CASE q = 0
      BY <1>5, <2>2, <2>3, <2>4
    <2>5. CASE q # 0
      <3>1. B >= g
        BY <1>1, <2>5, ConfigFacts DEF CountInv, CountTypes
      <3>2. q * E >= 1
        BY <2>5
      <3>3. m > T
        BY <1>1, <1>3, <2>1, <3>2
      <3> QED BY <1>5, <2>3, <2>5, <3>1, <3>3
    <2> QED BY <2>4, <2>5
  <1> QED BY <1>6, <1>7 DEF CountInv, Capped

(* No gradient is used twice or dropped; a step uses grad_accum of them,   *)
(* but the first of an epoch takes along what the epoch before left over;  *)
(* and what a finished run has never used is the remainder of its last     *)
(* epoch, nothing if the cap stopped it, or all of it if an epoch is too   *)
(* short for a step: for any sizes, epochs, caps, runs and kills.          *)
THEOREM GradientsAccounted == TrainSpec => []GradientLedger
  <1>1. ASSUME CountInv PROVE GradientLedger
    <2>1. PICK e \in Nat : e = epoch
      BY <1>1, CountFacts
    <2>2. Max({e - 1, 0}) = IF e = 0 THEN 0 ELSE e - 1
      BY MaxMin
    <2>3. Carried = Remainder * (IF StepsPerEpoch = 0 THEN 0
                                 ELSE IF batch >= hp.gradAccum THEN epoch
                                 ELSE Max({epoch - 1, 0}))
      BY <2>1, <2>2 DEF Carried
    <2>4. stage = "done" => grads = Unused
      BY <1>1, UnusedWhenDone
    <2> QED BY <1>1, <2>3, <2>4 DEF CountInv, Ledger, GradientLedger
  <1> QED BY <1>1, CountsHold, PTL

(* A run takes as many optimizer steps as the scheduler is told, and one   *)
(* where the cap is below that.                                            *)
THEOREM StepsTaken == TrainSpec => []StepBudget
  <1>1. ASSUME CountInv PROVE StepBudget
    <2>1. PICK q \in Nat, m \in Int, s \in Nat, c \in Nat :
            /\ q = StepsPerEpoch * hp.epochs /\ m = hp.maxSteps /\ s = step /\ c = Cap
      <3>1. step \in Nat /\ hp \in Configs
        BY <1>1 DEF CountInv, CountTypes
      <3>2. /\ StepsPerEpoch \in Nat /\ hp.epochs \in Nat /\ hp.maxSteps \in Int
            /\ Cap \in Nat
        BY <3>1, ConfigFacts
      <3>3. \A x, y \in Nat : x * y \in Nat
        OBVIOUS
      <3>4. StepsPerEpoch * hp.epochs \in Nat
        BY <3>2, <3>3
      <3> QED BY <3>1, <3>2, <3>4
    <2>2. c = IF m >= 1 THEN m ELSE 1
      BY <2>1 DEF Cap
    <2>3. Max({m, 1}) = c
      BY <2>2, MaxMin
    <2>4. Min({q, c}) = IF q <= c THEN q ELSE c
      BY MaxMin
    <2>5. s <= q /\ s <= c
      BY <1>1, <2>1, StepsWithinEpochs DEF CountInv, Capped
    <2>6. stage = "done" => s = c \/ s = q
      BY <1>1, <2>1, StepsWithinEpochs DEF CountInv, Capped
    <2>7. s <= Min({q, c}) /\ (stage = "done" => s = Min({q, c}))
      BY <2>4, <2>5, <2>6
    <2>8. m >= 1 => Min({q, c}) = Min({q, m})
      BY <2>2
    <2> QED BY <2>1, <2>3, <2>7, <2>8 DEF StepBudget, TotalSteps
  <1> QED BY <1>1, CountsHold, PTL

(* The state of the training is of its type.                               *)
LogsBesideAdapters ==
    /\ evalLoss \in Losses \cup {Infinity}
    /\ DOMAIN logs \subseteq DOMAIN adapters

THEOREM TrainingTypes == TrainSpec => []TrainTypeOK
  <1>1. TrainInit => LogsBesideAdapters
    BY DEF TrainInit, LogsBesideAdapters
  <1>2. ASSUME TrainInv, LogsBesideAdapters, [TrainNext]_trainVars PROVE LogsBesideAdapters'
    <2>1. CASE SaveAdapter
      BY <1>2, <2>1 DEF SaveAdapter, loopVars, Written, LogsBesideAdapters
    <2>2. CASE SaveTrainerState
      <3>1. Head(saving) \in DOMAIN adapters
        BY <1>2, <2>2 DEF SaveTrainerState, TrainInv, HalfSaved
      <3> QED BY <1>2, <2>2, <3>1 DEF SaveTrainerState, loopVars, Written, LogsBesideAdapters
    <2>3. CASE StartTraining \/ Validate
      BY <1>2, <2>3 DEF StartTraining, Validate, LogsBesideAdapters
    <2>4. CASE \/ Accumulate \/ OptimizerStep \/ NoValidation \/ Saved \/ EpochEnds \/ Done
               \/ Kill \/ UNCHANGED trainVars
      BY <1>2, <2>4 DEF Accumulate, OptimizerStep, NoValidation, Saved, EpochEnds, Done, Kill,
                        trainVars, loopVars, diskVars, LogsBesideAdapters
    <2> QED BY <1>2, <2>1, <2>2, <2>3, <2>4 DEF TrainNext
  <1>3. TrainSpec => []LogsBesideAdapters
    BY <1>1, <1>2, TrainingInvariant, PTL DEF TrainSpec
  <1>4. ASSUME TrainInv, CountInv, LogsBesideAdapters PROVE TrainTypeOK
    <2>1. Infinity \in Nat
      BY TrainingAssumption
    <2>2. bestLoss \in 0 .. Infinity /\ lowest \in 0 .. Infinity
      BY <1>4, <2>1 DEF TrainInv, TrainTypes
    <2> QED BY <1>4, <2>2
            DEF TrainInv, TrainTypes, HalfSaved, CountInv, CountTypes, LogsBesideAdapters,
                TrainTypeOK
  <1> QED BY <1>3, <1>4, TrainingInvariant, CountsHold, PTL

(* ------------------------------ together ------------------------------- *)

(* Whatever part a behaviour is one of, it is a behaviour of each of them. *)
THEOREM EachPart == Spec => CacheSpec /\ OrchSpec /\ TrainSpec /\ EvalSpec
  <1>1. Init => CacheInit /\ OrchInit /\ TrainInit /\ EvalInit
    BY DEF Init
  <1>2. [Next]_vars => [CacheNext]_cacheVars
    BY DEF Next, CacheStep, OrchStep, TrainStep, EvalStep, vars
  <1>3. [Next]_vars => [OrchNext]_orchVars
    BY DEF Next, CacheStep, OrchStep, TrainStep, EvalStep, vars
  <1>4. [Next]_vars => [TrainNext]_trainVars
    BY DEF Next, CacheStep, OrchStep, TrainStep, EvalStep, vars
  <1>5. [Next]_vars => [EvalNext]_evalVars
    BY DEF Next, CacheStep, OrchStep, TrainStep, EvalStep, vars
  <1> QED BY <1>1, <1>2, <1>3, <1>4, <1>5, PTL
          DEF Spec, CacheSpec, OrchSpec, TrainSpec, EvalSpec

(* Every state of every program is of its type.                            *)
THEOREM ProgramTypes == Spec => []TypeOK
  <1>1. CacheTypeOK /\ OrchTypeOK /\ TrainTypeOK /\ EvalTypeOK => TypeOK
    BY DEF TypeOK
  <1> QED BY <1>1, EachPart, CacheTypes, TypesHold, TrainingTypes, EvaluationTypes, PTL

(* What the run of the four programs checks, for every value of their      *)
(* constants.                                                              *)
THEOREM ProgramsSound ==
    Spec => [](/\ KeepsRecent
               /\ NothingLeftRunning /\ PodsAccountedFor
               /\ BestIsLowest /\ GradientLedger /\ StepBudget
               /\ ErrorsAreLastRun /\ ComparisonSound)
  BY EachPart, CacheKeepsRecent, NothingLeft, PodsAnswered, BestCheckpoint,
     GradientsAccounted, StepsTaken, ReportsTrue, ComparisonsSound, PTL

=============================================================================
