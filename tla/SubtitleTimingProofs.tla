------------------------- MODULE SubtitleTimingProofs -------------------------
(***************************************************************************)
(* The subtitle timing for every text, limit, voice and answer of Whisper: *)
(* the chunks and the lines each hold the words of the text, no other way  *)
(* to cut it needs fewer chunks, every word has a timestamp in order, the  *)
(* fallback lags by its holds, the file has the nearest times there are,   *)
(* the highlights keep up, and the video keeps its audio.                  *)
(***************************************************************************)
EXTENDS SubtitleTiming, SequenceTheorems, FiniteSetTheorems, WellFoundedInduction, TLAPS

-----------------------------------------------------------------------------
(* Sums *)

\* The recursion behind SumFunctionOnSet, on the sets of D.
Chosen(s) == CHOOSE x \in s : TRUE
IsSum(g, f, D) == g = [s \in D |-> IF s = {} THEN 0 ELSE f[Chosen(s)] + g[s \ {Chosen(s)}]]
Agree(e, f, D) == \A x \in D : e[x] = f[x]
Layer(S, n) == {s \in SUBSET S : Cardinality(s) <= n}

LEMMA SumIsFold ==
  ASSUME NEW f, NEW S
  PROVE  SumFunctionOnSet(f, S) = (CHOOSE g : IsSum(g, f, SUBSET S))[S]
BY DEF SumFunctionOnSet, FoldFunctionOnSet, MapThenFoldSet, IsSum, Chosen

\* Induction, as a least counterexample.
LEMMA LeastNat ==
  ASSUME NEW T \in SUBSET Nat, T # {}
  PROVE  \E n \in T : \A m \in T : n <= m
<1> DEFINE R == OpToRel(<, Nat)
<1>1. \A m, n \in Nat : m < n => << m, n >> \in R BY DEF OpToRel
<1>2. IsWellFoundedOn(R, Nat) BY NatLessThanWellFounded
<1> HIDE DEF R
<1>3. \E n \in T : \A m \in T : << m, n >> \notin R BY <1>2, WFMin
<1>4. PICK n \in T : \A m \in T : << m, n >> \notin R BY <1>3
<1>5. ASSUME NEW m \in T PROVE n <= m
  <2>1. ~(m < n) BY <1>1, <1>4
  <2> QED BY <2>1
<1> QED BY <1>5

LEMMA LeastSubset ==
  ASSUME NEW S, IsFiniteSet(S), NEW T \in SUBSET SUBSET S, T # {}
  PROVE  \E s \in T : \A t \in T : t \subseteq s => t = s
<1>1. T \subseteq FiniteSubsetsOf(S) BY FS_FiniteSubsetsOfFinite
<1>2. \E s \in T : \A t \in T : << t, s >> \notin StrictSubsetOrdering(S)
  BY <1>1, FS_StrictSubsetOrderingWellFounded, WFMin
<1> QED BY <1>2 DEF StrictSubsetOrdering

\* The recursion of every finite set can be followed, one layer of subsets at a time.
LEMMA SumExists ==
  ASSUME NEW f, NEW S, IsFiniteSet(S)
  PROVE  \E g : IsSum(g, f, SUBSET S)
<1> DEFINE T == {n \in Nat : ~ \E g : IsSum(g, f, Layer(S, n))}
<1>0. ASSUME NEW s \in SUBSET S
      PROVE  /\ IsFiniteSet(s) /\ Cardinality(s) \in Nat /\ Cardinality(s) <= Cardinality(S)
             /\ Cardinality(s) = 0 <=> s = {}
             /\ s # {} => /\ Chosen(s) \in s /\ s \ {Chosen(s)} \in SUBSET S
                          /\ Cardinality(s \ {Chosen(s)}) = Cardinality(s) - 1
  <2>1. IsFiniteSet(s) /\ Cardinality(s) \in Nat /\ Cardinality(s) <= Cardinality(S)
    BY FS_Subset, FS_CardinalityType
  <2>2. Cardinality(s) = 0 <=> s = {} BY <2>1, FS_EmptySet
  <2>3. s # {} => Chosen(s) \in s BY DEF Chosen
  <2>4. s # {} => Cardinality(s \ {Chosen(s)}) = Cardinality(s) - 1
    BY <2>1, <2>3, FS_RemoveElement
  <2> QED BY <2>1, <2>2, <2>3, <2>4
<1>1. ASSUME NEW n \in T PROVE \E m \in T : m < n
  <2>1. CASE n = 0
    <3>1. Layer(S, 0) = {{}}
      <4>1. ASSUME NEW s \in SUBSET S PROVE Cardinality(s) <= 0 <=> s = {}
        <5>1. Cardinality(s) \in Nat /\ (Cardinality(s) = 0 <=> s = {}) BY <1>0
        <5> QED BY <5>1
      <4>2. {} \in SUBSET S OBVIOUS
      <4> QED BY <4>1, <4>2 DEF Layer
    <3>2. IsSum([s \in {{}} |-> 0], f, {{}}) BY DEF IsSum
    <3> QED BY <2>1, <3>1, <3>2
  <2>2. CASE n # 0
    <3> SUFFICES ASSUME n - 1 \notin T PROVE FALSE BY <2>2
    <3>1. n - 1 \in Nat BY <2>2
    <3>2. PICK g : IsSum(g, f, Layer(S, n - 1)) BY <3>1
    <3> DEFINE h == [s \in Layer(S, n) |-> IF s = {} THEN 0 ELSE f[Chosen(s)] + g[s \ {Chosen(s)}]]
    <3>3. ASSUME NEW s \in Layer(S, n), s # {}
          PROVE  h[s \ {Chosen(s)}] = g[s \ {Chosen(s)}]
      <4> DEFINE t == s \ {Chosen(s)}
      <4>1. t \in Layer(S, n - 1) /\ t \in Layer(S, n)
        BY <1>0, <3>1, <3>3 DEF Layer
      <4>2. h[t] = IF t = {} THEN 0 ELSE f[Chosen(t)] + g[t \ {Chosen(t)}] BY <4>1
      <4>3. g[t] = IF t = {} THEN 0 ELSE f[Chosen(t)] + g[t \ {Chosen(t)}]
        <5> HIDE DEF t
        <5> QED BY <3>2, <4>1 DEF IsSum
      <4> QED BY <4>2, <4>3
    <3>4. IsSum(h, f, Layer(S, n))
      <4>1. \A s \in Layer(S, n) : (IF s = {} THEN 0 ELSE f[Chosen(s)] + g[s \ {Chosen(s)}])
                                 = (IF s = {} THEN 0 ELSE f[Chosen(s)] + h[s \ {Chosen(s)}])
        <5> HIDE DEF h
        <5> QED BY <3>3
      <4> QED BY <4>1 DEF IsSum
    <3> QED BY <3>4
  <2> QED BY <2>1, <2>2
<1>2. T = {}
  <2> SUFFICES ASSUME T # {} PROVE FALSE OBVIOUS
  <2>1. PICK n \in T : \A m \in T : n <= m
    <3> HIDE DEF T
    <3>1. T \in SUBSET Nat BY DEF T
    <3> QED BY <3>1, LeastNat
  <2> QED BY <1>1, <2>1
<1>3. Cardinality(S) \in Nat BY FS_CardinalityType
<1>4. Layer(S, Cardinality(S)) = SUBSET S BY <1>0 DEF Layer
<1>5. \E g : IsSum(g, f, Layer(S, Cardinality(S))) BY <1>2, <1>3, Zenon
<1> QED BY <1>4, <1>5

\* What such a recursion gives, whatever the order it takes the elements in.
LEMMA SumTakes ==
  ASSUME NEW S, IsFiniteSet(S), NEW f, \A x \in S : f[x] \in Int, NEW g, IsSum(g, f, SUBSET S)
  PROVE  \A s \in SUBSET S : g[s] \in Int /\ \A x \in s : g[s] = f[x] + g[s \ {x}]
<1> DEFINE Good(s) == g[s] \in Int /\ \A x \in s : g[s] = f[x] + g[s \ {x}]
           T == {s \in SUBSET S : ~Good(s)}
<1>1. \A s \in SUBSET S : g[s] = IF s = {} THEN 0 ELSE f[Chosen(s)] + g[s \ {Chosen(s)}]
  BY DEF IsSum
<1>2. ASSUME NEW s \in SUBSET S, \A t \in SUBSET S : t \subseteq s /\ t # s => Good(t)
      PROVE  Good(s)
  <2>1. CASE s = {}
    <3>1. g[s] = 0 BY <1>1, <2>1
    <3> QED BY <2>1, <3>1
  <2>2. CASE s # {}
    <3> DEFINE c == Chosen(s)
    <3>1. c \in s /\ c \in S /\ f[c] \in Int BY <2>2 DEF Chosen
    <3>2. g[s] = f[c] + g[s \ {c}] BY <1>1, <2>2
    <3> HIDE DEF c, Good
    <3>3. Good(s \ {c}) BY <1>2, <3>1
    <3>4. g[s] \in Int BY <3>1, <3>2, <3>3 DEF Good
    <3>5. ASSUME NEW x \in s PROVE g[s] = f[x] + g[s \ {x}]
      <4>1. CASE x = c BY <3>2, <4>1
      <4>2. CASE x # c
        <5>1. Good(s \ {x}) /\ Good((s \ {x}) \ {c}) BY <1>2, <3>1
        <5>2. (s \ {c}) \ {x} = (s \ {x}) \ {c} OBVIOUS
        <5>3. g[s \ {c}] = f[x] + g[(s \ {x}) \ {c}] BY <3>3, <4>2, <5>2 DEF Good
        <5>4. g[s \ {x}] = f[c] + g[(s \ {x}) \ {c}] BY <3>1, <4>2, <5>1 DEF Good
        <5>5. g[(s \ {x}) \ {c}] \in Int /\ f[x] \in Int BY <5>1 DEF Good
        <5> QED BY <3>1, <3>2, <5>3, <5>4, <5>5
      <4> QED BY <4>1, <4>2
    <3> QED BY <3>4, <3>5 DEF Good
  <2> QED BY <2>1, <2>2
<1>3. T = {}
  <2> SUFFICES ASSUME T # {} PROVE FALSE OBVIOUS
  <2> HIDE DEF Good
  <2>1. PICK s \in T : \A t \in T : t \subseteq s => t = s
    <3> HIDE DEF T
    <3>1. T \in SUBSET SUBSET S BY DEF T
    <3> QED BY <3>1, LeastSubset
  <2>2. \A t \in SUBSET S : t \subseteq s /\ t # s => Good(t) BY <2>1
  <2> QED BY <1>2, <2>1, <2>2
<1> QED BY <1>3

\* Two such recursions agree where their functions do.
LEMMA SumAgrees ==
  ASSUME NEW S, NEW R \in SUBSET S, IsFiniteSet(R), NEW f, NEW e, Agree(e, f, R)
  PROVE  \A g, h : IsSum(g, f, SUBSET S) /\ IsSum(h, e, SUBSET R) => h[R] = g[R]
<1> SUFFICES ASSUME NEW g, IsSum(g, f, SUBSET S), NEW h, IsSum(h, e, SUBSET R) PROVE h[R] = g[R]
  OBVIOUS
<1> DEFINE T == {s \in SUBSET R : h[s] # g[s]}
<1>1. ASSUME NEW s \in SUBSET R, \A t \in SUBSET R : t \subseteq s /\ t # s => h[t] = g[t]
      PROVE  h[s] = g[s]
  <2>1. /\ g[s] = IF s = {} THEN 0 ELSE f[Chosen(s)] + g[s \ {Chosen(s)}]
        /\ h[s] = IF s = {} THEN 0 ELSE e[Chosen(s)] + h[s \ {Chosen(s)}]
    BY DEF IsSum
  <2>2. s # {} => Chosen(s) \in s BY DEF Chosen
  <2>3. s # {} => e[Chosen(s)] = f[Chosen(s)] /\ h[s \ {Chosen(s)}] = g[s \ {Chosen(s)}] BY <1>1, <2>2 DEF Agree
  <2> QED BY <2>1, <2>3
<1>2. T = {}
  <2> SUFFICES ASSUME T # {} PROVE FALSE OBVIOUS
  <2>1. PICK s \in T : \A t \in T : t \subseteq s => t = s
    <3> HIDE DEF T
    <3>1. T \in SUBSET SUBSET R BY DEF T
    <3> QED BY <3>1, LeastSubset
  <2>2. \A t \in SUBSET R : t \subseteq s /\ t # s => h[t] = g[t] BY <2>1
  <2> QED BY <1>1, <2>1, <2>2
<1> QED BY <1>2

LEMMA SumGives ==
  ASSUME NEW S, IsFiniteSet(S), NEW f
  PROVE  \E g : IsSum(g, f, SUBSET S) /\ SumFunctionOnSet(f, S) = g[S]
<1> DEFINE g == CHOOSE g : IsSum(g, f, SUBSET S)
<1>1. IsSum(g, f, SUBSET S) BY SumExists
<1>2. SumFunctionOnSet(f, S) = g[S] BY SumIsFold
<1> HIDE DEF g
<1> QED BY <1>1, <1>2

\* What the proofs below know of a sum.
LEMMA SumFacts ==
  ASSUME NEW S, IsFiniteSet(S), NEW f, \A x \in S : f[x] \in Int
  PROVE  /\ SumFunctionOnSet(f, S) \in Int
         /\ \A x \in S : SumFunctionOnSet(f, S) = f[x] + SumFunctionOnSet(f, S \ {x})
         /\ S = {} => SumFunctionOnSet(f, S) = 0
<1>1. PICK g : IsSum(g, f, SUBSET S) /\ SumFunctionOnSet(f, S) = g[S] BY SumGives
<1>3. g[S] \in Int /\ \A x \in S : g[S] = f[x] + g[S \ {x}]
  <2>1. S \in SUBSET S OBVIOUS
  <2>2. \A s \in SUBSET S : g[s] \in Int /\ \A x \in s : g[s] = f[x] + g[s \ {x}]
    <3>1. IsSum(g, f, SUBSET S) BY <1>1
    <3> QED BY <3>1, SumTakes
  <2> QED BY <2>1, <2>2
<1>4. ASSUME NEW x \in S PROVE SumFunctionOnSet(f, S \ {x}) = g[S \ {x}]
  <2> DEFINE R == S \ {x}
  <2>1. IsFiniteSet(R) /\ R \in SUBSET S BY FS_Subset
  <2> HIDE DEF R
  <2>2. PICK h : IsSum(h, f, SUBSET R) /\ SumFunctionOnSet(f, R) = h[R] BY <2>1, SumGives
  <2>4. h[R] = g[R]
    <3>1. Agree(f, f, R) BY DEF Agree
    <3>2. IsSum(g, f, SUBSET S) BY <1>1
    <3>3. IsSum(h, f, SUBSET R) BY <2>2
    <3> QED BY <2>1, <3>1, <3>2, <3>3, SumAgrees
  <2> QED BY <2>2, <2>4 DEF R
<1>5. S = {} => g[S] = 0 BY <1>1 DEF IsSum
<1> QED BY <1>1, <1>3, <1>4, <1>5

LEMMA SumSame ==
  ASSUME NEW S, IsFiniteSet(S), NEW f, NEW e, \A x \in S : e[x] = f[x]
  PROVE  SumFunctionOnSet(e, S) = SumFunctionOnSet(f, S)
<1>1. PICK g : IsSum(g, f, SUBSET S) /\ SumFunctionOnSet(f, S) = g[S] BY SumGives
<1>2. PICK h : IsSum(h, e, SUBSET S) /\ SumFunctionOnSet(e, S) = h[S] BY SumGives
<1>3. h[S] = g[S]
  <2>1. S \in SUBSET S /\ Agree(e, f, S) BY DEF Agree
  <2>2. IsSum(g, f, SUBSET S) BY <1>1
  <2>3. IsSum(h, e, SUBSET S) BY <1>2
  <2> QED BY <2>1, <2>2, <2>3, SumAgrees
<1> QED BY <1>1, <1>2, <1>3

\* The sum of a stretch, one element longer.
LEMMA SumStretch ==
  ASSUME NEW a \in Int, NEW b \in Int, b >= a, NEW f, \A x \in a..b : f[x] \in Int
  PROVE  /\ SumFunctionOnSet(f, a..b) = SumFunctionOnSet(f, a..b - 1) + f[b]
         /\ SumFunctionOnSet(f, a..b - 1) \in Int /\ f[b] \in Int
<1>1. IsFiniteSet(a..b) /\ IsFiniteSet(a..b - 1) BY FS_Interval
<1>2. (a..b) \ {b} = a..b - 1 /\ b \in a..b OBVIOUS
<1>3. SumFunctionOnSet(f, a..b) = f[b] + SumFunctionOnSet(f, a..b - 1)
  <2>1. \A T : IsFiniteSet(T) /\ (\A x \in T : f[x] \in Int) =>
          \A x \in T : SumFunctionOnSet(f, T) = f[x] + SumFunctionOnSet(f, T \ {x})
    BY SumFacts, Zenon
  <2> QED BY <1>1, <1>2, <2>1
<1>4. SumFunctionOnSet(f, a..b - 1) \in Int BY <1>1, SumFacts
<1> QED BY <1>2, <1>3, <1>4

LEMMA SumEmpty ==
  ASSUME NEW a \in Int, NEW b \in Int, b < a, NEW f
  PROVE  SumFunctionOnSet(f, a..b) = 0
<1>1. a..b = {} /\ IsFiniteSet(a..b) BY FS_Interval
<1> QED BY <1>1, SumFacts

-----------------------------------------------------------------------------
(* Division *)

\* Quotient and remainder, as variables of their own.
LEMMA DivMod ==
  ASSUME NEW d \in Nat \ {0}, NEW t \in Int
  PROVE  \E q \in Int, r \in Nat : q = t \div d /\ r = t % d /\ r < d /\ t = d * q + r
<1>1. t \div d \in Int /\ t % d \in Nat /\ t % d < d
  BY Z3
<1>2. PICK q \in Int, r \in Nat : q = t \div d /\ r = t % d
  BY <1>1
<1>3. d \in Nat /\ d > 0 /\ r \in Int
  OBVIOUS
<1>4. t = d * q + r
  BY <1>2, <1>3, Z3
<1>5. r < d
  BY <1>1, <1>2
<1> QED BY <1>2, <1>4, <1>5

\* There is one remainder.
LEMMA DivUnique ==
  ASSUME NEW d \in Nat \ {0}, NEW a \in Int, NEW b \in Int, NEW r \in Nat, NEW s \in Nat,
         r < d, s < d, d * a + r = d * b + s
  PROVE  r = s
<1>1. d * a - d * b = d * (a - b) /\ d * a \in Int /\ d * b \in Int /\ d * (a - b) \in Int
  BY Z3
<1>2. CASE a = b
  BY <1>1, <1>2
<1>3. CASE a > b
  <2>1. d * (a - b) >= d
    BY <1>3, Z3
  <2> QED BY <1>1, <2>1
<1>4. CASE a < b
  <2>1. d * (b - a) >= d /\ d * (b - a) = d * b - d * a
    BY <1>4, Z3
  <2> QED BY <1>1, <2>1
<1> QED BY <1>2, <1>3, <1>4

\* What is left of a time after whole units of 60 parts, told in parts.
LEMMA ModOfMod ==
  ASSUME NEW d \in Nat \ {0}, NEW t \in Nat, NEW D \in Nat \ {0}, D = 60 * d
  PROVE  \E q \in Int, x \in Nat : q = (t % D) \div d /\ x = t % d /\ t % D = d * q + x
<1>0. t \in Int
  OBVIOUS
<1>2. PICK a \in Int, r \in Nat : r = t % D /\ t = D * a + r
  BY <1>0, DivMod
<1>3. PICK b \in Int, x \in Nat : b = r \div d /\ x < d /\ r = d * b + x
  BY DivMod
<1>4. PICK c \in Int, y \in Nat : y = t % d /\ y < d /\ t = d * c + y
  BY <1>0, DivMod
<1>5. PICK e \in Int : e = 60 * a + b /\ d * e = D * a + d * b
  <2>1. 60 * a + b \in Int /\ d * (60 * a + b) = D * a + d * b
    BY Z3
  <2> QED BY <2>1
<1>6. d * e + x = d * c + y
  <2>1. D * a \in Int /\ d * b \in Int
    BY Z3
  <2>2. t = D * a + r /\ r = d * b + x /\ t = d * c + y /\ d * e = D * a + d * b
    BY <1>2, <1>3, <1>4, <1>5, Zenon
  <2>3. PICK u \in Int, v \in Int : u = D * a /\ v = d * b
    BY <2>1
  <2>4. t = u + r /\ r = v + x /\ d * e = u + v
    BY <2>2, <2>3, Zenon
  <2>5. d * e + x = t
    BY <2>4
  <2> QED BY <2>2, <2>5, Zenon
<1>7. x = y
  BY <1>3, <1>4, <1>6, DivUnique
<1>8. r = t % D /\ b = r \div d /\ r = d * b + x /\ x = t % d
  BY <1>2, <1>3, <1>4, <1>7
<1>9. b = (t % D) \div d /\ x = t % d /\ t % D = d * b + x
  BY <1>8
<1> QED BY <1>9

USE TextsAssumption, LimitAssumption, SecondAssumption, VoicesAssumption,
    HearingsAssumption

-----------------------------------------------------------------------------
(* Times *)

LEMMA CentiFacts == Centi \in Nat \ {0} /\ Second = 100 * Centi
BY Z3 DEF Centi

LEMMA ConstantTimes ==
  /\ INTER_CHUNK_HOLD_SECONDS \in Nat
  /\ INTER_CHUNK_DELAY_SECONDS \in Nat
  /\ SUBTITLE_START_DELAY_SECONDS \in Nat
BY CentiFacts DEF INTER_CHUNK_HOLD_SECONDS, INTER_CHUNK_DELAY_SECONDS,
                  SUBTITLE_START_DELAY_SECONDS

LEMMA RoundType == \A t \in Int : RoundCs(t) \in Int
BY CentiFacts DEF RoundCs

LEMMA DivFacts ==
  ASSUME NEW d \in Nat \ {0}, NEW t \in Nat
  PROVE  /\ t \div d \in Nat /\ t % d \in Nat
         /\ d * (t \div d) <= t
<1>1. t \div d \in Int /\ t % d \in Nat
  BY Z3
<1>2. d * (t \div d) <= t
  BY Z3
<1>3. t \div d >= 0
  BY Z3
<1> QED BY <1>1, <1>2, <1>3

\* Dividing a part of a whole of n units by the unit gives at most n - 1.
LEMMA DivBelow ==
  ASSUME NEW d \in Nat \ {0}, NEW n \in Nat, NEW t \in Nat, t < n * d
  PROVE  t \div d \in Nat /\ t \div d < n
<1>1. t \div d \in Nat /\ d * (t \div d) <= t
  BY DivFacts
<1>2. SUFFICES ASSUME t \div d >= n PROVE FALSE
  BY <1>1
<1>3. d * (t \div d) >= d * n
  BY <1>1, <1>2, Z3
<1>4. d * n = n * d /\ d * n \in Nat /\ d * (t \div d) \in Nat
  BY <1>1, Z3
<1> QED BY <1>1, <1>3, <1>4

\* What is written of a time fits its fields; the centiseconds may be 100.
LEMMA AssTimeType == \A t \in Nat : format_ass_time(t) \in AssTime
<1> TAKE t \in Nat
<1>1. t \div (3600 * Second) \in Nat
  <2>1. 3600 * Second \in Nat \ {0}
    OBVIOUS
  <2> QED BY <2>1
<1>2. (t % (3600 * Second)) \div (60 * Second) \in 0..59
  <2> DEFINE r == t % (3600 * Second)  d == 60 * Second
  <2>1. d \in Nat \ {0} /\ r \in Nat /\ r < 3600 * Second
    OBVIOUS
  <2>2. r < 60 * d
    BY <2>1
  <2> HIDE DEF r, d
  <2> QED BY <2>1, <2>2, DivBelow DEF r, d
<1>3. (t % (60 * Second)) \div Second \in 0..59
  <2> DEFINE r == t % (60 * Second)
  <2>1. r \in Nat /\ r < 60 * Second
    OBVIOUS
  <2> HIDE DEF r
  <2> QED BY <2>1, DivBelow DEF r
<1>4. RoundCs(t % Second) \in 0..100
  <2> DEFINE r == t % Second
  <2>1. r \in Nat /\ r < 100 * Centi
    BY CentiFacts
  <2> HIDE DEF r
  <2>2. r \div Centi \in Nat /\ r \div Centi < 100
    BY <2>1, CentiFacts, DivBelow
  <2> DEFINE q == r \div Centi
  <2>3. RoundCs(r) = q \/ RoundCs(r) = q + 1
    BY DEF RoundCs
  <2>5. q \in Nat /\ q < 100
    BY <2>2
  <2> HIDE DEF q
  <2>6. q \in 0..100 /\ q + 1 \in 0..100
    BY <2>5
  <2>4. RoundCs(r) \in 0..100
    BY <2>3, <2>6, Zenon
  <2> QED BY <2>4 DEF r
<1> QED BY <1>1, <1>2, <1>3, <1>4 DEF format_ass_time, AssTime

\* Rounding moves a time by half a centisecond at most.
LEMMA RoundNear ==
  ASSUME NEW t \in Int
  PROVE  /\ RoundCs(t) \in Int /\ RoundCs(t) * Centi \in Int
         /\ 2 * (RoundCs(t) * Centi - t) <= Centi
         /\ 2 * (t - RoundCs(t) * Centi) <= Centi
<1>0. Centi \in Nat \ {0}
  BY CentiFacts
<1>1. PICK q \in Int, r \in Nat : q = t \div Centi /\ r = t % Centi /\ r < Centi /\ t = Centi * q + r
  BY <1>0, DivMod
<1>2. /\ RoundCs(t) = q \/ RoundCs(t) = q + 1
      /\ RoundCs(t) = q => 2 * r <= Centi
      /\ RoundCs(t) = q + 1 => 2 * r >= Centi
  <2>1. RoundCs(t) = IF 2 * r < Centi \/ (2 * r = Centi /\ q % 2 = 0) THEN q ELSE q + 1
    BY <1>1 DEF RoundCs
  <2> QED BY <1>0, <1>1, <2>1
<1>3. PICK z \in Int : z = q * Centi /\ z = Centi * q /\ (q + 1) * Centi = z + Centi
  BY <1>0, Z3
<1>6. t = z + r
  <2>1. t = Centi * q + r
    BY <1>1
  <2> QED BY <1>3, <2>1
<1>4. CASE RoundCs(t) = q
  <2>1. RoundCs(t) * Centi = z
    BY <1>3, <1>4
  <2> QED BY <1>0, <1>2, <1>4, <1>6, <2>1
<1>5. CASE RoundCs(t) = q + 1
  <2>1. RoundCs(t) * Centi = z + Centi
    BY <1>3, <1>5
  <2>2. 2 * r >= Centi /\ r < Centi
    BY <1>1, <1>2, <1>5
  <2> QED BY <1>0, <1>5, <1>6, <2>1, <2>2
<1> QED BY <1>2, <1>4, <1>5

\* The fields of a time add up to it, rounded.
LEMMA AssTimeNear ==
  ASSUME NEW t \in Nat
  PROVE  NearestCs(format_ass_time(t), t)
<1>1. PICK M \in Nat \ {0}, H \in Nat \ {0} : M = 60 * Second /\ H = 60 * M /\ H = 3600 * Second
  <2>1. 60 * Second \in Nat \ {0} /\ 60 * (60 * Second) \in Nat \ {0} /\ 60 * (60 * Second) = 3600 * Second
    BY CentiFacts
  <2> QED BY <2>1
<1>0. t \in Int
  OBVIOUS
<1>2. Second \in Nat \ {0} /\ Centi \in Nat \ {0} /\ Second = 100 * Centi /\ 60 \in Nat \ {0}
  BY CentiFacts
<1>3. PICK h \in Int, rh \in Nat : h = t \div H /\ rh = t % H /\ t = H * h + rh
  BY <1>0, DivMod
<1>11. \A d, D \in Nat \ {0} : D = 60 * d =>
         \E q \in Int, x \in Nat : q = (t % D) \div d /\ x = t % d /\ t % D = d * q + x
  BY ModOfMod, Zenon
<1>4. PICK m \in Int, rm \in Nat : m = (t % H) \div M /\ rm = t % M /\ t % H = M * m + rm
  <2>1. H = 60 * M
    BY <1>1
  <2> QED BY <1>11, <2>1, Zenon
<1>5. PICK s \in Int, r \in Nat : s = (t % M) \div Second /\ r = t % Second /\ t % M = Second * s + r
  <2>1. M = 60 * Second /\ Second \in Nat \ {0}
    BY <1>1, <1>2
  <2> QED BY <1>11, <2>1, Zenon
<1> DEFINE cs == RoundCs(r)
           sum == ((h * 60 + m) * 60 + s) * 100 + cs
<1>7. /\ cs \in Int /\ cs * Centi \in Int
      /\ 2 * (cs * Centi - r) <= Centi /\ 2 * (r - cs * Centi) <= Centi
  BY RoundNear
<1> HIDE DEF cs
<1>8. /\ sum * Centi = H * h + M * m + Second * s + cs * Centi
      /\ H * h \in Int /\ M * m \in Int /\ Second * s \in Int
  BY <1>1, <1>2, <1>7, Z3
<1>9. Read(format_ass_time(t)) = sum
  BY <1>1, <1>3, <1>4, <1>5 DEF Read, format_ass_time, cs
<1> HIDE DEF sum
<1>10. t = H * h + M * m + Second * s + r
  <2>1. t = H * h + rh /\ rh = M * m + rm /\ rm = Second * s + r
    <3>1. rh = M * m + rm
      BY <1>3, <1>4
    <3>2. rm = Second * s + r
      BY <1>4, <1>5
    <3> QED BY <1>3, <3>1, <3>2
  <2>2. PICK u \in Int, v \in Int, w \in Int : u = H * h /\ v = M * m /\ w = Second * s
    BY <1>8
  <2>3. t = u + rh /\ rh = v + rm /\ rm = w + r
    BY <2>1, <2>2, Zenon
  <2>4. t = u + v + w + r
    BY <2>3
  <2> QED BY <2>2, <2>4, Zenon
<1>12. 2 * (sum * Centi - t) <= Centi /\ 2 * (t - sum * Centi) <= Centi /\ sum * Centi \in Int
  BY <1>2, <1>7, <1>8, <1>10
<1> QED BY <1>9, <1>12 DEF NearestCs, Most

-----------------------------------------------------------------------------
(* Timestamps *)

LEMMA StampTypes ==
  ASSUME NEW s \in Seq(Stamp), NEW i \in 1..Len(s)
  PROVE  s[i].start \in Nat /\ s[i].end \in Nat
<1>1. s[i] \in Stamp
  BY ElementOfSeq
<1> QED BY <1>1 DEF Stamp

\* In a stretch in order no word ends after the last one, or starts before the first.
LEMMA EndsGrow ==
  ASSUME NEW s \in Seq(Stamp), InOrder(s), NEW i \in 1..Len(s), NEW j \in 1..Len(s), i <= j
  PROVE  s[i].end <= s[j].end
<1>1. s[i].end \in Nat /\ s[j].start \in Nat /\ s[j].end \in Nat
  BY StampTypes
<1>2. CASE i < j
  <2>1. s[i].end <= s[j].start /\ s[j].start <= s[j].end
    BY <1>2 DEF InOrder
  <2> QED BY <1>1, <2>1
<1> QED BY <1>1, <1>2

LEMMA StartsGrow ==
  ASSUME NEW s \in Seq(Stamp), InOrder(s), NEW i \in 1..Len(s), NEW j \in 1..Len(s), i <= j
  PROVE  s[i].start <= s[j].start
<1>1. s[i].start \in Nat /\ s[i].end \in Nat /\ s[j].start \in Nat
  BY StampTypes
<1>2. CASE i < j
  <2>1. s[i].end <= s[j].start /\ s[i].start <= s[i].end
    BY <1>2 DEF InOrder
  <2> QED BY <1>1, <2>1
<1> QED BY <1>1, <1>2

\* Even shares of a stretch are in order and end with it.
LEMMA SharesInOrder ==
  ASSUME NEW n \in Nat, NEW from \in Nat, NEW per \in Nat
  PROVE  /\ Shares(n, from, per) \in Seq(Stamp) /\ Len(Shares(n, from, per)) = n
         /\ InOrder(Shares(n, from, per))
         /\ n > 0 => /\ Shares(n, from, per)[1].start = from
                     /\ Shares(n, from, per)[n].end = from + n * per
<1> DEFINE s == [i \in 1..n |-> [start |-> from + (i - 1) * per, end |-> from + i * per]]
<1>1. \A i \in 1..n : /\ (i - 1) * per \in Nat /\ i * per \in Nat
                      /\ (i - 1) * per + per = i * per
                      /\ ((i + 1) - 1) * per = i * per
  BY Z3
<1>2. \A i \in 1..n : from + (i - 1) * per \in Nat /\ from + i * per \in Nat
  BY <1>1
<1>3. s \in [1..n -> Stamp]
  BY <1>2 DEF Stamp
<1>4. s \in Seq(Stamp) /\ Len(s) = n
  <2> HIDE DEF s
  <2> QED BY <1>3
<1>5. \A i \in 1..n : s[i].start <= s[i].end
  BY <1>1, <1>2
<1>6. ASSUME NEW i \in 1..n, NEW j \in 1..n, i < j PROVE s[i].end <= s[j].start
  <2>1. i * per <= (j - 1) * per
    <3> DEFINE gap == j - 1 - i
    <3>0. gap \in Nat /\ j - 1 = i + gap
      BY <1>6
    <3> HIDE DEF gap
    <3>1. gap * per \in Nat
      BY <3>0, Z3
    <3>2. (i + gap) * per = i * per + gap * per
      BY <3>0, Z3
    <3> QED BY <1>1, <3>0, <3>1, <3>2
  <2> QED BY <1>2, <2>1
<1>7. n > 0 => s[1].start = from /\ s[n].end = from + n * per
  BY <1>1
<1> HIDE DEF s
<1>8. InOrder(s)
  BY <1>4, <1>5, <1>6 DEF InOrder
<1>9. s = Shares(n, from, per)
  BY DEF s, Shares
<1> QED BY <1>4, <1>7, <1>8, <1>9

\* Two stretches of timestamps in order, the second behind the first.
LEMMA ConcatInOrder ==
  ASSUME NEW s \in Seq(Stamp), NEW r \in Seq(Stamp), InOrder(s), InOrder(r),
         Len(s) > 0 /\ Len(r) > 0 => s[Len(s)].end <= r[1].start
  PROVE  InOrder(s \o r)
<1> DEFINE c == s \o r
<1>1. /\ c \in Seq(Stamp) /\ Len(c) = Len(s) + Len(r)
      /\ \A i \in 1..Len(s) + Len(r) : c[i] = IF i <= Len(s) THEN s[i] ELSE r[i - Len(s)]
  BY ConcatProperties
<1>2. Len(s) \in Nat /\ Len(r) \in Nat
  BY LenProperties
<1> HIDE DEF c
<1>3. ASSUME NEW i \in 1..Len(c) PROVE c[i].start <= c[i].end
  <2>1. CASE i <= Len(s)
    BY <1>1, <1>2, <2>1 DEF InOrder
  <2>2. CASE i > Len(s)
    <3>1. i - Len(s) \in 1..Len(r) /\ c[i] = r[i - Len(s)]
      BY <1>1, <1>2, <2>2
    <3> QED BY <3>1 DEF InOrder
  <2> QED BY <2>1, <2>2, <1>1, <1>2
<1>4. ASSUME NEW i \in 1..Len(c), NEW j \in 1..Len(c), i < j
      PROVE  c[i].end <= c[j].start
  <2>1. CASE j <= Len(s)
    <3>1. c[i] = s[i] /\ c[j] = s[j] /\ i \in 1..Len(s) /\ j \in 1..Len(s)
      BY <1>1, <1>2, <1>4, <2>1
    <3> QED BY <1>4, <3>1 DEF InOrder
  <2>2. CASE i > Len(s)
    <3>1. i - Len(s) \in 1..Len(r) /\ c[i] = r[i - Len(s)]
      BY <1>1, <1>2, <1>4, <2>2
    <3>2. j - Len(s) \in 1..Len(r) /\ c[j] = r[j - Len(s)]
      BY <1>1, <1>2, <1>4, <2>2
    <3>3. i - Len(s) < j - Len(s)
      BY <1>2, <1>4
    <3> QED BY <3>1, <3>2, <3>3 DEF InOrder
  <2>3. CASE i <= Len(s) /\ j > Len(s)
    <3>1. /\ i \in 1..Len(s) /\ j - Len(s) \in 1..Len(r)
          /\ c[i] = s[i] /\ c[j] = r[j - Len(s)]
      BY <1>1, <1>2, <2>3
    <3>2. s[i].end <= s[Len(s)].end
      BY <1>2, <3>1, EndsGrow
    <3>3. r[1].start <= r[j - Len(s)].start
      BY <1>2, <3>1, StartsGrow
    <3>4. /\ s[i].end \in Nat /\ s[Len(s)].end \in Nat
          /\ r[1].start \in Nat /\ r[j - Len(s)].start \in Nat
      <4>1. Len(s) \in 1..Len(s) /\ 1 \in 1..Len(r)
        BY <1>2, <3>1
      <4> QED BY <3>1, <4>1, StampTypes
    <3>5. s[Len(s)].end <= r[1].start
      BY <1>2, <3>1
    <3> QED BY <3>1, <3>2, <3>3, <3>4, <3>5
  <2> QED BY <2>1, <2>2, <2>3, <1>1, <1>2
<1> QED BY <1>3, <1>4 DEF InOrder, c

\* Whatever Whisper has heard, if it is anything: a timestamp for every word, in
\* order, up to the last end heard.
LEMMA AlignedFacts ==
  ASSUME NEW h \in Hearings, h # <<>>, words \in Seq(Nat \ {0}) \ {<<>>}
  PROVE  /\ Aligned(h) \in Seq(Stamp) /\ Len(Aligned(h)) = Len(words)
         /\ InOrder(Aligned(h))
         /\ Aligned(h)[Len(words)].end <= h[Len(h)].end
<1>1. h \in Seq(Stamp) /\ InOrder(h) /\ Len(h) \in Nat \ {0}
  BY EmptySeq
<1>2. Len(words) \in Nat \ {0}
  BY EmptySeq
<1>3. h[Len(h)].end \in Nat
  BY <1>1, StampTypes
<1>4. CASE Len(h) >= Len(words)
  <2> DEFINE s == SubSeq(h, 1, Len(words))
  <2>1. /\ s \in Seq(Stamp) /\ Len(s) = Len(words)
        /\ \A i \in 1..Len(words) : s[i] = h[i]
    BY <1>1, <1>2, <1>4
  <2> HIDE DEF s
  <2>2. InOrder(s)
    <3>1. \A i \in 1..Len(words) : i \in 1..Len(h)
      BY <1>1, <1>2, <1>4
    <3>2. ASSUME NEW i \in 1..Len(words) PROVE s[i].start <= s[i].end
      <4>1. s[i] = h[i] /\ i \in 1..Len(h)
        BY <2>1, <3>1
      <4> QED BY <1>1, <4>1 DEF InOrder
    <3>3. ASSUME NEW i \in 1..Len(words), NEW j \in 1..Len(words), i < j
          PROVE  s[i].end <= s[j].start
      <4>1. s[i] = h[i] /\ s[j] = h[j] /\ i \in 1..Len(h) /\ j \in 1..Len(h)
        BY <2>1, <3>1
      <4> QED BY <1>1, <3>3, <4>1 DEF InOrder
    <3> QED BY <2>1, <3>2, <3>3 DEF InOrder
  <2>3. h[Len(words)].end <= h[Len(h)].end
    BY <1>1, <1>2, <1>4, EndsGrow
  <2> QED BY <1>2, <1>4, <2>1, <2>2, <2>3 DEF Aligned, s
<1>5. CASE Len(h) < Len(words)
  <2> DEFINE interval == h[Len(h)].end \div Len(words)
  <2>1. interval \in Nat /\ Len(words) * interval <= h[Len(h)].end
    BY <1>2, <1>3, DivFacts
  <2>2. Aligned(h) = Shares(Len(words), 0, interval)
    BY <1>1, <1>2, <1>5 DEF Aligned, Interpolated
  <2> HIDE DEF interval
  <2>3. Len(words) \in Nat /\ Len(words) > 0
    BY <1>2
  <2> DEFINE z == Shares(Len(words), 0, interval)
  <2>4. /\ z \in Seq(Stamp) /\ Len(z) = Len(words) /\ InOrder(z)
        /\ z[Len(words)].end = 0 + Len(words) * interval
    BY <2>1, <2>3, SharesInOrder
  <2>5. Len(words) * interval \in Nat
    BY <2>1, <2>3, Z3
  <2> HIDE DEF z
  <2>6. Aligned(h) = z
    BY <2>2 DEF z
  <2> QED BY <2>1, <2>4, <2>5, <2>6
<1> QED BY <1>1, <1>2, <1>4, <1>5

-----------------------------------------------------------------------------
(* The inductive invariant *)

\* A line of the .ass file, its highlights included.
Sweeps == UNION {[ws -> Int] : ws \in SUBSET Nat}
LineType == [first : Nat, last : Nat, shown : AssTime, hidden : AssTime,
             lead : Nat, sweep : Sweeps]

TypeInv ==
  /\ words \in Seq(Nat \ {0}) \ {<<>>}
  /\ pc \in {"split", "speak", "hear", "derive", "lines", "render", "done"}
  /\ next \in Nat \ {0}
  /\ cur \in ChunkType /\ chunks \in Seq(ChunkType)
  /\ voice \in Seq(Nat) /\ durations \in Seq(Nat) /\ audio \in Nat
  /\ heard \in Seq(Stamp) /\ clock \in Nat /\ stamps \in Seq(Stamp)
  /\ lines \in Seq(LineType)
  /\ video \in Nat \cup {Unrendered}

\* Pieces that follow one another from the first word on; where the next begins.
Tiles(s) ==
  /\ s # <<>> => s[1].first = 1
  /\ \A k \in 1..Len(s) : s[k].first <= s[k].last
  /\ \A k \in 1..Len(s) - 1 : s[k + 1].first = s[k].last + 1
NextFirst(s) == IF s = <<>> THEN 1 ELSE s[Len(s)].last + 1

Small(chunk) == chunk.chars <= Limit \/ chunk.first = chunk.last

\* The chunk being filled continues the chunks and reaches to the word before next.
SplitInv ==
  /\ Tiles(chunks) /\ \A k \in 1..Len(chunks) : Small(chunks[k])
  /\ pc = "split" =>
       /\ next <= Len(words) + 1
       /\ cur = NoChunk => next = 1 /\ chunks = <<>>
       /\ cur # NoChunk => /\ cur.first = NextFirst(chunks) /\ cur.first <= cur.last
                           /\ cur.last = next - 1 /\ Small(cur)
  /\ pc # "split" => chunks # <<>> /\ chunks[Len(chunks)].last = Len(words)

\* Every chunk has its duration; the fallback has come to the end of the chunk before
\* next, and its clock to the end of that or behind it.
StampInv ==
  /\ InOrder(stamps)
  /\ pc \in {"split", "speak", "hear"} => stamps = <<>> /\ clock = 0 /\ heard = <<>>
  /\ pc = "split" => durations = <<>>
  /\ pc = "speak" => Len(durations) = next - 1 /\ next <= Len(chunks) + 1
  /\ pc \in {"hear", "derive"} => Len(durations) = Len(chunks)
  /\ pc = "derive" =>
       /\ heard = <<>> /\ next <= Len(chunks) + 1
       /\ Len(stamps) = (IF next = 1 THEN 0 ELSE chunks[next - 1].last)
       /\ Len(stamps) > 0 => stamps[Len(stamps)].end <= clock
  /\ pc \in {"lines", "render", "done"} =>
       /\ Len(stamps) = Len(words)
       /\ heard # <<>> => stamps[Len(words)].end <= heard[Len(heard)].end

\* The lines reach to the word before next.
LineInv ==
  /\ Tiles(lines)
  /\ \A k \in 1..Len(lines) : lines[k].last < lines[k].first + CHUNK_SIZE_WORDS
  /\ pc \in {"split", "speak", "hear", "derive"} => lines = <<>>
  /\ pc = "lines" => next = NextFirst(lines) /\ next <= Len(words) + 1
  /\ pc \in {"render", "done"} => lines # <<>> /\ lines[Len(lines)].last = Len(words)

Inv == TypeInv /\ SplitInv /\ StampInv /\ LineInv /\ VideoKeepsAudio

LEMMA AppendTiles ==
  ASSUME NEW S, NEW s \in Seq(S), NEW e \in S, Tiles(s), e.first = NextFirst(s),
         e.first <= e.last
  PROVE  Tiles(Append(s, e))
<1> DEFINE a == Append(s, e)
<1>1. /\ a \in Seq(S) /\ Len(a) = Len(s) + 1 /\ a # <<>>
      /\ \A k \in 1..Len(s) : a[k] = s[k]
      /\ a[Len(s) + 1] = e
  BY AppendProperties
<1>2. Len(s) \in Nat /\ (s = <<>> <=> Len(s) = 0)
  BY EmptySeq, LenProperties
<1> HIDE DEF a
<1>3. a[1].first = 1
  <2>1. CASE s = <<>>
    BY <1>1, <1>2, <2>1 DEF NextFirst
  <2>2. CASE s # <<>>
    <3>1. a[1] = s[1]
      BY <1>1, <1>2, <2>2
    <3> QED BY <2>2, <3>1 DEF Tiles
  <2> QED BY <2>1, <2>2
<1>4. ASSUME NEW k \in 1..Len(a) PROVE a[k].first <= a[k].last
  BY <1>1, <1>2 DEF Tiles
<1>5. ASSUME NEW k \in 1..Len(a) - 1 PROVE a[k + 1].first = a[k].last + 1
  <2>1. CASE k < Len(s)
    <3>1. a[k] = s[k] /\ a[k + 1] = s[k + 1] /\ k \in 1..Len(s) - 1
      BY <1>1, <1>2, <2>1
    <3> QED BY <3>1 DEF Tiles
  <2>2. CASE k = Len(s)
    <3>1. a[k] = s[Len(s)] /\ a[k + 1] = e /\ s # <<>>
      BY <1>1, <1>2, <2>2
    <3> QED BY <3>1 DEF NextFirst
  <2> QED BY <2>1, <2>2, <1>1, <1>2
<1> QED BY <1>3, <1>4, <1>5 DEF Tiles, a

\* What the fallback adds for the next chunk.
LEMMA SharedFacts ==
  ASSUME Inv, pc = "derive", next <= Len(chunks)
  PROVE  /\ NumWords(next) \in Nat \ {0} /\ Held(next) \in Nat
         /\ TimePerWord(next) \in Nat /\ NumWords(next) * TimePerWord(next) \in Nat
         /\ Shared(next, clock) \in Seq(Stamp) /\ InOrder(Shared(next, clock))
         /\ Len(Shared(next, clock)) = NumWords(next)
         /\ Shared(next, clock)[1].start = clock
         /\ Shared(next, clock)[NumWords(next)].end
              = clock + NumWords(next) * TimePerWord(next)
<1>1. next \in 1..Len(chunks) /\ Len(durations) = Len(chunks)
  BY DEF Inv, TypeInv, StampInv
<1>2. chunks[next] \in ChunkType /\ durations[next] \in Nat
  BY <1>1, ElementOfSeq DEF Inv, TypeInv
<1>3. chunks[next].first <= chunks[next].last
  BY <1>1 DEF Inv, SplitInv, Tiles
<1>4. NumWords(next) \in Nat \ {0}
  BY <1>2, <1>3 DEF NumWords, ChunkType
<1>5. TimePerWord(next) \in Nat
  BY <1>2, <1>4, DivFacts DEF TimePerWord
<1>6. NumWords(next) * TimePerWord(next) \in Nat
  BY <1>4, <1>5, Z3
<1>7. Held(next) \in Nat
  BY ConstantTimes DEF Held
<1>8. clock \in Nat
  BY DEF Inv, TypeInv
<1> DEFINE n == NumWords(next)  per == TimePerWord(next)
<1>9. n \in Nat /\ n > 0 /\ per \in Nat
  BY <1>4, <1>5
<1>10. Shared(next, clock) = Shares(n, clock, per)
  BY DEF Shared
<1> HIDE DEF n, per
<1>11. /\ Shares(n, clock, per) \in Seq(Stamp) /\ Len(Shares(n, clock, per)) = n
       /\ InOrder(Shares(n, clock, per))
       /\ n > 0 => /\ Shares(n, clock, per)[1].start = clock
                   /\ Shares(n, clock, per)[n].end = clock + n * per
  BY <1>8, <1>9, SharesInOrder, Zenon
<1> QED BY <1>4, <1>5, <1>6, <1>7, <1>9, <1>10, <1>11 DEF n, per

\* The line build_karaoke_ass() adds next.
LEMMA LineFacts ==
  ASSUME Inv, pc = "lines", next <= Len(words)
  PROVE  /\ LastOf(next) \in next..Len(words) /\ LastOf(next) < next + CHUNK_SIZE_WORDS
         /\ Line(next, LastOf(next)) \in LineType
         /\ Line(next, LastOf(next)).first = next
         /\ Line(next, LastOf(next)).last = LastOf(next)
<1> DEFINE last == LastOf(next)
<1>1. next \in 1..Len(words) /\ Len(words) \in Nat
  BY EmptySeq, LenProperties DEF Inv, TypeInv
<1>2. last \in next..Len(words) /\ last < next + CHUNK_SIZE_WORDS
  BY <1>1 DEF LastOf, Least, CHUNK_SIZE_WORDS
<1> HIDE DEF last
<1>3. stamps \in Seq(Stamp) /\ Len(stamps) = Len(words)
  BY DEF Inv, TypeInv, StampInv
<1>4. \A i \in 1..Len(words) : stamps[i].start \in Nat /\ stamps[i].end \in Nat
  BY <1>3, StampTypes
<1>5. StartOf(next) \in Nat /\ EndOf(last) \in Nat
  <2>1. stamps[next].start \in Nat /\ stamps[last].end \in Nat
    BY <1>1, <1>2, <1>4
  <2> QED BY <2>1, ConstantTimes DEF StartOf, EndOf
<1>6. format_ass_time(StartOf(next)) \in AssTime /\ format_ass_time(EndOf(last)) \in AssTime
  BY <1>5, AssTimeType
<1>7. LeadOf(next) \in Nat
  <2> DEFINE d == stamps[next].start + SUBTITLE_START_DELAY_SECONDS - StartOf(next)
  <2>1. d \in Int
    BY <1>1, <1>4, <1>5, ConstantTimes
  <2> HIDE DEF d
  <2>2. RoundCs(d) \in Int
    BY <2>1, RoundType
  <2>3. Most(0, RoundCs(d)) \in Nat
    BY <2>2 DEF Most
  <2> QED BY <2>3 DEF LeadOf, d
<1>9. [i \in next..last |-> RoundCs(stamps[i].end - stamps[i].start)] \in Sweeps
  <2>1. \A i \in next..last : RoundCs(stamps[i].end - stamps[i].start) \in Int
    <3> TAKE i \in next..last
    <3>1. stamps[i].end - stamps[i].start \in Int
      BY <1>1, <1>2, <1>4
    <3> QED BY <3>1, RoundType
  <2>2. [i \in next..last |-> RoundCs(stamps[i].end - stamps[i].start)] \in [next..last -> Int]
    BY <2>1
  <2>3. next..last \in SUBSET Nat
    BY <1>1, <1>2
  <2> QED BY <2>2, <2>3 DEF Sweeps
<1>10. Line(next, last) \in LineType /\ Line(next, last).first = next /\ Line(next, last).last = last
  BY <1>1, <1>2, <1>6, <1>7, <1>9 DEF Line, LineType
<1> QED BY <1>2, <1>10 DEF last

-----------------------------------------------------------------------------
(* Every step keeps it *)

USE DEF Begin, Advance

LEMMA InitInv == Init => Inv
<1> SUFFICES ASSUME Init PROVE Inv
  OBVIOUS
<1>1. words \in Seq(Nat \ {0}) \ {<<>>} /\ Len(words) \in Nat
  BY LenProperties DEF Init
<1>2. TypeInv
  <2>1. cur \in ChunkType
    BY DEF Init, NoChunk, ChunkType
  <2> QED BY <1>1, <2>1 DEF Init, TypeInv
<1>3. SplitInv
  BY <1>1 DEF Init, SplitInv, Tiles
<1>4. StampInv
  BY DEF Init, StampInv, InOrder
<1>5. LineInv
  BY DEF Init, LineInv, Tiles
<1>6. VideoKeepsAudio
  BY DEF Init, VideoKeepsAudio
<1> QED BY <1>2, <1>3, <1>4, <1>5, <1>6 DEF Inv

LEMMA TakeWordInv == Inv /\ TakeWord => Inv'
<1> SUFFICES ASSUME Inv, TakeWord PROVE Inv'
  OBVIOUS
<1>1. next \in 1..Len(words) /\ Len(words) \in Nat /\ words[next] \in Nat \ {0}
  BY LenProperties, ElementOfSeq DEF Inv, TypeInv, TakeWord
<1>2. cur \in ChunkType /\ chunks \in Seq(ChunkType)
  BY DEF Inv, TypeInv
<1>3. /\ Alone(next) \in ChunkType /\ Small(Alone(next))
      /\ Alone(next).first = next /\ Alone(next).last = next
  BY <1>1 DEF Alone, ChunkType, Small
<1>4. /\ Joined(next) \in ChunkType
      /\ Joined(next).first = cur.first /\ Joined(next).last = next
      /\ Fits(next) => Small(Joined(next))
  BY <1>1, <1>2 DEF Joined, ChunkType, Small, Fits
<1>5. /\ pc = "split" /\ pc' = "split" /\ next' = next + 1
      /\ words' = words /\ spoken' = spoken /\ heard' = heard /\ clock' = clock
      /\ stamps' = stamps /\ lines' = lines /\ video' = video
  BY DEF TakeWord
<1>6. cur' \in ChunkType /\ chunks' \in Seq(ChunkType) /\ SplitInv'
  <2>1. CASE cur = NoChunk /\ cur' = Alone(next) /\ chunks' = chunks
    <3>1. cur'.first = NextFirst(chunks') /\ cur' # NoChunk
      BY <1>1, <1>3, <1>5, <2>1 DEF Inv, SplitInv, NextFirst, NoChunk
    <3> QED BY <1>1, <1>2, <1>3, <1>5, <2>1, <3>1 DEF Inv, SplitInv
  <2>2. CASE cur # NoChunk /\ Fits(next) /\ cur' = Joined(next) /\ chunks' = chunks
    <3>1. cur'.first = NextFirst(chunks') /\ cur' # NoChunk /\ cur'.first <= cur'.last
      BY <1>1, <1>2, <1>4, <1>5, <2>2 DEF Inv, SplitInv, NoChunk, ChunkType
    <3> QED BY <1>1, <1>2, <1>4, <1>5, <2>2, <3>1 DEF Inv, SplitInv
  <2>3. CASE cur # NoChunk /\ cur' = Alone(next) /\ chunks' = Append(chunks, cur)
    <3>1. cur.first = NextFirst(chunks) /\ cur.first <= cur.last /\ cur.last = next - 1 /\ Small(cur)
      BY <1>5, <2>3 DEF Inv, SplitInv
    <3>2. Tiles(chunks')
      BY <1>2, <2>3, <3>1, AppendTiles DEF Inv, SplitInv
    <3>3. /\ chunks' \in Seq(ChunkType) /\ chunks' # <<>> /\ Len(chunks') = Len(chunks) + 1
          /\ \A k \in 1..Len(chunks) : chunks'[k] = chunks[k]
          /\ chunks'[Len(chunks) + 1] = cur
      BY <1>2, <2>3, AppendProperties
    <3>4. \A k \in 1..Len(chunks') : Small(chunks'[k])
      BY <1>2, <3>1, <3>3, LenProperties DEF Inv, SplitInv
    <3>5. cur'.first = NextFirst(chunks') /\ cur' # NoChunk
      BY <1>1, <1>3, <2>3, <3>1, <3>3 DEF NextFirst, NoChunk
    <3> QED BY <1>1, <1>3, <1>5, <2>3, <3>2, <3>3, <3>4, <3>5 DEF SplitInv
  <2> QED BY <2>1, <2>2, <2>3 DEF TakeWord
<1>7. TypeInv'
  BY <1>1, <1>5, <1>6 DEF Inv, TypeInv, spoken
<1>8. StampInv'
  BY <1>5 DEF Inv, StampInv, spoken
<1>9. LineInv'
  BY <1>5 DEF Inv, LineInv
<1>10. VideoKeepsAudio'
  BY <1>5 DEF VideoKeepsAudio
<1> QED BY <1>6, <1>7, <1>8, <1>9, <1>10 DEF Inv

LEMMA EndSplitInv == Inv /\ EndSplit => Inv'
<1> SUFFICES ASSUME Inv, EndSplit PROVE Inv'
  OBVIOUS
<1>1. Len(words) \in Nat \ {0} /\ next = Len(words) + 1 /\ cur # NoChunk
  BY EmptySeq, LenProperties DEF Inv, TypeInv, SplitInv, EndSplit
<1>2. cur \in ChunkType /\ chunks \in Seq(ChunkType)
  BY DEF Inv, TypeInv
<1>3. /\ cur.first = NextFirst(chunks) /\ cur.first <= cur.last
      /\ cur.last = Len(words) /\ Small(cur)
  BY <1>1 DEF Inv, SplitInv, EndSplit
<1>4. /\ chunks' \in Seq(ChunkType) /\ chunks' # <<>> /\ Len(chunks') = Len(chunks) + 1
      /\ \A k \in 1..Len(chunks) : chunks'[k] = chunks[k]
      /\ chunks'[Len(chunks) + 1] = cur
  BY <1>2, AppendProperties DEF EndSplit
<1>5. SplitInv'
  <2>1. Tiles(chunks')
    BY <1>2, <1>3, AppendTiles DEF Inv, SplitInv, EndSplit
  <2>2. \A k \in 1..Len(chunks') : Small(chunks'[k])
    BY <1>2, <1>3, <1>4, LenProperties DEF Inv, SplitInv
  <2>3. chunks'[Len(chunks')].last = Len(words)
    BY <1>3, <1>4
  <2> QED BY <1>4, <2>1, <2>2, <2>3 DEF SplitInv, EndSplit
<1>6. TypeInv'
  BY <1>4 DEF Inv, TypeInv, EndSplit, spoken
<1>7. StampInv'
  <2>1. Len(durations') = next' - 1 /\ next' <= Len(chunks') + 1
    BY <1>2, <1>4, LenProperties DEF Inv, StampInv, EndSplit, spoken
  <2> QED BY <2>1 DEF Inv, StampInv, EndSplit, spoken
<1>8. LineInv' /\ VideoKeepsAudio'
  BY DEF Inv, LineInv, EndSplit, VideoKeepsAudio
<1> QED BY <1>5, <1>6, <1>7, <1>8 DEF Inv

LEMMA SpeakInv == Inv /\ Speak => Inv'
<1> SUFFICES ASSUME Inv, Speak PROVE Inv'
  OBVIOUS
<1>0. PICK length \in Voices : \E measured \in get_wav_duration(length) :
        /\ voice' = Append(voice, length)
        /\ durations' = Append(durations, Most(AtLeast, measured))
        /\ audio' = audio + length
  BY DEF Speak
<1>1. PICK measured \in get_wav_duration(length) :
        /\ voice' = Append(voice, length)
        /\ durations' = Append(durations, Most(AtLeast, measured))
        /\ audio' = audio + length
  BY <1>0
<1>2. length \in Nat /\ Most(AtLeast, measured) \in Nat
  BY CentiFacts DEF get_wav_duration, Most, AtLeast
<1>3. /\ voice' \in Seq(Nat) /\ durations' \in Seq(Nat) /\ audio' \in Nat
      /\ Len(durations') = Len(durations) + 1
  BY <1>1, <1>2, AppendProperties DEF Inv, TypeInv
<1>4. Len(durations) = next - 1 /\ next \in 1..Len(chunks) /\ Len(chunks) \in Nat
  BY LenProperties DEF Inv, TypeInv, StampInv, Speak
<1>5. TypeInv'
  BY <1>3, <1>4 DEF Inv, TypeInv, Speak
<1>6. SplitInv'
  BY DEF Inv, SplitInv, Speak
<1>7. StampInv'
  <2>1. Len(durations') = next' - 1 /\ next' <= Len(chunks') + 1
    BY <1>3, <1>4 DEF Speak
  <2> QED BY <2>1 DEF Inv, StampInv, Speak
<1>8. LineInv' /\ VideoKeepsAudio'
  BY DEF Inv, LineInv, Speak, VideoKeepsAudio
<1> QED BY <1>5, <1>6, <1>7, <1>8 DEF Inv

LEMMA MergeInv == Inv /\ Merge => Inv'
<1> SUFFICES ASSUME Inv, Merge PROVE Inv'
  OBVIOUS
<1>1. Len(durations) = Len(chunks)
  BY LenProperties DEF Inv, TypeInv, StampInv, Merge
<1>2. TypeInv'
  BY DEF Inv, TypeInv, Merge, spoken
<1>3. SplitInv'
  BY DEF Inv, SplitInv, Merge
<1>4. StampInv'
  BY <1>1 DEF Inv, StampInv, Merge, spoken
<1>5. LineInv' /\ VideoKeepsAudio'
  BY DEF Inv, LineInv, Merge, VideoKeepsAudio
<1> QED BY <1>2, <1>3, <1>4, <1>5 DEF Inv

LEMMA HearInv == Inv /\ Hear => Inv'
<1> SUFFICES ASSUME Inv, Hear PROVE Inv'
  OBVIOUS
<1>1. heard' \in Hearings /\ heard' \in Seq(Stamp)
  BY DEF Hear
<1>2. stamps = <<>> /\ lines = <<>> /\ Len(words) \in Nat \ {0}
  BY EmptySeq, LenProperties DEF Inv, TypeInv, StampInv, LineInv, Hear
<1>3. SplitInv'
  BY DEF Inv, SplitInv, Hear
<1>4. VideoKeepsAudio'
  BY DEF Hear, VideoKeepsAudio
<1>5. LineInv'
  <2>1. next' = NextFirst(lines') /\ next' <= Len(words') + 1
    BY <1>2 DEF Hear, NextFirst
  <2> QED BY <2>1 DEF Inv, LineInv, Hear
<1>6. CASE heard' = <<>>
  <2>1. TypeInv'
    BY <1>1, <1>6 DEF Inv, TypeInv, Hear, spoken
  <2>2. StampInv'
    <3>1. Len(stamps') = 0 /\ next' = 1 /\ Len(chunks') \in Nat
      BY <1>2, <1>6, EmptySeq, LenProperties DEF Hear, Inv, TypeInv
    <3> QED BY <1>6, <3>1 DEF Inv, StampInv, Hear, spoken
  <2> QED BY <1>3, <1>4, <1>5, <2>1, <2>2 DEF Inv
<1>7. CASE heard' # <<>>
  <2>1. /\ stamps' \in Seq(Stamp) /\ Len(stamps') = Len(words) /\ InOrder(stamps')
        /\ stamps'[Len(words)].end <= heard'[Len(heard')].end
    <3>1. ASSUME NEW h \in Hearings, h # <<>>
          PROVE  /\ Aligned(h) \in Seq(Stamp) /\ Len(Aligned(h)) = Len(words)
                 /\ InOrder(Aligned(h))
                 /\ Aligned(h)[Len(words)].end <= h[Len(h)].end
      <4>1. words \in Seq(Nat \ {0}) \ {<<>>}
        BY DEF Inv, TypeInv
      <4> QED BY <3>1, <4>1, AlignedFacts
    <3>2. stamps' = Aligned(heard')
      BY <1>7 DEF Hear
    <3> QED BY <1>1, <1>7, <3>1, <3>2
  <2>2. TypeInv'
    BY <1>1, <1>7, <2>1 DEF Inv, TypeInv, Hear, spoken
  <2>3. StampInv'
    BY <1>7, <2>1 DEF StampInv, Hear
  <2> QED BY <1>3, <1>4, <1>5, <2>2, <2>3 DEF Inv
<1> QED BY <1>6, <1>7

LEMMA DeriveChunkInv == Inv /\ DeriveChunk => Inv'
<1> SUFFICES ASSUME Inv, DeriveChunk PROVE Inv'
  OBVIOUS
<1> DEFINE added == Shared(next, clock)  spent == NumWords(next) * TimePerWord(next)
           n == NumWords(next)
<1>1. /\ n \in Nat \ {0} /\ Held(next) \in Nat /\ spent \in Nat
      /\ added \in Seq(Stamp) /\ InOrder(added) /\ Len(added) = n
      /\ added[1].start = clock /\ added[n].end = clock + spent
  BY SharedFacts DEF DeriveChunk
<1>2. /\ stamps \in Seq(Stamp) /\ InOrder(stamps) /\ clock \in Nat
      /\ Len(stamps) > 0 => stamps[Len(stamps)].end <= clock
      /\ Len(stamps) = (IF next = 1 THEN 0 ELSE chunks[next - 1].last)
  BY DEF Inv, TypeInv, StampInv, DeriveChunk
<1>3. next \in 1..Len(chunks) /\ Len(chunks) \in Nat
  BY LenProperties DEF Inv, TypeInv, DeriveChunk
<1>4. Len(stamps) + n = chunks[next].last
  <2>1. chunks[next] \in ChunkType
    BY <1>3, ElementOfSeq DEF Inv, TypeInv
  <2>2. CASE next = 1
    <3>1. chunks[next].first = 1
      BY <1>3, <2>2, EmptySeq DEF Inv, SplitInv, Tiles
    <3> QED BY <1>2, <2>1, <2>2, <3>1 DEF NumWords, ChunkType
  <2>3. CASE next # 1
    <3>1. next - 1 \in 1..Len(chunks) - 1 /\ (next - 1) + 1 = next
      BY <1>3, <2>3
    <3>2. chunks[next].first = chunks[next - 1].last + 1
      BY <3>1 DEF Inv, SplitInv, Tiles
    <3>3. chunks[next - 1] \in ChunkType
      BY <1>3, <3>1, ElementOfSeq DEF Inv, TypeInv
    <3>4. /\ chunks[next].first \in Nat /\ chunks[next].last \in Nat
          /\ chunks[next - 1].last \in Nat /\ Len(stamps) = chunks[next - 1].last
      BY <1>2, <2>1, <2>3, <3>3 DEF ChunkType
    <3>5. n = chunks[next].last - chunks[next].first + 1
      BY DEF NumWords
    <3> HIDE DEF n
    <3> QED BY <3>2, <3>4, <3>5
  <2> QED BY <2>2, <2>3
<1>5. /\ stamps' = stamps \o added /\ clock' = clock + spent + Held(next)
      /\ next' = next + 1 /\ pc' = pc /\ pc = "derive"
      /\ words' = words /\ chunks' = chunks /\ heard' = heard /\ lines' = lines
      /\ cur' = cur /\ spoken' = spoken /\ video' = video
  BY DEF DeriveChunk
<1> HIDE DEF added, spent, n
<1>6. /\ stamps' \in Seq(Stamp) /\ Len(stamps') = Len(stamps) + n
      /\ stamps'[Len(stamps')] = added[n]
  <2>1. Len(stamps) \in Nat /\ Len(stamps) + n > Len(stamps) /\ n \in 1..n
    BY <1>1, <1>2, LenProperties
  <2>2. /\ stamps \o added \in Seq(Stamp)
        /\ Len(stamps \o added) = Len(stamps) + Len(added)
        /\ \A i \in 1..Len(stamps) + Len(added) :
             (stamps \o added)[i] = IF i <= Len(stamps) THEN stamps[i] ELSE added[i - Len(stamps)]
    BY <1>1, <1>2, ConcatProperties
  <2>3. /\ Len(stamps) + n \in 1..Len(stamps) + Len(added)
        /\ ~(Len(stamps) + n <= Len(stamps)) /\ (Len(stamps) + n) - Len(stamps) = n
    BY <1>1, <2>1
  <2>4. stamps'[Len(stamps) + n] = added[n]
    BY <1>5, <2>2, <2>3
  <2> QED BY <1>1, <1>5, <2>2, <2>4
<1>7. InOrder(stamps')
  BY <1>1, <1>2, <1>5, ConcatInOrder
<1>8. stamps'[Len(stamps')].end <= clock'
  BY <1>1, <1>2, <1>5, <1>6
<1>9. TypeInv'
  <2>1. clock' \in Nat /\ next' \in Nat \ {0}
    BY <1>1, <1>2, <1>3, <1>5
  <2> QED BY <1>5, <1>6, <2>1 DEF Inv, TypeInv, spoken
<1>10. SplitInv' /\ LineInv' /\ VideoKeepsAudio'
  BY <1>5 DEF Inv, SplitInv, LineInv, VideoKeepsAudio, Tiles
<1>11. StampInv'
  <2>1. next' # 1 /\ next' - 1 = next /\ next' <= Len(chunks') + 1
    BY <1>3, <1>5
  <2>2. Len(stamps') = chunks'[next' - 1].last
    BY <1>4, <1>5, <1>6, <2>1
  <2>3. heard' = <<>> /\ Len(durations') = Len(chunks')
    BY <1>5 DEF Inv, StampInv, spoken
  <2> QED BY <1>5, <1>7, <1>8, <2>1, <2>2, <2>3 DEF StampInv
<1> QED BY <1>9, <1>10, <1>11 DEF Inv

LEMMA EndDeriveInv == Inv /\ EndDerive => Inv'
<1> SUFFICES ASSUME Inv, EndDerive PROVE Inv'
  OBVIOUS
<1>1. Len(stamps) = Len(words) /\ heard = <<>>
  <2>1. Len(chunks) \in Nat \ {0} /\ next = Len(chunks) + 1
    BY EmptySeq, LenProperties DEF Inv, TypeInv, SplitInv, StampInv, EndDerive
  <2>2. next - 1 = Len(chunks) /\ next # 1
    BY <2>1
  <2> QED BY <2>2 DEF Inv, SplitInv, StampInv, EndDerive
<1>2. TypeInv' /\ SplitInv' /\ VideoKeepsAudio'
  BY DEF Inv, TypeInv, SplitInv, EndDerive, VideoKeepsAudio, spoken
<1>3. StampInv'
  BY <1>1 DEF Inv, StampInv, EndDerive
<1>4. LineInv'
  <2>1. next' = NextFirst(lines') /\ next' <= Len(words') + 1
    BY LenProperties DEF Inv, TypeInv, LineInv, NextFirst, EndDerive
  <2> QED BY <2>1 DEF Inv, LineInv, EndDerive
<1> QED BY <1>2, <1>3, <1>4 DEF Inv

LEMMA BuildLineInv == Inv /\ BuildLine => Inv'
<1> SUFFICES ASSUME Inv, BuildLine PROVE Inv'
  OBVIOUS
<1> DEFINE last == LastOf(next)  line == Line(next, last)
<1>1. /\ last \in next..Len(words) /\ last < next + CHUNK_SIZE_WORDS
      /\ line \in LineType /\ line.first = next /\ line.last = last
  BY LineFacts DEF BuildLine
<1>2. /\ lines' = Append(lines, line) /\ next' = last + 1 /\ pc' = pc /\ pc = "lines"
      /\ words' = words /\ stamps' = stamps /\ heard' = heard /\ chunks' = chunks
      /\ cur' = cur /\ spoken' = spoken /\ clock' = clock /\ video' = video
  BY DEF BuildLine
<1>3. lines \in Seq(LineType) /\ next \in Nat \ {0} /\ next = NextFirst(lines) /\ Tiles(lines)
  BY <1>2 DEF Inv, TypeInv, LineInv
<1> HIDE DEF last, line
<1>4. last \in Nat /\ last >= next /\ Len(words) \in Nat /\ last <= Len(words)
  BY <1>1, <1>3, LenProperties DEF Inv, TypeInv
<1>5. /\ lines' \in Seq(LineType) /\ lines' # <<>> /\ Len(lines') = Len(lines) + 1
      /\ \A k \in 1..Len(lines) : lines'[k] = lines[k]
      /\ lines'[Len(lines) + 1] = line
  BY <1>1, <1>2, <1>3, AppendProperties
<1>6. Tiles(lines')
  BY <1>1, <1>2, <1>3, <1>4, AppendTiles
<1>7. LineInv'
  <2>1. \A k \in 1..Len(lines') : lines'[k].last < lines'[k].first + CHUNK_SIZE_WORDS
    BY <1>1, <1>3, <1>5, LenProperties DEF Inv, LineInv
  <2>2. next' = NextFirst(lines') /\ next' <= Len(words') + 1
    BY <1>1, <1>2, <1>4, <1>5 DEF NextFirst
  <2> QED BY <1>2, <1>6, <2>1, <2>2 DEF LineInv
<1>8. TypeInv'
  BY <1>2, <1>4, <1>5 DEF Inv, TypeInv, spoken
<1>9. SplitInv' /\ VideoKeepsAudio'
  BY <1>2 DEF Inv, SplitInv, VideoKeepsAudio, Tiles
<1>10. StampInv'
  BY <1>2 DEF Inv, StampInv, spoken
<1> QED BY <1>7, <1>8, <1>9, <1>10 DEF Inv

LEMMA EndLinesInv == Inv /\ EndLines => Inv'
<1> SUFFICES ASSUME Inv, EndLines PROVE Inv'
  OBVIOUS
<1>1. lines # <<>> /\ lines[Len(lines)].last = Len(words)
  <2>1. next = Len(words) + 1 /\ Len(words) \in Nat \ {0} /\ next = NextFirst(lines)
    BY EmptySeq, LenProperties DEF Inv, TypeInv, LineInv, EndLines
  <2>2. lines # <<>>
    BY <2>1 DEF NextFirst
  <2>3. lines[Len(lines)] \in LineType
    BY <2>2, EmptySeq, LenProperties, ElementOfSeq DEF Inv, TypeInv
  <2> QED BY <2>1, <2>2, <2>3 DEF NextFirst, LineType
<1>2. TypeInv' /\ SplitInv' /\ VideoKeepsAudio'
  BY DEF Inv, TypeInv, SplitInv, EndLines, VideoKeepsAudio, spoken
<1>3. StampInv' /\ LineInv'
  BY <1>1 DEF Inv, StampInv, LineInv, EndLines
<1> QED BY <1>2, <1>3 DEF Inv

LEMMA RenderInv == Inv /\ RenderVideo => Inv'
<1> SUFFICES ASSUME Inv, RenderVideo PROVE Inv'
  OBVIOUS
<1>1. PICK measured \in get_wav_duration(audio) : video' = Least(Canvas(measured), audio)
  BY DEF RenderVideo
<1>2. audio \in Nat
  BY DEF Inv, TypeInv
<1>3. video' \in Nat /\ (video' = audio \/ (audio > 2 * Second /\ video' = 2 * Second))
  BY <1>1, <1>2 DEF get_wav_duration, Least, Canvas
<1>4. VideoKeepsAudio'
  BY <1>3 DEF VideoKeepsAudio, RenderVideo, spoken
<1>5. TypeInv' /\ SplitInv'
  BY <1>3 DEF Inv, TypeInv, SplitInv, RenderVideo, spoken
<1>6. StampInv' /\ LineInv'
  BY DEF Inv, StampInv, LineInv, RenderVideo
<1> QED BY <1>4, <1>5, <1>6 DEF Inv

LEMMA StutterInv == Inv /\ UNCHANGED vars => Inv'
<1> SUFFICES ASSUME Inv, UNCHANGED vars PROVE Inv'
  OBVIOUS
<1> USE DEF vars, spoken
<1>1. TypeInv' /\ SplitInv' /\ StampInv' /\ LineInv' /\ VideoKeepsAudio'
  BY DEF Inv, TypeInv, SplitInv, StampInv, LineInv, VideoKeepsAudio
<1> QED BY <1>1 DEF Inv

LEMMA InvHolds == Spec => []Inv
<1>1. Inv /\ [Next]_vars => Inv'
  BY TakeWordInv, EndSplitInv, SpeakInv, MergeInv, HearInv, DeriveChunkInv, EndDeriveInv,
     BuildLineInv, EndLinesInv, RenderInv, StutterInv DEF Next
<1> QED BY <1>1, InitInv, PTL DEF Spec

-----------------------------------------------------------------------------
(* What follows from it *)

\* Every variable keeps its type; in the .ass file minutes and seconds stay below 60
\* and the centiseconds at or below 100 (Shortz.py:353-360).
THEOREM SubtitleTypeCorrect == Spec => []TypeOK
<1>1. Inv => TypeOK
  <2> SUFFICES ASSUME Inv PROVE TypeOK
    OBVIOUS
  <2>1. ASSUME NEW k \in 1..Len(lines)
        PROVE  /\ lines[k].first \in Nat /\ lines[k].last \in Nat
               /\ lines[k].shown \in AssTime /\ lines[k].hidden \in AssTime
    <3>1. lines[k] \in LineType
      BY ElementOfSeq DEF Inv, TypeInv
    <3> QED BY <3>1 DEF LineType
  <2> QED BY <2>1 DEF Inv, TypeInv, TypeOK
<1> QED BY <1>1, InvHolds, PTL

\* Whatever the text and the limit, XTTS is given the words of the text, each once and
\* in order, in chunks within the limit or of one word (Shortz.py:185-198).
THEOREM ChunksTileTextHolds == Spec => []ChunksTileText
<1>1. Inv => ChunksTileText
  BY DEF Inv, SplitInv, Tiles, Small, ChunksTileText
<1> QED BY <1>1, InvHolds, PTL

\* Whatever Whisper answers, every word has a timestamp when the subtitles are built,
\* in order and within what was heard (Shortz.py:567-582).
THEOREM StampsInOrderHolds == Spec => []StampsInOrder
<1>1. Inv => StampsInOrder
  BY DEF Inv, StampInv, StampsInOrder
<1> QED BY <1>1, InvHolds, PTL

\* Whatever the text, the lines of the .ass file show each word once, in order and at
\* most five to a line (Shortz.py:391-428).
THEOREM LinesTileWordsHolds == Spec => []LinesTileWords
<1>1. Inv => LinesTileWords
  BY DEF Inv, LineInv, Tiles, LinesTileWords
<1> QED BY <1>1, InvHolds, PTL

\* Whatever is spoken and measured, the video has the whole audio or, when it could not
\* be measured, its first two seconds (Shortz.py:437-478).
THEOREM VideoKeepsAudioHolds == Spec => []VideoKeepsAudio
<1>1. Inv => VideoKeepsAudio
  BY DEF Inv
<1> QED BY <1>1, InvHolds, PTL

-----------------------------------------------------------------------------
(* The lines *)

\* A line of the .ass file says what its words' timestamps make of it.
Written ==
  \A k \in 1..Len(lines) :
    \E first \in 1..Len(words) : \E last \in first..Len(words) : lines[k] = Line(first, last)

LEMMA WrittenHolds == Spec => []Written
<1>1. Init => Written
  BY DEF Init, Written
<1>2. Inv /\ Written /\ [Next]_vars => Written'
  <2> SUFFICES ASSUME Inv, Written, [Next]_vars PROVE Written'
    OBVIOUS
  <2>1. CASE Hear \/ DeriveChunk
    <3>1. lines = <<>> /\ lines' = lines
      BY <2>1 DEF Inv, LineInv, Hear, DeriveChunk
    <3> QED BY <3>1 DEF Written
  <2>2. CASE BuildLine
    <3> DEFINE last == LastOf(next)  line == Line(next, last)
    <3>1. /\ last \in next..Len(words) /\ line \in LineType
          /\ line.first = next /\ line.last = last
      BY <2>2, LineFacts DEF BuildLine
    <3>2. lines' = Append(lines, line) /\ UNCHANGED <<words, stamps>>
      BY <2>2 DEF BuildLine
    <3>3. lines \in Seq(LineType) /\ next \in 1..Len(words)
      BY <2>2, LenProperties DEF Inv, TypeInv, BuildLine
    <3>4. \A a, b \in Nat : Line(a, b)' = Line(a, b)
      BY <3>2 DEF Line, StartOf, EndOf, LeadOf
    <3>5. line = Line(next, last) /\ next \in Nat /\ last \in Nat
      BY <3>1, <3>3
    <3> HIDE DEF last, line
    <3>6. /\ lines' \in Seq(LineType) /\ Len(lines') = Len(lines) + 1
          /\ \A k \in 1..Len(lines) : lines'[k] = lines[k]
          /\ lines'[Len(lines) + 1] = line
      BY <3>1, <3>2, <3>3, AppendProperties
    <3>7. ASSUME NEW k \in 1..Len(lines')
          PROVE  \E f \in 1..Len(words) : \E l \in f..Len(words) : lines'[k] = Line(f, l)
      <4>1. CASE k \in 1..Len(lines)
        BY <3>6, <4>1 DEF Written
      <4>2. CASE k = Len(lines) + 1
        BY <3>1, <3>3, <3>5, <3>6, <4>2
      <4> QED BY <3>3, <3>6, <4>1, <4>2, LenProperties
    <3>8. ASSUME NEW k \in 1..Len(lines')
          PROVE  \E f \in 1..Len(words) : \E l \in f..Len(words) : lines'[k] = Line(f, l)'
      <4>0. PICK f \in 1..Len(words) : \E l \in f..Len(words) : lines'[k] = Line(f, l)
        BY <3>7
      <4>1. PICK l \in f..Len(words) : lines'[k] = Line(f, l)
        BY <4>0
      <4>2. Line(f, l)' = Line(f, l)
        BY <3>4
      <4> QED BY <4>1, <4>2
    <3> QED BY <3>2, <3>8 DEF Written
  <2>3. CASE UNCHANGED <<words, stamps, lines>>
    <3>1. \A a, b : Line(a, b)' = Line(a, b)
      BY <2>3 DEF Line, StartOf, EndOf, LeadOf
    <3>2. ASSUME NEW k \in 1..Len(lines)
          PROVE  \E f \in 1..Len(words) : \E l \in f..Len(words) : lines[k] = Line(f, l)'
      BY <3>1 DEF Written
    <3> QED BY <2>3, <3>2 DEF Written
  <2> QED BY <2>1, <2>2, <2>3
          DEF Next, TakeWord, EndSplit, Speak, Merge, EndDerive, EndLines, RenderVideo, vars
<1> QED BY <1>1, <1>2, InvHolds, PTL DEF Spec

\* A line is built from timestamps that are there.
LEMMA LineWords ==
  ASSUME Inv, Written, NEW k \in 1..Len(lines)
  PROVE  \E first \in Nat, last \in Nat :
           /\ lines[k] = Line(first, last) /\ 1 <= first /\ first <= last /\ InOrder(stamps)
           /\ \A i \in first..last :
                /\ i \in 1..Len(stamps) /\ i \in Nat
                /\ stamps[i].start \in Nat /\ stamps[i].end \in Nat
                /\ StartOf(i) \in Nat /\ EndOf(i) \in Nat
<1>1. Len(stamps) = Len(words) /\ stamps \in Seq(Stamp) /\ Len(words) \in Nat /\ InOrder(stamps)
  <2>1. lines # <<>>
    OBVIOUS
  <2> QED BY <2>1, LenProperties DEF Inv, TypeInv, StampInv, LineInv
<1>0. PICK first \in 1..Len(words) : \E last \in first..Len(words) : lines[k] = Line(first, last)
  BY DEF Written
<1>2. PICK last \in first..Len(words) : lines[k] = Line(first, last)
  BY <1>0
<1>3. first \in Nat /\ last \in Nat /\ 1 <= first /\ first <= last /\ last <= Len(words)
  BY <1>1
<1>4. ASSUME NEW i \in first..last
      PROVE  /\ i \in 1..Len(stamps) /\ i \in Nat
             /\ stamps[i].start \in Nat /\ stamps[i].end \in Nat
             /\ StartOf(i) \in Nat /\ EndOf(i) \in Nat
  <2>1. i \in 1..Len(stamps) /\ i \in Nat
    BY <1>1, <1>3
  <2>2. stamps[i].start \in Nat /\ stamps[i].end \in Nat
    BY <1>1, <2>1, StampTypes
  <2> QED BY <2>1, <2>2, ConstantTimes DEF StartOf, EndOf
<1> QED BY <1>1, <1>2, <1>3, <1>4

\* Whatever the timestamps, the times of every line are the nearest centiseconds, the
\* field that rounds to 100 included (Shortz.py:353-360).
THEOREM TimesAreNearestHolds == Spec => []TimesAreNearest
<1>1. Inv /\ Written => TimesAreNearest
  <2> SUFFICES ASSUME Inv, Written, NEW k \in 1..Len(lines)
               PROVE  /\ NearestCs(lines[k].shown, StartOf(lines[k].first))
                      /\ NearestCs(lines[k].hidden, EndOf(lines[k].last))
    BY DEF TimesAreNearest
  <2>1. PICK first \in Nat, last \in Nat :
          /\ lines[k] = Line(first, last) /\ first <= last
          /\ \A i \in first..last : StartOf(i) \in Nat /\ EndOf(i) \in Nat
    BY LineWords
  <2>2. /\ lines[k].shown = format_ass_time(StartOf(first)) /\ lines[k].first = first
        /\ lines[k].hidden = format_ass_time(EndOf(last)) /\ lines[k].last = last
    BY <2>1 DEF Line
  <2>3. StartOf(first) \in Nat /\ EndOf(last) \in Nat
    BY <2>1
  <2>4. NearestCs(format_ass_time(StartOf(first)), StartOf(first)) /\ NearestCs(format_ass_time(EndOf(last)), EndOf(last))
    BY <2>3, AssTimeNear
  <2> QED BY <2>2, <2>4
<1> QED BY <1>1, InvHolds, WrittenHolds, PTL

LEMMA Distribute ==
  ASSUME NEW a \in Int, NEW b \in Int, NEW c \in Int
  PROVE  (a + b) * c = a * c + b * c /\ a * c \in Int /\ b * c \in Int
BY Z3

\* Up to word i the highlights of a line gain at most half a centisecond a word on
\* the timestamps.
LEMMA SweepBound ==
  ASSUME NEW first \in Nat, NEW last \in Nat, InOrder(stamps),
         \A i \in first..last :
           i \in 1..Len(stamps) /\ stamps[i].start \in Nat /\ stamps[i].end \in Nat,
         NEW sweep, \A i \in first..last : sweep[i] = RoundCs(stamps[i].end - stamps[i].start)
  PROVE  \A i \in first..last :
           /\ SumFunctionOnSet(sweep, first..i - 1) \in Int
           /\ 2 * (SumFunctionOnSet(sweep, first..i - 1) * Centi)
                <= 2 * (stamps[i].start - stamps[first].start) + (i - first) * Centi
<1> DEFINE sum(i) == SumFunctionOnSet(sweep, first..i - 1)
           Bound(i) == 2 * (sum(i) * Centi) <= 2 * (stamps[i].start - stamps[first].start) + (i - first) * Centi
           T == {i \in first..last : ~(sum(i) \in Int /\ Bound(i))}
<1>0. Centi \in Nat \ {0}
  BY CentiFacts
<1>1. ASSUME NEW i \in first..last
      PROVE  /\ sweep[i] \in Int /\ sweep[i] * Centi \in Int
             /\ 2 * (sweep[i] * Centi) <= 2 * (stamps[i].end - stamps[i].start) + Centi
  <2>1. stamps[i].end - stamps[i].start \in Int
    OBVIOUS
  <2> DEFINE d == stamps[i].end - stamps[i].start
  <2>2. sweep[i] = RoundCs(d)
    OBVIOUS
  <2> HIDE DEF d
  <2>3. RoundCs(d) \in Int /\ RoundCs(d) * Centi \in Int /\ 2 * (RoundCs(d) * Centi - d) <= Centi
    BY <2>1, RoundNear DEF d
  <2>4. sweep[i] \in Int /\ sweep[i] * Centi \in Int /\ 2 * (sweep[i] * Centi - d) <= Centi
    BY <2>2, <2>3
  <2>5. 2 * (sweep[i] * Centi) <= 2 * d + Centi
    BY <1>0, <2>1, <2>4 DEF d
  <2> QED BY <2>4, <2>5 DEF d
<1>2. first <= last => sum(first) = 0 /\ Bound(first)
  <2>1. sum(first) = 0
    BY SumEmpty
  <2> HIDE DEF sum
  <2>2. sum(first) * Centi = 0 /\ (first - first) * Centi = 0
    BY <1>0, <2>1
  <2> QED BY <2>1, <2>2
<1>3. ASSUME NEW i \in first..last, i # first, sum(i - 1) \in Int, Bound(i - 1)
      PROVE  sum(i) \in Int /\ Bound(i)
  <2> DEFINE j == i - 1
  <2>1. j \in first..last /\ i - 1 = j /\ j < i
    BY <1>3
  <2>2. sum(i) = sum(j) + sweep[j] /\ sum(j) \in Int /\ sweep[j] \in Int
    <3>1. \A x \in first..j : sweep[x] \in Int
      BY <1>1
    <3>2. SumFunctionOnSet(sweep, first..j) = SumFunctionOnSet(sweep, first..j - 1) + sweep[j]
      BY <2>1, <3>1, SumStretch
    <3> QED BY <1>1, <1>3, <2>1, <3>2
  <2> HIDE DEF j, sum
  <2>3. sum(i) * Centi = sum(j) * Centi + sweep[j] * Centi /\ sum(j) * Centi \in Int
    <3>1. Centi \in Int
      BY <1>0
    <3> QED BY <2>2, <3>1, Distribute
  <2>4. stamps[j].end <= stamps[i].start
    BY <2>1 DEF InOrder
  <2>5. (i - first) * Centi = (j - first) * Centi + Centi /\ (j - first) * Centi \in Int
    BY <1>0, <2>1, Z3
  <2>6. 2 * (sum(j) * Centi) <= 2 * (stamps[j].start - stamps[first].start) + (j - first) * Centi
    BY <1>3 DEF j
  <2>7. 2 * (sweep[j] * Centi) <= 2 * (stamps[j].end - stamps[j].start) + Centi /\ sweep[j] * Centi \in Int
    BY <1>1, <2>1
  <2>8. /\ stamps[i].start \in Nat /\ stamps[j].start \in Nat /\ stamps[j].end \in Nat
        /\ stamps[first].start \in Nat
    BY <2>1
  <2>9. PICK u \in Int, v \in Int, w \in Int :
          u = sum(j) * Centi /\ v = sweep[j] * Centi /\ w = (j - first) * Centi
    BY <2>3, <2>5, <2>7
  <2>10. /\ 2 * u <= 2 * (stamps[j].start - stamps[first].start) + w
         /\ 2 * v <= 2 * (stamps[j].end - stamps[j].start) + Centi
         /\ sum(i) * Centi = u + v /\ (i - first) * Centi = w + Centi
    BY <2>3, <2>5, <2>6, <2>7, <2>9
  <2>11. Bound(i)
    <3>1. 2 * (u + v) <= 2 * (stamps[i].start - stamps[first].start) + (w + Centi)
      <4>1. PICK si \in Nat, sj \in Nat, ej \in Nat, sf \in Nat, c \in Nat :
              /\ si = stamps[i].start /\ sj = stamps[j].start /\ ej = stamps[j].end
              /\ sf = stamps[first].start /\ c = Centi
        BY <1>0, <2>8
      <4>2. 2 * u <= 2 * (sj - sf) + w /\ 2 * v <= 2 * (ej - sj) + c /\ ej <= si
        BY <2>4, <2>10, <4>1
      <4>3. 2 * (u + v) <= 2 * (si - sf) + (w + c)
        BY <4>2
      <4> QED BY <4>1, <4>3
    <3> QED BY <2>10, <3>1
  <2>12. sum(i) \in Int
    BY <2>2
  <2> QED BY <2>11, <2>12
<1>4. T = {}
  <2> SUFFICES ASSUME T # {} PROVE FALSE
    OBVIOUS
  <2> HIDE DEF sum, Bound
  <2>1. PICK i \in T : \A j \in T : i <= j
    <3> HIDE DEF T
    <3>1. T \in SUBSET Nat
      BY DEF T
    <3> QED BY <3>1, LeastNat
  <2>2. i # first /\ i - 1 \in first..last /\ i - 1 \notin T
    BY <1>2, <2>1
  <2> QED BY <1>3, <2>1, <2>2
<1> QED BY <1>4

LEMMA ReadType == \A f \in AssTime : Read(f) \in Int
<1> TAKE f \in AssTime
<1>1. f.h \in Nat /\ f.m \in 0..59 /\ f.s \in 0..59 /\ f.cs \in 0..100
  BY DEF AssTime
<1>4. 0..59 \subseteq Int /\ 0..100 \subseteq Int /\ Nat \subseteq Int
  OBVIOUS
<1>5. f.h \in Int
  BY <1>1, <1>4
<1>6. f.m \in Int
  BY <1>1, <1>4
<1>7. f.s \in Int
  BY <1>1, <1>4
<1>8. f.cs \in Int
  BY <1>1, <1>4
<1>2. PICK h \in Int, m \in Int, s \in Int, cs \in Int :
        h = f.h /\ m = f.m /\ s = f.s /\ cs = f.cs
  BY <1>5, <1>6, <1>7, <1>8
<1>3. Read(f) = ((h * 60 + m) * 60 + s) * 100 + cs
  BY <1>2 DEF Read
<1> QED BY <1>3

\* No line is shown before its first word: the \\k before it is 0.
LEMMA NoLead ==
  ASSUME NEW first \in Nat, stamps[first].start \in Nat
  PROVE  LeadOf(first) = 0
<1> DEFINE base == stamps[first].start + SUBTITLE_START_DELAY_SECONDS
           d == base - StartOf(first)
<1>0. Centi \in Nat \ {0}
  BY CentiFacts
<1>1. base \in Nat /\ StartOf(first) \in Nat /\ StartOf(first) >= base
  BY ConstantTimes DEF StartOf
<1>2. d \in Int /\ d <= 0
  BY <1>1
<1>3. LeadOf(first) = Most(0, RoundCs(d))
  <2>1. d = stamps[first].start + SUBTITLE_START_DELAY_SECONDS - StartOf(first)
    BY <1>1, ConstantTimes
  <2> HIDE DEF d
  <2> QED BY <2>1 DEF LeadOf
<1> HIDE DEF d
<1>4. RoundCs(d) \in Int /\ 2 * (RoundCs(d) * Centi - d) <= Centi /\ RoundCs(d) * Centi \in Int
  BY <1>2, RoundNear
<1>5. RoundCs(d) <= 0
  <2> SUFFICES ASSUME RoundCs(d) >= 1 PROVE FALSE
    BY <1>4
  <2>1. RoundCs(d) * Centi >= Centi
    BY <1>0, <1>4, Z3
  <2> QED BY <1>0, <1>2, <1>4, <2>1
<1>6. Most(0, RoundCs(d)) = 0
  BY <1>4, <1>5 DEF Most
<1> QED BY <1>3, <1>6

\* What the delays before a line and its words cost is all that the highlight of a word
\* can be late, rounding aside, whatever the timestamps (Shortz.py:408-417).
THEOREM SweepKeepsUpHolds == Spec => []SweepKeepsUp
<1>1. Inv /\ Written => SweepKeepsUp
  <2> SUFFICES ASSUME Inv, Written, NEW k \in 1..Len(lines),
                      NEW i \in lines[k].first..lines[k].last
               PROVE  2 * SweepAt(lines[k], i) * Centi
                        <= 2 * (stamps[i].start + SUBTITLE_START_DELAY_SECONDS + INTER_CHUNK_DELAY_SECONDS
                                + (i - lines[k].first) * WORD_DELAY_CS * Centi)
                           + (i - lines[k].first + 1) * Centi
    BY DEF SweepKeepsUp
  <2>1. PICK first \in Nat, last \in Nat :
          /\ lines[k] = Line(first, last) /\ 1 <= first /\ first <= last /\ InOrder(stamps)
          /\ \A j \in first..last :
               /\ j \in 1..Len(stamps) /\ j \in Nat
               /\ stamps[j].start \in Nat /\ stamps[j].end \in Nat
               /\ StartOf(j) \in Nat /\ EndOf(j) \in Nat
    BY LineWords
  <2> DEFINE sweep == [j \in first..last |-> RoundCs(stamps[j].end - stamps[j].start)]
             sum == SumFunctionOnSet(sweep, first..i - 1)
             read == Read(format_ass_time(StartOf(first)))
             base == stamps[first].start + SUBTITLE_START_DELAY_SECONDS
  <2>2. /\ lines[k].first = first /\ lines[k].last = last /\ lines[k].sweep = sweep
        /\ lines[k].shown = format_ass_time(StartOf(first)) /\ lines[k].lead = LeadOf(first)
    BY <2>1 DEF Line
  <2>3. i \in first..last /\ first \in first..last
    BY <2>1, <2>2
  <2>4. sum \in Int /\ 2 * (sum * Centi) <= 2 * (stamps[i].start - stamps[first].start) + (i - first) * Centi
    <3>1. \A j \in first..last : sweep[j] = RoundCs(stamps[j].end - stamps[j].start)
      OBVIOUS
    <3> HIDE DEF sweep
    <3> QED BY <2>1, <2>3, <3>1, SweepBound
  <2>5. /\ StartOf(first) \in Nat /\ base \in Nat /\ Centi \in Nat \ {0}
        /\ StartOf(first) >= base /\ StartOf(first) <= base + INTER_CHUNK_DELAY_SECONDS
    <3>1. stamps[first].start \in Nat /\ StartOf(first) \in Nat
      BY <2>1, <2>3
    <3> QED BY <3>1, CentiFacts, ConstantTimes DEF StartOf
  <2>6. LeadOf(first) = 0
    BY <2>1, <2>3, NoLead
  <2>7. read * Centi \in Int /\ 2 * (read * Centi - StartOf(first)) <= Centi /\ read \in Int
    <3>1. NearestCs(format_ass_time(StartOf(first)), StartOf(first)) /\ format_ass_time(StartOf(first)) \in AssTime
      BY <2>5, AssTimeNear, AssTimeType
    <3>2. read \in Int
      BY <3>1, ReadType
    <3>3. read * Centi \in Int
      BY <2>5, <3>2, Z3
    <3>4. 2 * Most(read * Centi - StartOf(first), StartOf(first) - read * Centi) <= Centi
      BY <3>1 DEF NearestCs
    <3> HIDE DEF read
    <3> QED BY <2>5, <3>2, <3>3, <3>4 DEF Most
  <2> DEFINE n == i - first
  <2>8. SweepAt(lines[k], i) = read + sum + n * 3
    <3>1. SweepAt(lines[k], i) = read + 0 + sum + n * 3
      BY <2>2, <2>6 DEF SweepAt, WORD_DELAY_CS
    <3> HIDE DEF read, sum, n
    <3>2. n \in Int
      BY <2>3 DEF n
    <3> QED BY <2>4, <2>7, <3>1, <3>2
  <2> HIDE DEF read, sum
  <2>9. PICK r \in Int, u \in Int, x \in Int :
          r = read * Centi /\ u = sum * Centi /\ x = n * Centi
    <3>1. sum * Centi \in Int /\ n * Centi \in Int
      BY <2>3, <2>4, <2>5, Z3
    <3> QED BY <2>7, <3>1
  <2>10. /\ 2 * SweepAt(lines[k], i) * Centi = 2 * r + 2 * u + 6 * x
         /\ n * WORD_DELAY_CS * Centi = 3 * x /\ (n + 1) * Centi = x + Centi
    <3>1. n \in Int
      BY <2>3
    <3> HIDE DEF n
    <3>2. PICK a \in Int, b \in Int, m \in Int, c \in Int :
            a = read /\ b = sum /\ m = n /\ c = Centi
      BY <2>4, <2>5, <2>7, <3>1
    <3>3. r = a * c /\ u = b * c /\ x = m * c
      BY <2>9, <3>2
    <3>4. /\ (a + b + m * 3) * c = a * c + b * c + 3 * (m * c)
          /\ 2 * (a + b + m * 3) * c = 2 * ((a + b + m * 3) * c)
          /\ m * 3 * c = 3 * (m * c) /\ (m + 1) * c = m * c + c
      BY Z3
    <3>5. /\ 2 * (a + b + m * 3) * c = 2 * r + 2 * u + 6 * x
          /\ m * 3 * c = 3 * x /\ (m + 1) * c = x + c
      <4>1. (a + b + m * 3) * c = r + u + 3 * x
        BY <3>3, <3>4, Zenon
      <4>2. 2 * (a + b + m * 3) * c = 2 * (r + u + 3 * x)
        BY <3>4, <4>1, Zenon
      <4>3. 2 * (r + u + 3 * x) = 2 * r + 2 * u + 6 * x
        OBVIOUS
      <4>4. m * 3 * c = 3 * x /\ (m + 1) * c = x + c
        BY <3>3, <3>4, Zenon
      <4> QED BY <4>2, <4>3, <4>4, Zenon
    <3>6. SweepAt(lines[k], i) = a + b + m * 3
      BY <2>8, <3>2, Zenon
    <3> QED BY <3>2, <3>5, <3>6, Zenon DEF WORD_DELAY_CS
  <2>11. /\ 2 * (r - StartOf(first)) <= Centi
         /\ 2 * u <= 2 * (stamps[i].start - stamps[first].start) + x
    BY <2>4, <2>7, <2>9
  <2>12. stamps[i].start \in Nat /\ stamps[first].start \in Nat
    BY <2>1, <2>3
  <2>13. 2 * r + 2 * u + 6 * x
           <= 2 * (stamps[i].start + SUBTITLE_START_DELAY_SECONDS + INTER_CHUNK_DELAY_SECONDS + 3 * x) + (x + Centi)
    <3>1. PICK si \in Nat, sf \in Nat, so \in Nat, c \in Nat :
            si = stamps[i].start /\ sf = stamps[first].start /\ so = StartOf(first) /\ c = Centi
      BY <2>5, <2>12
    <3>2. /\ 2 * (r - so) <= c /\ 2 * u <= 2 * (si - sf) + x
          /\ so <= sf + SUBTITLE_START_DELAY_SECONDS + INTER_CHUNK_DELAY_SECONDS
      BY <2>5, <2>11, <3>1
    <3>3. 2 * r + 2 * u + 6 * x
            <= 2 * (si + SUBTITLE_START_DELAY_SECONDS + INTER_CHUNK_DELAY_SECONDS + 3 * x) + (x + c)
      BY <3>2, ConstantTimes
    <3> QED BY <3>1, <3>3
  <2> QED BY <2>2, <2>10, <2>13
<1> QED BY <1>1, InvHolds, WrittenHolds, PTL

-----------------------------------------------------------------------------
(* The chunks *)

\* The length of a chunk is that of its words, and of the spaces between them.
Measured(chunk) ==
  /\ 1 <= chunk.first /\ chunk.first <= chunk.last /\ chunk.last <= Len(words)
  /\ chunk.chars = Chars(chunk.first, chunk.last)
  /\ chunk.chars >= 2 * (chunk.last - chunk.first) + 1

\* The word behind a chunk did not fit in.
Full(chunk) ==
  chunk.last < Len(words) => chunk.chars + 1 + words[chunk.last + 1] > Limit

Greedy ==
  /\ \A k \in 1..Len(chunks) : Measured(chunks[k]) /\ Full(chunks[k])
  /\ \A j, k \in 1..Len(chunks) : j < k => chunks[j].last < chunks[k].first
  /\ pc = "split" /\ cur # NoChunk => Measured(cur)

\* One word more.
LEMMA CharsGrow ==
  ASSUME words \in Seq(Nat \ {0}), NEW first \in Nat, NEW last \in Nat,
         1 <= first, first <= last, last <= Len(words)
  PROVE  /\ Chars(first, first) = words[first]
         /\ first < last => Chars(first, last) = Chars(first, last - 1) + 1 + words[last]
         /\ Chars(first, last) \in Int /\ words[first] \in Nat \ {0} /\ words[last] \in Nat \ {0}
<1>1. \A i \in first..last : words[i] \in Int
  BY ElementOfSeq
<1>2. words[first] \in Nat \ {0} /\ words[last] \in Nat \ {0}
  BY ElementOfSeq
<1>3. Chars(first, first) = words[first]
  <2>1. SumFunctionOnSet(words, first..first - 1) = 0
    BY SumEmpty
  <2>2. \A i \in first..first : words[i] \in Int
    BY <1>1
  <2>4. first \in Int /\ first >= first
    OBVIOUS
  <2>3. SumFunctionOnSet(words, first..first) = SumFunctionOnSet(words, first..first - 1) + words[first]
    BY <2>2, <2>4, SumStretch
  <2> QED BY <1>2, <2>1, <2>3 DEF Chars
<1>4. /\ SumFunctionOnSet(words, first..last) = SumFunctionOnSet(words, first..last - 1) + words[last]
      /\ SumFunctionOnSet(words, first..last - 1) \in Int
  BY <1>1, SumStretch
<1>5. Chars(first, last) = Chars(first, last - 1) + 1 + words[last] /\ Chars(first, last) \in Int
  <2>1. PICK u \in Int, w \in Nat : u = SumFunctionOnSet(words, first..last - 1) /\ w = words[last]
    BY <1>2, <1>4
  <2>2. Chars(first, last - 1) = u + ((last - 1) - first)
    BY <2>1 DEF Chars
  <2>3. Chars(first, last) = (u + w) + (last - first)
    BY <1>4, <2>1 DEF Chars
  <2> QED BY <2>1, <2>2, <2>3
<1> QED BY <1>2, <1>3, <1>5

LEMMA GreedyHolds == Spec => []Greedy
<1>1. Init => Greedy
  BY DEF Init, Greedy
<1>2. Inv /\ Greedy /\ [Next]_vars => Greedy'
  <2> SUFFICES ASSUME Inv, Greedy, [Next]_vars PROVE Greedy'
    OBVIOUS
  <2>0. /\ words \in Seq(Nat \ {0}) /\ Len(words) \in Nat /\ next \in Nat /\ next >= 1
        /\ cur \in ChunkType /\ chunks \in Seq(ChunkType) /\ Len(chunks) \in Nat
    BY LenProperties DEF Inv, TypeInv
  \* The chunk that is filled joins the others.
  <2>1. ASSUME pc = "split", cur # NoChunk, chunks' = Append(chunks, cur), words' = words, Full(cur)
        PROVE  /\ \A k \in 1..Len(chunks') : Measured(chunks'[k]) /\ Full(chunks'[k])
               /\ \A j, k \in 1..Len(chunks') : j < k => chunks'[j].last < chunks'[k].first
    <3>1. /\ Len(chunks') = Len(chunks) + 1 /\ chunks'[Len(chunks) + 1] = cur
          /\ \A k \in 1..Len(chunks) : chunks'[k] = chunks[k]
      BY <2>0, <2>1, AppendProperties
    <3>2. \A k \in 1..Len(chunks') : Measured(chunks'[k]) /\ Full(chunks'[k])
      BY <2>0, <2>1, <3>1 DEF Greedy
    <3>3. ASSUME NEW j \in 1..Len(chunks'), NEW k \in 1..Len(chunks'), j < k
          PROVE  chunks'[j].last < chunks'[k].first
      <4>1. CASE k \in 1..Len(chunks)
        BY <2>0, <3>1, <3>3, <4>1 DEF Greedy
      <4>2. CASE k = Len(chunks) + 1
        <5>1. j \in 1..Len(chunks) /\ chunks # <<>> /\ Len(chunks) \in 1..Len(chunks)
          BY <2>0, <3>1, <3>3, <4>2
        <5>2. cur.first = chunks[Len(chunks)].last + 1
          BY <2>1, <5>1 DEF Inv, SplitInv, NextFirst
        <5>3. chunks[j] \in ChunkType /\ chunks[Len(chunks)] \in ChunkType
          BY <2>0, <5>1, ElementOfSeq
        <5>4. chunks[j].last <= chunks[Len(chunks)].last
          <6>1. CASE j < Len(chunks)
            <7>1. chunks[j].last < chunks[Len(chunks)].first
              BY <5>1, <6>1 DEF Greedy
            <7>2. chunks[Len(chunks)].first <= chunks[Len(chunks)].last
              BY <5>1 DEF Greedy, Measured
            <7> QED BY <5>3, <7>1, <7>2 DEF ChunkType
          <6>2. CASE j = Len(chunks)
            BY <5>3, <6>2 DEF ChunkType
          <6> QED BY <2>0, <5>1, <6>1, <6>2
        <5> QED BY <3>1, <4>2, <5>1, <5>2, <5>3, <5>4 DEF ChunkType
      <4> QED BY <2>0, <3>1, <4>1, <4>2
    <3> QED BY <3>2, <3>3
  <2>2. CASE TakeWord
    <3>1. /\ pc = "split" /\ pc' = "split" /\ words' = words /\ next \in 1..Len(words)
          /\ next' = next + 1 /\ words[next] \in Nat \ {0}
      BY <2>0, <2>2, ElementOfSeq DEF TakeWord
    <3>2. Measured(Alone(next))
      <4>1. Chars(next, next) = words[next]
        BY <2>0, <3>1, CharsGrow
      <4> QED BY <2>0, <3>1, <4>1 DEF Measured, Alone
    <3>3. cur # NoChunk => /\ Measured(Joined(next)) /\ cur.last = next - 1
                           /\ cur.chars \in Nat
      <4> SUFFICES ASSUME cur # NoChunk
                   PROVE  Measured(Joined(next)) /\ cur.last = next - 1 /\ cur.chars \in Nat
        OBVIOUS
      <4>1. Measured(cur) /\ cur.last = next - 1
        BY <3>1 DEF Greedy, Inv, SplitInv
      <4>2. cur.first \in Nat /\ cur.chars \in Nat /\ 1 <= cur.first /\ cur.first < next
        BY <2>0, <4>1 DEF ChunkType, Measured
      <4>3. Chars(cur.first, next) = Chars(cur.first, next - 1) + 1 + words[next]
        BY <2>0, <3>1, <4>2, CharsGrow
      <4>4. cur.chars = Chars(cur.first, next - 1) /\ cur.chars >= 2 * (cur.last - cur.first) + 1
        BY <4>1 DEF Measured
      <4>5. PICK f \in Nat, c \in Nat, w \in Nat \ {0} : f = cur.first /\ c = cur.chars /\ w = words[next]
        BY <3>1, <4>2
      <4>6. Chars(f, next) = c + 1 + w /\ c + 1 + w >= 2 * (next - f) + 1
        <5>1. Chars(f, next) = c + 1 + w
          BY <4>3, <4>4, <4>5
        <5>2. c >= 2 * (next - 1 - f) + 1
          BY <4>1, <4>4, <4>5
        <5>3. c \in Int /\ f \in Int /\ w \in Int /\ w >= 1 /\ next \in Int
          BY <2>0, <4>5
        <5>4. c + 1 + w >= 2 * (next - f) + 1
          BY <5>2, <5>3
        <5> QED BY <5>1, <5>4
      <4>7. Joined(next) = [first |-> f, last |-> next, chars |-> c + 1 + w]
        BY <4>5 DEF Joined
      <4>8. Measured(Joined(next))
        BY <2>0, <3>1, <4>2, <4>5, <4>6, <4>7 DEF Measured
      <4> QED BY <4>1, <4>2, <4>8
    <3>4. CASE cur = NoChunk /\ cur' = Alone(next) /\ UNCHANGED chunks
      <4>1. Measured(cur')
        BY <3>2, <3>4
      <4> QED BY <3>1, <3>4, <4>1 DEF Greedy, Measured, Full, Chars
    <3>5. CASE cur # NoChunk /\ cur' = Joined(next) /\ UNCHANGED chunks
      <4>1. Measured(cur')
        BY <3>3, <3>5
      <4> QED BY <3>1, <3>5, <4>1 DEF Greedy, Measured, Full, Chars
    <3>6. CASE cur # NoChunk /\ ~Fits(next) /\ cur' = Alone(next) /\ chunks' = Append(chunks, cur)
      <4>1. Full(cur)
        <5>1. cur.chars + 1 + words[next] > Limit
          BY <3>1, <3>3, <3>6 DEF Fits
        <5>2. cur.last + 1 = next
          BY <2>0, <3>3, <3>6
        <5> QED BY <5>1, <5>2 DEF Full
      <4>2. Measured(cur')
        BY <3>2, <3>6
      <4>3. /\ \A k \in 1..Len(chunks') : Measured(chunks'[k]) /\ Full(chunks'[k])
            /\ \A j, k \in 1..Len(chunks') : j < k => chunks'[j].last < chunks'[k].first
        BY <2>1, <3>1, <3>6, <4>1
      <4> QED BY <3>1, <4>2, <4>3 DEF Greedy, Measured, Full, Chars
    <3> QED BY <2>2, <3>4, <3>5, <3>6 DEF TakeWord
  <2>3. CASE EndSplit
    <3>1. pc = "split" /\ pc' = "speak" /\ words' = words /\ chunks' = Append(chunks, cur)
      BY <2>3 DEF EndSplit
    <3>2. cur # NoChunk /\ cur.last = Len(words)
      BY <2>0, <2>3, EmptySeq DEF Inv, TypeInv, SplitInv, EndSplit
    <3>3. Full(cur)
      BY <2>0, <3>2 DEF Full
    <3>4. /\ \A k \in 1..Len(chunks') : Measured(chunks'[k]) /\ Full(chunks'[k])
          /\ \A j, k \in 1..Len(chunks') : j < k => chunks'[j].last < chunks'[k].first
      BY <2>1, <3>1, <3>2, <3>3
    <3> QED BY <3>1, <3>4 DEF Greedy, Measured, Full, Chars
  <2>4. CASE UNCHANGED <<words, chunks, cur>> /\ (pc' = "split" => pc = "split")
    <3>1. words' = words /\ chunks' = chunks /\ cur' = cur
      BY <2>4
    <3>2. /\ \A k \in 1..Len(chunks) : Measured(chunks[k])' /\ Full(chunks[k])'
          /\ \A j, k \in 1..Len(chunks) : j < k => chunks'[j].last < chunks'[k].first
      BY <3>1 DEF Greedy, Measured, Full, Chars
    <3>3. pc' = "split" /\ cur' # NoChunk => Measured(cur)'
      BY <2>4, <3>1 DEF Greedy, Measured, Chars
    <3> QED BY <3>1, <3>2, <3>3 DEF Greedy
  <2> QED BY <2>2, <2>3, <2>4
          DEF Next, Speak, Merge, Hear, DeriveChunk, EndDerive, BuildLine, EndLines, RenderVideo, vars
<1> QED BY <1>1, <1>2, InvHolds, PTL DEF Spec

-----------------------------------------------------------------------------
(* The lag of the fallback *)

\* When the fallback has the first word of chunk k begin.
Due(k) == HoldsBefore(k) + SumFunctionOnSet(durations, 1..k - 1)

LagInv ==
  /\ Len(voice) = Len(durations)
  /\ \A k \in 1..Len(durations) : durations[k] \in Voices \cup {Second, AtLeast}
  /\ pc \notin {"split", "speak"} => Len(durations) = Len(chunks)
  /\ heard = <<>> => \A k \in 1..Len(chunks) :
       Len(stamps) >= chunks[k].first => stamps[chunks[k].first].start = Due(k)
  /\ pc = "derive" /\ next <= Len(chunks) => clock = Due(next)

\* The words of a chunk use up its duration.
LEMMA ExactShare ==
  ASSUME Exact, Inv, Greedy, LagInv, NEW k \in 1..Len(chunks), Len(durations) = Len(chunks)
  PROVE  NumWords(k) * TimePerWord(k) = durations[k]
<1>1. chunks[k] \in ChunkType /\ Measured(chunks[k]) /\ Small(chunks[k])
  BY ElementOfSeq DEF Inv, TypeInv, SplitInv, Greedy
<1>2. PICK f \in Nat, l \in Nat, c \in Nat : f = chunks[k].first /\ l = chunks[k].last /\ c = chunks[k].chars
  BY <1>1 DEF ChunkType
<1>3. f <= l /\ c >= 2 * (l - f) + 1 /\ (c <= Limit \/ f = l)
  BY <1>1, <1>2 DEF Measured, Small
<1>4. PICK n \in Nat \ {0} : n = l - f + 1 /\ n = NumWords(k)
  <2>1. l - f + 1 \in Nat \ {0}
    BY <1>3
  <2>2. l - f + 1 = NumWords(k)
    BY <1>2 DEF NumWords
  <2> QED BY <2>1, <2>2
<1>5. 2 * n <= Limit + 1
  BY <1>3, <1>4
<1>6. n <= (Limit + 1) \div 2
  BY <1>5, Z3
<1>7. n \in 1..(Limit + 1) \div 2
  BY <1>6
<1>8. PICK d \in Nat : d = durations[k] /\ d \in Voices \cup {Second, AtLeast}
  <2>1. durations[k] \in Nat
    BY ElementOfSeq DEF Inv, TypeInv
  <2>2. durations[k] \in Voices \cup {Second, AtLeast}
    BY DEF LagInv
  <2> QED BY <2>1, <2>2
<1>9. d % n = 0
  BY <1>7, <1>8 DEF Exact
<1>10. PICK q \in Int, r \in Nat : q = d \div n /\ r = d % n /\ d = n * q + r
  <2>1. d \in Int
    OBVIOUS
  <2> QED BY <2>1, DivMod
<1>11. n * q \in Int
  BY Z3
<1>12. n * q = d
  BY <1>9, <1>10, <1>11
<1> QED BY <1>4, <1>8, <1>10, <1>12 DEF TimePerWord

\* From one chunk to the next.
LEMMA DueNext ==
  ASSUME NEW k \in Nat \ {0}, \A x \in 1..k : durations[x] \in Nat
  PROVE  /\ Due(k + 1) = Due(k) + durations[k] + INTER_CHUNK_HOLD_SECONDS
         /\ Due(1) = 0 /\ Due(k) \in Int
<1> DEFINE hold == INTER_CHUNK_HOLD_SECONDS
           s == SumFunctionOnSet(durations, 1..k - 1)
<1>0. hold \in Nat
  BY ConstantTimes
<1>1. /\ SumFunctionOnSet(durations, 1..k) = s + durations[k]
      /\ s \in Int /\ durations[k] \in Nat
  <2>1. \A x \in 1..k : durations[x] \in Int
    OBVIOUS
  <2>2. 1 \in Int /\ k \in Int /\ k >= 1
    OBVIOUS
  <2> QED BY <2>1, <2>2, SumStretch
<1>2. (k + 1) - 1 = k
  OBVIOUS
<1>3. SumFunctionOnSet(durations, 1..1 - 1) = 0
  BY SumEmpty
<1> HIDE DEF hold, s
<1>4. PICK h \in Int : h = (k - 1) * hold /\ k * hold = h + hold
  <2>1. (k - 1) * hold \in Int /\ k * hold = (k - 1) * hold + hold
    BY <1>0, Z3
  <2> QED BY <2>1
<1>5. Due(k) = h + s
  BY <1>4 DEF Due, HoldsBefore, hold, s
<1>6. Due(k + 1) = (h + hold) + (s + durations[k])
  BY <1>1, <1>2, <1>4 DEF Due, HoldsBefore, hold
<1>7. Due(1) = 0
  <2>1. (1 - 1) * hold = 0
    BY <1>0, Z3
  <2> QED BY <1>3, <2>1 DEF Due, HoldsBefore, hold
<1> QED BY <1>0, <1>1, <1>4, <1>5, <1>6, <1>7 DEF hold

\* While the timestamps are empty nothing is said of them.
LEMMA NoStamps ==
  ASSUME Inv, Greedy, stamps = <<>>
  PROVE  \A k \in 1..Len(chunks) :
           Len(stamps) >= chunks[k].first => stamps[chunks[k].first].start = Due(k)
<1> SUFFICES ASSUME NEW k \in 1..Len(chunks) PROVE ~(Len(stamps) >= chunks[k].first)
  OBVIOUS
<1>1. chunks[k].first \in Nat /\ chunks[k].first >= 1
  <2>1. chunks[k] \in ChunkType
    BY ElementOfSeq DEF Inv, TypeInv
  <2>2. Measured(chunks[k])
    BY DEF Greedy
  <2> QED BY <2>1, <2>2 DEF ChunkType, Measured
<1>2. Len(stamps) = 0
  BY EmptySeq
<1> QED BY <1>1, <1>2

\* The fallback adds the timestamps of the next chunk where it is due.
LEMMA DeriveChunkLag ==
  ASSUME Exact, Inv, Inv', Greedy, LagInv, DeriveChunk
  PROVE  LagInv'
<1>1. /\ stamps' = stamps \o Shared(next, clock)
      /\ clock' = clock + NumWords(next) * TimePerWord(next) + Held(next)
      /\ next' = next + 1 /\ pc' = pc /\ pc = "derive"
      /\ words' = words /\ chunks' = chunks /\ heard' = heard
      /\ voice' = voice /\ durations' = durations
  BY DEF DeriveChunk, spoken
<1>2. /\ next \in 1..Len(chunks) /\ Len(chunks) \in Nat /\ next \in Nat \ {0}
      /\ Len(durations) = Len(chunks) /\ heard = <<>>
  BY LenProperties DEF DeriveChunk, Inv, TypeInv, StampInv
<1>3. /\ Shared(next, clock) \in Seq(Stamp) /\ Len(Shared(next, clock)) = NumWords(next)
      /\ Shared(next, clock)[1].start = clock /\ NumWords(next) \in Nat \ {0}
  BY <1>1, <1>2, SharedFacts
<1>4. stamps \in Seq(Stamp) /\ Len(stamps) \in Nat /\ clock \in Nat
  BY LenProperties DEF Inv, TypeInv
<1>5. /\ Len(stamps') = Len(stamps) + NumWords(next)
      /\ \A i \in 1..Len(stamps) : stamps'[i] = stamps[i]
      /\ stamps'[Len(stamps) + 1] = Shared(next, clock)[1]
  <2> DEFINE added == Shared(next, clock)  n == NumWords(next)
  <2> HIDE DEF added, n
  <2>1. /\ Len(stamps \o added) = Len(stamps) + Len(added)
        /\ \A i \in 1..Len(stamps) + Len(added) :
             (stamps \o added)[i] = IF i <= Len(stamps) THEN stamps[i] ELSE added[i - Len(stamps)]
    BY <1>3, <1>4, ConcatProperties DEF added
  <2>2. Len(added) = n /\ n \in Nat \ {0} /\ stamps' = stamps \o added
    BY <1>1, <1>3 DEF added, n
  <2>3. \A i \in 1..Len(stamps) : stamps'[i] = stamps[i]
    BY <1>4, <2>1, <2>2
  <2>4. stamps'[Len(stamps) + 1] = added[1]
    <3>1. /\ Len(stamps) + 1 \in 1..Len(stamps) + Len(added)
          /\ ~(Len(stamps) + 1 <= Len(stamps)) /\ (Len(stamps) + 1) - Len(stamps) = 1
      BY <1>4, <2>2
    <3> QED BY <2>1, <2>2, <3>1
  <2> QED BY <2>1, <2>2, <2>3, <2>4 DEF added, n
<1>6. /\ \A k \in 1..Len(chunks) : chunks[k] \in ChunkType /\ chunks[k].first <= chunks[k].last
      /\ \A j, k \in 1..Len(chunks) : j < k => chunks[j].last < chunks[k].first
  BY ElementOfSeq DEF Inv, TypeInv, Greedy, Measured
<1>7. Len(stamps') = chunks[next].last
  <2>1. next' # 1 /\ next' - 1 = next
    BY <1>1, <1>2
  <2> QED BY <1>1, <2>1 DEF Inv, StampInv
<1>8. chunks[next].first = Len(stamps) + 1
  <2>1. PICK f \in Nat, l \in Nat : f = chunks[next].first /\ l = chunks[next].last
    BY <1>2, <1>6 DEF ChunkType
  <2>2. NumWords(next) = l - f + 1
    BY <2>1 DEF NumWords
  <2>3. l = Len(stamps) + (l - f + 1)
    <3>1. Len(stamps') = l /\ Len(stamps') = Len(stamps) + NumWords(next)
      BY <1>5, <1>7, <2>1
    <3> QED BY <2>2, <3>1, Zenon
  <2>4. PICK x \in Nat : x = Len(stamps)
    BY <1>4
  <2>5. f = x + 1
    <3>1. \A a, b, c \in Int : b = a + (b - c + 1) => c = a + 1
      OBVIOUS
    <3>2. l = x + (l - f + 1) /\ x \in Int /\ l \in Int /\ f \in Int
      BY <2>3, <2>4
    <3> QED BY <3>1, <3>2, Zenon
  <2> QED BY <2>1, <2>4, <2>5
<1>9. \A k : Due(k)' = Due(k)
  BY <1>1 DEF Due, HoldsBefore
<1>10. ASSUME NEW k \in 1..Len(chunks), Len(stamps') >= chunks[k].first
       PROVE  stamps'[chunks[k].first].start = Due(k)
  <2>1. PICK f \in Nat, l \in Nat : f = chunks[k].first /\ l = chunks[k].last /\ f <= l
    BY <1>6 DEF ChunkType
  <2>2. ~(next < k)
    <3>1. next < k => chunks[next].last < chunks[k].first
      BY <1>2, <1>6
    <3>2. chunks[next].last \in Nat
      BY <1>2, <1>6 DEF ChunkType
    <3> QED BY <1>7, <1>10, <2>1, <3>1, <3>2
  <2>3. CASE k = next
    <3>1. clock = Due(next)
      BY <1>1, <1>2 DEF LagInv
    <3> QED BY <1>3, <1>5, <1>8, <2>3, <3>1
  <2>4. CASE k < next
    <3>1. chunks[k].last < chunks[next].first
      BY <1>2, <1>6, <2>4
    <3>2. f \in 1..Len(stamps)
      <4>1. Measured(chunks[k])
        BY DEF Greedy
      <4>2. 1 <= f
        BY <2>1, <4>1 DEF Measured
      <4> QED BY <1>4, <1>8, <2>1, <3>1, <4>2
    <3>3. stamps[f].start = Due(k)
      BY <1>2, <1>4, <2>1, <3>2 DEF LagInv
    <3> QED BY <1>5, <2>1, <3>2, <3>3
  <2> QED BY <1>2, <2>2, <2>3, <2>4
<1>11. next' <= Len(chunks) => clock' = Due(next')
  <2> SUFFICES ASSUME next + 1 <= Len(chunks) PROVE clock' = Due(next + 1)
    BY <1>1
  <2>1. NumWords(next) * TimePerWord(next) = durations[next]
    BY <1>2, ExactShare
  <2>2. Held(next) = INTER_CHUNK_HOLD_SECONDS
    <3>1. next < next + 1 /\ next + 1 \in 1..Len(chunks)
      BY <1>2
    <3>2. chunks[next].last < chunks[next + 1].first
      BY <1>2, <1>6, <3>1
    <3>3. chunks[next + 1].first <= chunks[next + 1].last /\ chunks[next + 1].last <= Len(words)
      BY <3>1 DEF Greedy, Measured
    <3>4. chunks[next + 1] \in ChunkType /\ chunks[next] \in ChunkType /\ Len(words) \in Nat
      BY <1>2, <1>6, <3>1, LenProperties DEF Inv, TypeInv
    <3>5. chunks[next].last < Len(words)
      BY <3>2, <3>3, <3>4 DEF ChunkType
    <3> QED BY <3>5 DEF Held
  <2>3. clock = Due(next)
    BY <1>1, <1>2 DEF LagInv
  <2>4. \A x \in 1..next : durations[x] \in Nat
    <3>1. 1..next \subseteq 1..Len(durations)
      BY <1>2
    <3>2. durations \in Seq(Nat)
      BY DEF Inv, TypeInv
    <3> QED BY <3>1, <3>2, ElementOfSeq
  <2>5. Due(next + 1) = Due(next) + durations[next] + INTER_CHUNK_HOLD_SECONDS
    BY <1>2, <2>4, DueNext
  <2> QED BY <1>1, <2>1, <2>2, <2>3, <2>5
<1>12. /\ Len(voice') = Len(durations') /\ Len(durations') = Len(chunks')
       /\ \A k \in 1..Len(durations') : durations'[k] \in Voices \cup {Second, AtLeast}
  BY <1>1, <1>2 DEF LagInv
<1> QED BY <1>1, <1>9, <1>10, <1>11, <1>12 DEF LagInv

LEMMA LagHolds == ASSUME Exact PROVE Spec => []LagInv
<1>1. Init => LagInv
  <2> SUFFICES ASSUME Init PROVE LagInv
    OBVIOUS
  <2>1. voice = <<>> /\ durations = <<>> /\ chunks = <<>> /\ pc = "split"
    BY DEF Init
  <2>2. Len(durations) = 0 /\ Len(chunks) = 0
    BY <2>1, EmptySeq
  <2>3. 1..0 = {}
    OBVIOUS
  <2> QED BY <2>1, <2>2, <2>3 DEF LagInv
<1>2. Inv /\ Inv' /\ Greedy /\ Greedy' /\ LagInv /\ [Next]_vars => LagInv'
  <2> SUFFICES ASSUME Inv, Inv', Greedy, Greedy', LagInv, [Next]_vars PROVE LagInv'
    OBVIOUS
  <2>0. ASSUME stamps' = <<>>
        PROVE  \A k \in 1..Len(chunks') :
                 Len(stamps') >= chunks'[k].first => stamps'[chunks'[k].first].start = Due(k)'
    <3>1. (Inv /\ Greedy /\ stamps = <<>> =>
             \A k \in 1..Len(chunks) :
               Len(stamps) >= chunks[k].first => stamps[chunks[k].first].start = Due(k))'
      BY NoStamps, PTL
    <3> QED BY <2>0, <3>1
  <2>1. CASE TakeWord \/ EndSplit
    <3>1. /\ stamps' = <<>> /\ durations' = durations /\ voice' = voice
          /\ pc' \in {"split", "speak"}
      BY <2>1 DEF TakeWord, EndSplit, Inv, StampInv, spoken
    <3> QED BY <2>0, <3>1 DEF LagInv
  <2>2. CASE Speak
    <3>1. stamps' = <<>> /\ pc' = "speak"
      BY <2>2 DEF Speak, Inv, StampInv
    <3>2. PICK length \in Voices : \E measured \in get_wav_duration(length) :
            /\ voice' = Append(voice, length)
            /\ durations' = Append(durations, Most(AtLeast, measured))
      BY <2>2 DEF Speak
    <3>3. PICK d : /\ d \in Voices \cup {Second, AtLeast}
                   /\ durations' = Append(durations, d)
      BY <3>2 DEF get_wav_duration, Most
    <3>4. voice \in Seq(Nat) /\ durations \in Seq(Nat) /\ length \in Nat /\ d \in Nat
      BY <3>2, <3>3, ConstantTimes DEF Inv, TypeInv
    <3>5. Len(voice') = Len(voice) + 1 /\ Len(durations') = Len(durations) + 1
      BY <3>2, <3>3, <3>4, AppendProperties
    <3>6. \A k \in 1..Len(durations') : durations'[k] \in Voices \cup {Second, AtLeast}
      <4>1. /\ \A k \in 1..Len(durations) : durations'[k] = durations[k]
            /\ durations'[Len(durations) + 1] = d /\ Len(durations) \in Nat
        BY <3>3, <3>4, AppendProperties, LenProperties
      <4>2. \A k \in 1..Len(durations) : durations[k] \in Voices \cup {Second, AtLeast}
        BY DEF LagInv
      <4>3. ASSUME NEW k \in 1..Len(durations') PROVE k \in 1..Len(durations) \/ k = Len(durations) + 1
        BY <3>5, <4>1
      <4> QED BY <3>3, <4>1, <4>2, <4>3
    <3> QED BY <2>0, <3>1, <3>5, <3>6 DEF LagInv
  <2>3. CASE Merge
    <3>1. /\ stamps' = <<>> /\ durations' = durations /\ voice' = voice /\ chunks' = chunks
          /\ pc' = "hear"
      BY <2>3 DEF Merge, Inv, StampInv, spoken
    <3>2. Len(durations') = Len(chunks')
      BY <3>1 DEF Inv, StampInv
    <3> QED BY <2>0, <3>1, <3>2 DEF LagInv
  <2>4. CASE Hear
    <3>1. /\ durations' = durations /\ voice' = voice /\ chunks' = chunks /\ clock' = clock
          /\ pc = "hear" /\ stamps = <<>> /\ clock = 0 /\ Len(durations) = Len(chunks)
      BY <2>4 DEF Hear, Inv, StampInv, spoken
    <3>2. CASE heard' = <<>>
      <4>1. stamps' = <<>> /\ next' = 1
        BY <2>4, <3>1, <3>2 DEF Hear
      <4>2. Due(1)' = 0
        <5>1. SumFunctionOnSet(durations', 1..1 - 1) = 0
          BY SumEmpty
        <5>2. (1 - 1) * INTER_CHUNK_HOLD_SECONDS = 0
          BY ConstantTimes, Z3
        <5> QED BY <5>1, <5>2 DEF Due, HoldsBefore
      <4> QED BY <2>0, <3>1, <4>1, <4>2 DEF LagInv
    <3>3. CASE heard' # <<>>
      <4>1. pc' = "lines"
        BY <2>4, <3>3 DEF Hear
      <4> QED BY <3>1, <3>3, <4>1 DEF LagInv
    <3> QED BY <3>2, <3>3
  <2>5. CASE DeriveChunk
    BY <2>5, DeriveChunkLag
  <2>6. CASE /\ UNCHANGED <<chunks, spoken, heard, clock, stamps>>
             /\ \/ pc' = pc /\ next' = next
                \/ pc \notin {"split", "speak"} /\ pc' \notin {"split", "speak", "derive"}
    <3>1. \A k : Due(k)' = Due(k)
      BY <2>6 DEF Due, HoldsBefore, spoken
    <3>2. /\ chunks' = chunks /\ voice' = voice /\ durations' = durations /\ heard' = heard
          /\ clock' = clock /\ stamps' = stamps
      BY <2>6 DEF spoken
    <3> QED BY <2>6, <3>1, <3>2 DEF LagInv
  <2> QED BY <2>1, <2>2, <2>3, <2>4, <2>5, <2>6
          DEF Next, EndDerive, BuildLine, EndLines, RenderVideo, vars
<1> QED BY <1>1, <1>2, InvHolds, GreedyHolds, PTL DEF Spec

\* When no time is rounded down, the fallback lags behind the voice by the holds and
\* the wrong measurements, whatever is spoken (Shortz.py:222, 302).
THEOREM LagIsHoldsHolds == ASSUME Exact PROVE Spec => []LagIsHolds
<1>1. Inv /\ Greedy /\ LagInv => LagIsHolds
  <2> SUFFICES ASSUME Inv, Greedy, LagInv, NEW k \in 1..Len(chunks), heard = <<>>,
                      Len(stamps) >= chunks[k].first
               PROVE  stamps[chunks[k].first].start - SpokenFrom(k) = HoldsBefore(k) + Mismeasured(k)
    BY DEF LagIsHolds
  <2>1. stamps[chunks[k].first].start = Due(k)
    BY DEF LagInv
  <2>2. k \in Nat \ {0} /\ Len(chunks) \in Nat
    BY LenProperties DEF Inv, TypeInv
  <2>3. \A x \in 1..k - 1 : voice[x] \in Int /\ durations[x] \in Int
    <3>1. Len(chunks) = Len(durations) /\ Len(voice) = Len(durations)
      <4>1. pc \notin {"split", "speak"}
        <5>1. chunks[k].first \in Nat /\ chunks[k].first >= 1
          <6>1. chunks[k] \in ChunkType /\ Measured(chunks[k])
            BY ElementOfSeq DEF Inv, TypeInv, Greedy
          <6> QED BY <6>1 DEF ChunkType, Measured
        <5>2. stamps = <<>> => Len(stamps) = 0
          BY EmptySeq
        <5> QED BY <5>1, <5>2 DEF Inv, StampInv
      <4> QED BY <4>1 DEF LagInv
    <3> QED BY <2>2, <3>1, ElementOfSeq DEF Inv, TypeInv
  <2>4. SpokenFrom(k) \in Int /\ SumFunctionOnSet(durations, 1..k - 1) \in Int
    <3>1. IsFiniteSet(1..k - 1)
      BY <2>2, FS_Interval
    <3> QED BY <2>3, <3>1, SumFacts DEF SpokenFrom
  <2>5. HoldsBefore(k) \in Int
    <3>1. INTER_CHUNK_HOLD_SECONDS \in Nat
      BY ConstantTimes
    <3> QED BY <2>2, <3>1, Z3 DEF HoldsBefore
  <2>6. PICK s \in Int, d \in Int, h \in Int :
          s = SpokenFrom(k) /\ d = SumFunctionOnSet(durations, 1..k - 1) /\ h = HoldsBefore(k)
    BY <2>4, <2>5
  <2>7. Due(k) = h + d /\ Mismeasured(k) = d - s
    BY <2>6 DEF Due, Mismeasured
  <2>8. (h + d) - s = h + (d - s)
    OBVIOUS
  <2> QED BY <2>1, <2>6, <2>7, <2>8
<1> QED BY <1>1, LagHolds, GreedyHolds, InvHolds, PTL

-----------------------------------------------------------------------------
(* The fewest chunks *)

\* More terms, none negative, sum up to no less.
LEMMA SumGrows ==
  ASSUME NEW S, IsFiniteSet(S), NEW R \in SUBSET S, NEW f, \A x \in S : f[x] \in Nat
  PROVE  SumFunctionOnSet(f, R) <= SumFunctionOnSet(f, S)
<1> DEFINE T == {s \in SUBSET S : R \subseteq s /\ ~(SumFunctionOnSet(f, R) <= SumFunctionOnSet(f, s))}
<1>1. ASSUME NEW s \in SUBSET S
      PROVE  /\ SumFunctionOnSet(f, s) \in Int
             /\ \A x \in s : SumFunctionOnSet(f, s) = f[x] + SumFunctionOnSet(f, s \ {x})
  <2>1. IsFiniteSet(s) /\ \A x \in s : f[x] \in Int
    BY FS_Subset
  <2> QED BY <2>1, SumFacts
<1>2. ASSUME T # {} PROVE FALSE
  <2>1. PICK s \in T : \A t \in T : t \subseteq s => t = s
    <3>1. T \in SUBSET SUBSET S
      OBVIOUS
    <3> HIDE DEF T
    <3> QED BY <1>2, <3>1, LeastSubset
  <2>0. R \subseteq s /\ s # R
    <3>1. SumFunctionOnSet(f, R) \in Int
      BY <1>1
    <3>2. s = R => SumFunctionOnSet(f, s) = SumFunctionOnSet(f, R)
      OBVIOUS
    <3> QED BY <2>1, <3>1, <3>2
  <2>2. PICK x \in s : x \notin R
    BY <2>0
  <2>3. s \ {x} \notin T /\ s \ {x} \in SUBSET S /\ R \subseteq s \ {x}
    BY <2>1, <2>2
  <2>4. SumFunctionOnSet(f, R) <= SumFunctionOnSet(f, s \ {x})
    BY <2>3
  <2>5. SumFunctionOnSet(f, s) = f[x] + SumFunctionOnSet(f, s \ {x}) /\ f[x] \in Nat
    BY <1>1, <2>1
  <2>6. PICK a \in Int, b \in Int, c \in Int :
          a = SumFunctionOnSet(f, R) /\ b = SumFunctionOnSet(f, s \ {x}) /\ c = SumFunctionOnSet(f, s)
    BY <1>1, <2>1, <2>3
  <2>7. a <= c
    BY <2>4, <2>5, <2>6
  <2> QED BY <2>1, <2>6, <2>7
<1>3. S \in SUBSET S
  OBVIOUS
<1> QED BY <1>2, <1>3

\* A piece of the text is no longer than one it lies in.
LEMMA CharsWithin ==
  ASSUME words \in Seq(Nat \ {0}), NEW f \in Nat, NEW a \in Nat, NEW b \in Nat, NEW l \in Nat,
         1 <= f, f <= a, a <= b, b <= l, l <= Len(words)
  PROVE  Chars(a, b) <= Chars(f, l)
<1>1. IsFiniteSet(f..l) /\ a..b \in SUBSET (f..l) /\ \A x \in f..l : words[x] \in Nat
  <2>1. \A x \in f..l : words[x] \in Nat
    BY ElementOfSeq
  <2>2. a..b \subseteq f..l
    OBVIOUS
  <2>3. IsFiniteSet(f..l)
    BY FS_Interval
  <2> QED BY <2>1, <2>2, <2>3
<1>2. SumFunctionOnSet(words, a..b) <= SumFunctionOnSet(words, f..l)
  BY <1>1, SumGrows
<1>3. SumFunctionOnSet(words, a..b) \in Int /\ SumFunctionOnSet(words, f..l) \in Int
  <2>1. \A S : IsFiniteSet(S) /\ (\A x \in S : words[x] \in Int) => SumFunctionOnSet(words, S) \in Int
    BY SumFacts, Zenon
  <2>2. IsFiniteSet(a..b)
    BY FS_Interval
  <2> QED BY <1>1, <2>1, <2>2
<1>4. PICK x \in Int, y \in Int :
        x = SumFunctionOnSet(words, a..b) /\ y = SumFunctionOnSet(words, f..l)
  BY <1>3
<1>5. Chars(a, b) = x + (b - a) /\ Chars(f, l) = y + (l - f)
  BY <1>4 DEF Chars
<1> QED BY <1>2, <1>4, <1>5

\* Where the piece that begins at word f ends.
Piece(ends, f, l) == l \in ends /\ l >= f /\ \A e \in ends : e >= f => l <= e

LEMMA PieceUnique ==
  ASSUME NEW ends \in SUBSET Nat, NEW f \in Nat, NEW l, Piece(ends, f, l)
  PROVE  (CHOOSE m \in ends : m >= f /\ \A e \in ends : e >= f => m <= e) = l
<1>1. \A m \in ends : (m >= f /\ \A e \in ends : e >= f => m <= e) => m = l
  BY DEF Piece
<1>2. l \in ends /\ l >= f /\ \A e \in ends : e >= f => l <= e
  BY DEF Piece
<1> QED BY <1>1, <1>2

LEMMA PieceExists ==
  ASSUME NEW ends \in SUBSET Nat, NEW f \in Nat, \E e \in ends : e >= f
  PROVE  \E l : Piece(ends, f, l)
<1>1. {e \in ends : e >= f} \in SUBSET Nat /\ {e \in ends : e >= f} # {}
  OBVIOUS
<1>2. PICK l \in {e \in ends : e >= f} : \A m \in {e \in ends : e >= f} : l <= m
  BY <1>1, LeastNat
<1> QED BY <1>2 DEF Piece

\* FitCuts, piece by piece.
LEMMA CutPieces ==
  ASSUME NEW cuts \in SUBSET Nat, Len(words) \in Nat
  PROVE  /\ FitCuts(cuts) =>
              \A f \in {1} \cup {c + 1 : c \in cuts} : \A l :
                Piece(cuts \cup {Len(words)}, f, l) => f = l \/ Chars(f, l) <= Limit
         /\ (\A f \in {1} \cup {c + 1 : c \in cuts} : \E l :
                Piece(cuts \cup {Len(words)}, f, l) /\ (f = l \/ Chars(f, l) <= Limit))
            => FitCuts(cuts)
<1> DEFINE ends == cuts \cup {Len(words)}
           From(f) == CHOOSE l \in ends : l >= f /\ \A e \in ends : e >= f => l <= e
<1>1. \A f \in Nat : \A l : Piece(ends, f, l) => From(f) = l
  <2>1. ends \in SUBSET Nat
    OBVIOUS
  <2> HIDE DEF ends
  <2> QED BY <2>1, PieceUnique
<1>2. {1} \cup {c + 1 : c \in cuts} \subseteq Nat
  OBVIOUS
<1>3. FitCuts(cuts) <=>
        \A f \in {1} \cup {c + 1 : c \in cuts} : f = From(f) \/ Chars(f, From(f)) <= Limit
  BY DEF FitCuts
<1> HIDE DEF From
<1>4. FitCuts(cuts) =>
              \A f \in {1} \cup {c + 1 : c \in cuts} : \A l :
                Piece(ends, f, l) => f = l \/ Chars(f, l) <= Limit
  BY <1>1, <1>2, <1>3
<1>5. (\A f \in {1} \cup {c + 1 : c \in cuts} : \E l :
                Piece(ends, f, l) /\ (f = l \/ Chars(f, l) <= Limit)) => FitCuts(cuts)
  <2> SUFFICES ASSUME \A f \in {1} \cup {c + 1 : c \in cuts} : \E l :
                        Piece(ends, f, l) /\ (f = l \/ Chars(f, l) <= Limit),
                      NEW f \in {1} \cup {c + 1 : c \in cuts}
               PROVE  f = From(f) \/ Chars(f, From(f)) <= Limit
    BY <1>3
  <2>1. PICK l : Piece(ends, f, l) /\ (f = l \/ Chars(f, l) <= Limit)
    OBVIOUS
  <2>2. From(f) = l
    BY <1>1, <1>2, <2>1
  <2> QED BY <2>1, <2>2
<1> QED BY <1>4, <1>5

\* The chunks, once the text is split.
Split ==
  /\ Len(words) \in Nat \ {0} /\ Len(chunks) \in Nat \ {0} /\ words \in Seq(Nat \ {0})
  /\ \A k \in 1..Len(chunks) :
       /\ chunks[k].first \in Nat /\ chunks[k].last \in Nat /\ chunks[k].chars \in Int
       /\ Measured(chunks[k]) /\ Full(chunks[k]) /\ Small(chunks[k])
  /\ \A j, k \in 1..Len(chunks) : j < k => chunks[j].last < chunks[k].first
  /\ \A k \in 1..Len(chunks) - 1 : chunks[k + 1].first = chunks[k].last + 1
  /\ chunks[1].first = 1 /\ chunks[Len(chunks)].last = Len(words)

LEMMA SplitFacts == Inv /\ Greedy /\ pc # "split" => Split
<1> SUFFICES ASSUME Inv, Greedy, pc # "split" PROVE Split
  OBVIOUS
<1>1. /\ Len(words) \in Nat /\ Len(chunks) \in Nat /\ words \in Seq(Nat \ {0}) /\ words # <<>>
      /\ chunks # <<>>
  BY LenProperties DEF Inv, TypeInv, SplitInv
<1>2. Len(words) # 0 /\ Len(chunks) # 0
  BY <1>1, EmptySeq DEF Inv, TypeInv
<1>3. ASSUME NEW k \in 1..Len(chunks)
      PROVE  /\ chunks[k].first \in Nat /\ chunks[k].last \in Nat /\ chunks[k].chars \in Int
             /\ Measured(chunks[k]) /\ Full(chunks[k]) /\ Small(chunks[k])
  <2>1. chunks[k] \in ChunkType
    BY ElementOfSeq DEF Inv, TypeInv
  <2> QED BY <2>1 DEF ChunkType, Greedy, Inv, SplitInv
<1> QED BY <1>1, <1>2, <1>3 DEF Split, Greedy, Inv, SplitInv, Tiles

\* The chunks themselves are a way to cut the text.
LEMMA ChunksFit == Split => FitCuts({chunks[k].last : k \in 1..Len(chunks) - 1})
<1> SUFFICES ASSUME Split PROVE FitCuts({chunks[k].last : k \in 1..Len(chunks) - 1})
  OBVIOUS
<1> DEFINE n == Len(chunks)
           cuts == {chunks[k].last : k \in 1..n - 1}
           ends == cuts \cup {Len(words)}
<1>1. n \in Nat \ {0} /\ Len(words) \in Nat
  BY DEF Split
<1>2. \A k \in 1..n : /\ chunks[k].first \in Nat /\ chunks[k].last \in Nat
                      /\ chunks[k].first <= chunks[k].last
  BY DEF Split, Measured
<1>3. ends = {chunks[k].last : k \in 1..n}
  <2>1. Len(words) = chunks[n].last
    BY DEF Split
  <2>2. 1..n = (1..n - 1) \cup {n}
    BY <1>1
  <2> HIDE DEF n
  <2> QED BY <2>1, <2>2
<1>4. ends \in SUBSET Nat /\ cuts \in SUBSET Nat
  BY <1>1, <1>2
<1>5. ASSUME NEW j \in 1..n
      PROVE  /\ Piece(ends, chunks[j].first, chunks[j].last)
             /\ chunks[j].first = chunks[j].last \/ Chars(chunks[j].first, chunks[j].last) <= Limit
  <2>1. chunks[j].last \in ends
    BY <1>3
  <2>2. ASSUME NEW k \in 1..n, chunks[k].last >= chunks[j].first PROVE chunks[j].last <= chunks[k].last
    <3>1. CASE k < j
      <4>1. chunks[k].last < chunks[j].first
        BY <3>1 DEF Split
      <4> QED BY <1>2, <2>2, <4>1
    <3>2. CASE k = j
      BY <1>2, <3>2
    <3>3. CASE k > j
      <4>1. chunks[j].last < chunks[k].first
        BY <3>3 DEF Split
      <4> QED BY <1>2, <4>1
    <3> QED BY <1>1, <3>1, <3>2, <3>3
  <2>3. Piece(ends, chunks[j].first, chunks[j].last)
    BY <1>2, <1>3, <2>1, <2>2 DEF Piece
  <2>4. chunks[j].chars = Chars(chunks[j].first, chunks[j].last) /\ Small(chunks[j])
    BY DEF Split, Measured
  <2> QED BY <2>3, <2>4 DEF Small
<1>6. ASSUME NEW f \in {1} \cup {c + 1 : c \in cuts}
      PROVE  \E j \in 1..n : f = chunks[j].first
  <2>1. CASE f = 1
    <3>1. f = chunks[1].first
      BY <2>1 DEF Split
    <3> QED BY <1>1, <3>1
  <2>2. CASE f \in {c + 1 : c \in cuts}
    <3>1. PICK k \in 1..n - 1 : f = chunks[k].last + 1
      BY <2>2
    <3>2. f = chunks[k + 1].first /\ k + 1 \in 1..n
      BY <1>1, <3>1 DEF Split
    <3> QED BY <3>2
  <2> QED BY <2>1, <2>2
<1>7. \A f \in {1} \cup {c + 1 : c \in cuts} : \E l :
        Piece(ends, f, l) /\ (f = l \/ Chars(f, l) <= Limit)
  <2> HIDE DEF ends, cuts, n
  <2> TAKE f \in {1} \cup {c + 1 : c \in cuts}
  <2>1. PICK j \in 1..n : f = chunks[j].first
    BY <1>6
  <2>2. /\ Piece(ends, f, chunks[j].last)
        /\ f = chunks[j].last \/ Chars(f, chunks[j].last) <= Limit
    BY <1>5, <2>1
  <2> QED BY <2>2
<1> HIDE DEF cuts
<1>8. FitCuts(cuts)
  BY <1>1, <1>4, <1>7, CutPieces
<1> QED BY <1>8 DEF cuts

\* The words pieces begin with.
Starts(cuts) == {1} \cup {c + 1 : c \in cuts}

\* Where the piece begins that word w lies in, when the text is cut after cuts.
LEMMA PieceAround ==
  ASSUME NEW cuts \in SUBSET Nat, NEW w \in Nat \ {0}
  PROVE  \E f \in Starts(cuts) : f <= w /\ f \in Nat \ {0} /\ \A c \in cuts : c < w => c < f
<1> DEFINE T == {n \in Nat \ {0} : \A c \in cuts : c < w => c < n}
<1>1. T \in SUBSET Nat /\ w \in T
  OBVIOUS
<1>2. PICK f \in T : \A m \in T : f <= m
  <2> HIDE DEF T
  <2> QED BY <1>1, LeastNat
<1>3. f \in Nat \ {0} /\ f <= w /\ \A c \in cuts : c < w => c < f
  BY <1>1, <1>2
<1>4. CASE f = 1
  BY <1>3, <1>4 DEF Starts
<1>5. CASE f # 1
  <2>1. f - 1 \notin T /\ f - 1 \in Nat \ {0}
    BY <1>2, <1>3, <1>5
  <2>2. PICK c \in cuts : c < w /\ ~(c < f - 1)
    BY <2>1
  <2>3. f = c + 1
    BY <1>3, <2>2
  <2> QED BY <1>3, <2>2, <2>3 DEF Starts
<1> QED BY <1>4, <1>5

\* Any way to cut the text has a cut in every chunk but the last: a piece that went on
\* behind the chunk would be longer than the limit.
LEMMA CutInChunk ==
  ASSUME Split, NEW cuts \in SUBSET (1..Len(words) - 1), FitCuts(cuts),
         NEW k \in 1..Len(chunks) - 1
  PROVE  \E c \in cuts : chunks[k].first <= c /\ c <= chunks[k].last
<1> SUFFICES ASSUME \A c \in cuts : ~(chunks[k].first <= c /\ c <= chunks[k].last)
             PROVE  FALSE
  OBVIOUS
<1> DEFINE a == chunks[k].first  b == chunks[k].last  N == Len(words)  ends == cuts \cup {N}
<1>0. k \in 1..Len(chunks) /\ k + 1 \in 1..Len(chunks) /\ k < k + 1
  BY DEF Split
<1>1. a \in Nat \ {0} /\ b \in Nat /\ a <= b /\ N \in Nat \ {0} /\ b < N
  <2>1. a \in Nat /\ b \in Nat /\ 1 <= a /\ a <= b
    BY <1>0 DEF Split, Measured
  <2>2. chunks[k + 1].first = b + 1 /\ chunks[k + 1].first <= chunks[k + 1].last
        /\ chunks[k + 1].last <= N /\ chunks[k + 1].last \in Nat /\ N \in Nat \ {0}
    BY <1>0 DEF Split, Measured
  <2> HIDE DEF a, b, N
  <2> QED BY <2>1, <2>2
<1>2. Chars(a, b + 1) > Limit /\ Chars(a, b + 1) \in Int
  <2>1. words \in Seq(Nat \ {0}) /\ chunks[k].chars = Chars(a, b) /\ Full(chunks[k]) /\ chunks[k].chars \in Int
    BY <1>0 DEF Split, Measured
  <2>2. chunks[k].chars + 1 + words[b + 1] > Limit
    BY <1>1, <2>1 DEF Full
  <2> HIDE DEF a, b, N
  <2>3. b + 1 \in Nat /\ a < b + 1 /\ b + 1 <= Len(words) /\ (b + 1) - 1 = b
    BY <1>1 DEF N
  <2>4. Chars(a, b + 1) = Chars(a, (b + 1) - 1) + 1 + words[b + 1] /\ Chars(a, b + 1) \in Int
    BY <1>1, <2>1, <2>3, CharsGrow
  <2> QED BY <2>1, <2>2, <2>3, <2>4
<1>3. cuts \in SUBSET Nat /\ ends \in SUBSET Nat /\ words \in Seq(Nat \ {0})
      /\ \A c \in cuts : c < N
  <2>1. words \in Seq(Nat \ {0})
    BY DEF Split
  <2>2. \A c \in cuts : c \in 1..N - 1
    OBVIOUS
  <2> HIDE DEF a, b, N
  <2>3. \A c \in cuts : c \in Nat /\ c < N
    BY <1>1, <2>2
  <2> QED BY <1>1, <2>1, <2>3
<1>4. \A c \in cuts : ~(a <= c /\ c <= b)
  OBVIOUS
<1> HIDE DEF a, b, N, ends
<1>5. PICK f \in Starts(cuts) : f <= a /\ f \in Nat \ {0} /\ \A c \in cuts : c < a => c < f
  <2>1. a \in Nat \ {0} /\ cuts \in SUBSET Nat
    BY <1>1, <1>3
  <2>2. ASSUME NEW w \in Nat \ {0}
        PROVE  \E f \in Starts(cuts) : f <= w /\ f \in Nat \ {0} /\ \A c \in cuts : c < w => c < f
    BY <2>1, PieceAround
  <2> QED BY <2>1, <2>2
<1>6. PICK l : Piece(ends, f, l)
  <2>1. \E e \in ends : e >= f
    BY <1>1, <1>5 DEF ends
  <2> QED BY <1>3, <1>5, <2>1, PieceExists
<1>7. l \in Nat /\ l <= N /\ l >= b + 1
  <2>1. l \in ends /\ l >= f
    BY <1>6 DEF Piece
  <2>2. CASE l = N
    BY <1>1, <2>2
  <2>3. CASE l \in cuts
    <3>1. l \in Nat /\ l < N /\ ~(l < a) /\ ~(a <= l /\ l <= b)
      BY <1>1, <1>3, <1>4, <1>5, <2>1, <2>3
    <3> QED BY <1>1, <3>1
  <2> QED BY <2>1, <2>2, <2>3 DEF ends
<1>8. Chars(f, l) <= Limit
  <2>1. f = l \/ Chars(f, l) <= Limit
    BY <1>1, <1>3, <1>6, CutPieces DEF ends, N, Starts
  <2>2. f # l
    BY <1>1, <1>5, <1>7
  <2> QED BY <2>1, <2>2
<1>9. Chars(a, b + 1) <= Chars(f, l)
  <2>1. b + 1 \in Nat /\ a <= b + 1 /\ l <= Len(words) /\ 1 <= f /\ f \in Nat /\ a \in Nat
    BY <1>1, <1>5, <1>7 DEF N
  <2> QED BY <1>3, <1>5, <1>7, <2>1, CharsWithin
<1>10. Chars(f, l) \in Int
  <2>1. f <= l /\ l <= Len(words) /\ 1 <= f /\ f \in Nat
    BY <1>1, <1>5, <1>7 DEF N
  <2> QED BY <1>3, <1>7, <2>1, CharsGrow
<1> QED BY <1>2, <1>8, <1>9, <1>10

\* No way to cut the text within the limit has fewer pieces than the greedy one, for
\* any text and limit (Shortz.py:185).
THEOREM FewestChunksHolds == Spec => []FewestChunks
<1>1. Split => \A cuts \in SUBSET (1..Len(words) - 1) :
                 FitCuts(cuts) => Cardinality(cuts) + 1 >= Len(chunks)
  <2> SUFFICES ASSUME Split, NEW cuts \in SUBSET (1..Len(words) - 1), FitCuts(cuts)
               PROVE  Cardinality(cuts) + 1 >= Len(chunks)
    OBVIOUS
  <2> DEFINE S == 1..Len(chunks) - 1
             cut == [k \in S |-> CHOOSE c \in cuts : chunks[k].first <= c /\ c <= chunks[k].last]
  <2>0. Len(chunks) \in Nat \ {0} /\ Len(words) \in Nat \ {0}
    BY DEF Split
  <2>1. \A k \in S : cut[k] \in cuts /\ chunks[k].first <= cut[k] /\ cut[k] <= chunks[k].last
    BY CutInChunk
  <2>2. cut \in [S -> cuts]
    BY <2>1
  <2>3. \A k \in S : cut[k] \in Int /\ chunks[k].first \in Int /\ chunks[k].last \in Int
    <3>1. \A k \in S : chunks[k].first \in Nat /\ chunks[k].last \in Nat
      BY <2>0 DEF Split
    <3>2. cuts \subseteq Int
      OBVIOUS
    <3>3. \A k \in S : cut[k] \in Int
      <4> HIDE DEF cut
      <4> QED BY <2>1, <3>2
    <3> QED BY <3>1, <3>3
  <2> HIDE DEF cut
  <2>4. ASSUME NEW j \in S, NEW k \in S, cut[j] = cut[k] PROVE j = k
    <3>1. ASSUME NEW x \in S, NEW y \in S, x < y PROVE cut[x] < cut[y]
      <4>1. chunks[x].last < chunks[y].first
        BY <2>0, <3>1 DEF Split
      <4>2. PICK p \in Int, q \in Int, c \in Int, d \in Int :
              p = cut[x] /\ q = cut[y] /\ c = chunks[x].last /\ d = chunks[y].first
        BY <2>3
      <4>3. p <= c /\ c < d /\ d <= q
        BY <2>1, <4>1, <4>2
      <4>4. p < q
        BY <4>3
      <4> QED BY <4>2, <4>4
    <3>2. ~(j < k) /\ ~(k < j)
      BY <2>3, <2>4, <3>1
    <3> QED BY <2>0, <3>2
  <2>5. cut \in Injection(S, cuts)
    BY <2>2, <2>4 DEF Injection, IsInjective
  <2>6. IsFiniteSet(cuts) /\ Cardinality(S) <= Cardinality(cuts)
    <3>1. IsFiniteSet(1..Len(words) - 1)
      BY <2>0, FS_Interval
    <3>2. IsFiniteSet(cuts)
      BY <3>1, FS_Subset
    <3> QED BY <2>5, <3>2, FS_Injection
  <2>7. Cardinality(S) = Len(chunks) - 1
    BY <2>0, FS_Interval
  <2>8. Cardinality(cuts) \in Nat
    BY <2>6, FS_CardinalityType
  <2> QED BY <2>0, <2>6, <2>7, <2>8
<1>2. Inv /\ Greedy => FewestChunks
  BY <1>1, SplitFacts, ChunksFit DEF FewestChunks
<1> QED BY <1>2, InvHolds, GreedyHolds, PTL
=============================================================================
