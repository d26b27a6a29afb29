--------------------------- MODULE DominioProofs ----------------------------
(***************************************************************************)
(* Proofs about Dominio, for every registration, date and document.  The   *)
(* operators of Dominio are folds of the community modules, that is        *)
(* recursive functions over the subsets of a set: the first part proves    *)
(* that such a function exists and what follows from its equation, by      *)
(* induction on the naturals stated for a set (Inducao).                   *)
(***************************************************************************)
EXTENDS Dominio, TLAPS, WellFoundedInduction, FiniteSetTheorems, SequenceTheorems

-----------------------------------------------------------------------------
(* Induction.                                                              *)

\* A set of naturals has a least element.
LEMMA Minimo ==
  ASSUME NEW T \in SUBSET Nat, T # {}
  PROVE  \E m \in T : \A k \in T : m <= k
<1> DEFINE R == {p \in Nat \X Nat : p[1] < p[2]}
<1>1. R = OpToRel(<, Nat)
  BY Zenon DEF OpToRel
<1>2. IsWellFoundedOn(R, Nat)
  BY <1>1, NatLessThanWellFounded, Zenon
<1>3. PICK m \in T : \A k \in T : ~ (<<k, m>> \in R)
  BY <1>2, WFMin, Zenon
<1>4. ASSUME NEW k \in T PROVE m <= k
  <2>1. <<k, m>> \notin R
    BY <1>3
  <2>2. m \in Nat /\ k \in Nat
    OBVIOUS
  <2>3. ~(k < m)
    BY <2>1, <2>2
  <2> QED
    BY <2>2, <2>3
<1> QED
  BY <1>4

\* A set with zero, and the successor of each natural it has, has every natural.
LEMMA Inducao ==
  ASSUME NEW T, 0 \in T, \A n \in Nat : n \in T => n + 1 \in T
  PROVE  Nat \subseteq T
<1> SUFFICES ASSUME Nat \ T # {} PROVE FALSE
  OBVIOUS
<1>1. PICK m \in Nat \ T : \A k \in Nat \ T : m <= k
  BY Minimo
<1>2. m # 0 /\ m - 1 \in Nat /\ m - 1 \in T
  BY <1>1
<1> QED
  BY <1>1, <1>2

\* The size of the subsets of a finite set, and of one of them without an element.
LEMMA Tamanhos ==
  ASSUME NEW S, IsFiniteSet(S)
  PROVE  /\ \A s \in SUBSET S : /\ Cardinality(s) \in Nat
                                /\ Cardinality(s) = 0 <=> s = {}
         /\ \A s \in SUBSET S : \A x \in s : Cardinality(s \ {x}) = Cardinality(s) - 1
<1>1. \A s \in SUBSET S : IsFiniteSet(s)
  BY FS_Subset
<1> QED
  BY <1>1, FS_CardinalityType, FS_EmptySet, FS_RemoveElement

\* A set of positions has a last one.
LEMMA MaiorDe ==
  ASSUME NEW n \in Nat, NEW S \in SUBSET (1 .. n), S # {}
  PROVE  (CHOOSE x \in S : \A y \in S : x >= y) \in S
<1> DEFINE T == {n - x : x \in S}
<1>0. \A x \in S : x \in 1 .. n /\ n - x \in Nat
  OBVIOUS
<1>1. T \in SUBSET Nat /\ T # {}
  BY <1>0
<1>2. PICK m \in T : \A k \in T : m <= k
  BY <1>1, Minimo
<1>3. PICK x \in S : m = n - x
  OBVIOUS
<1>4. ASSUME NEW y \in S PROVE x >= y
  <2>1. m <= n - y
    BY <1>2
  <2> QED
    BY <2>1, <1>0, <1>3
<1> QED
  BY <1>4

-----------------------------------------------------------------------------
(* Recursive functions over the subsets of a finite set.  esc says which   *)
(* element of a set is taken out, op what is done with the result for the  *)
(* rest and with that element.                                             *)

\* An element of each part of D that has one.
Escolhe(esc, D) == \A s \in SUBSET D : s # {} => esc[s] \in s

\* it is what comes of taking the elements of each part of D out, one after the other.
Percorre(it, D, base, op, esc) ==
  /\ it[{}] = base
  /\ \A s \in SUBSET D : s # {} => it[s] = op[<<it[s \ {esc[s]}], esc[s]>>]

\* There is such a function, and its values are where base and the results of op are.
LEMMA PercorreExiste ==
  ASSUME NEW D, IsFiniteSet(D), NEW A, NEW base \in A, NEW op \in [A \X D -> A],
         NEW esc, Escolhe(esc, D)
  PROVE  \E it \in [SUBSET D -> A] : Percorre(it, D, base, op, esc)
<1> DEFINE Ate(n) == {s \in SUBSET D : Cardinality(s) <= n}
           Passo(h, n) == [s \in Ate(n) |->
                             IF s = {} THEN base ELSE op[<<h[s \ {esc[s]}], esc[s]>>]]
           T == {n \in Nat : \E h \in [Ate(n) -> A] : h = Passo(h, n)}
<1>0. /\ \A s \in SUBSET D : /\ Cardinality(s) \in Nat
                             /\ Cardinality(s) = 0 <=> s = {}
      /\ \A s \in SUBSET D : \A x \in s : Cardinality(s \ {x}) = Cardinality(s) - 1
  BY Tamanhos
<1>b. \A n \in Nat : \A s : s \in Ate(n) <=> s \in SUBSET D /\ Cardinality(s) <= n
  OBVIOUS
<1>e. \A s \in SUBSET D : s # {} => esc[s] \in s /\ esc[s] \in D
  BY DEF Escolhe
<1> HIDE DEF Ate
<1>1. 0 \in T
  <2> DEFINE h == [s \in Ate(0) |-> base]
  <2>1. \A s \in Ate(0) : s = {}
    BY <1>0, <1>b
  <2>2. h = Passo(h, 0)
    BY <2>1
  <2>3. h \in [Ate(0) -> A]
    OBVIOUS
  <2> HIDE DEF h, Passo
  <2> QED
    BY <2>2, <2>3
<1>2. ASSUME NEW n \in Nat, n \in T PROVE n + 1 \in T
  <2>1. PICK h \in [Ate(n) -> A] : h = Passo(h, n)
    BY <1>2
  <2> DEFINE g == Passo(h, n + 1)
  <2>2. \A s \in Ate(n) : g[s] = h[s]
    <3> TAKE s \in Ate(n)
    <3>1. s \in Ate(n + 1)
      BY <1>0, <1>b
    <3>2. g[s] = IF s = {} THEN base ELSE op[<<h[s \ {esc[s]}], esc[s]>>]
      BY <3>1
    <3>3. h[s] = IF s = {} THEN base ELSE op[<<h[s \ {esc[s]}], esc[s]>>]
      BY <2>1
    <3> QED
      BY <3>2, <3>3
  <2>3. \A s \in Ate(n + 1) : s # {} => s \ {esc[s]} \in Ate(n)
    BY <1>0, <1>b, <1>e
  <2>4. g = Passo(g, n + 1)
    <3>1. \A s \in Ate(n + 1) : s # {} => g[s \ {esc[s]}] = h[s \ {esc[s]}]
      BY <2>2, <2>3
    <3> QED
      BY <3>1
  <2>5. g \in [Ate(n + 1) -> A]
    <3>1. ASSUME NEW s \in Ate(n + 1), s # {}
          PROVE  op[<<h[s \ {esc[s]}], esc[s]>>] \in A
      <4>1. s \ {esc[s]} \in Ate(n)
        BY <2>3, <3>1
      <4>2. h[s \ {esc[s]}] \in A
        BY <2>1, <4>1, Zenon
      <4>3. s \in SUBSET D
        BY <1>b, <3>1
      <4>4. esc[s] \in D
        BY <1>e, <3>1, <4>3
      <4> QED
        BY <4>2, <4>4
    <3> QED
      BY <3>1
  <2> HIDE DEF g, Passo
  <2> QED
    BY <2>4, <2>5
<1>3. Cardinality(D) \in T
  <2> HIDE DEF T
  <2> QED
    BY <1>1, <1>2, Inducao, FS_CardinalityType
<1>4. Ate(Cardinality(D)) = SUBSET D
  BY <1>b, FS_Subset, FS_CardinalityType
<1>5. PICK it \in [SUBSET D -> A] : it = Passo(it, Cardinality(D))
  BY <1>3, <1>4
<1>6. Percorre(it, D, base, op, esc)
  BY <1>4, <1>5 DEF Percorre
<1> QED
  BY <1>6

\* f and g agree on a part of D whenever they do without the element taken out of it.
Acompanha(f, g, D, esc) ==
  /\ IsFiniteSet(D) /\ Escolhe(esc, D)
  /\ f[{}] = g[{}]
  /\ \A s \in SUBSET D : s # {} /\ f[s \ {esc[s]}] = g[s \ {esc[s]}] => f[s] = g[s]

\* Two functions that do agree everywhere.
LEMMA MesmoPercurso ==
  ASSUME NEW D, NEW esc, NEW f, NEW g, Acompanha(f, g, D, esc)
  PROVE  \A s \in SUBSET D : f[s] = g[s]
<1>a. /\ IsFiniteSet(D) /\ Escolhe(esc, D) /\ f[{}] = g[{}]
      /\ \A s \in SUBSET D : s # {} /\ f[s \ {esc[s]}] = g[s \ {esc[s]}] => f[s] = g[s]
  BY DEF Acompanha
<1> DEFINE T == {n \in Nat : \A s \in SUBSET D : Cardinality(s) = n => f[s] = g[s]}
<1>0. /\ \A s \in SUBSET D : /\ Cardinality(s) \in Nat
                             /\ Cardinality(s) = 0 <=> s = {}
      /\ \A s \in SUBSET D : \A x \in s : Cardinality(s \ {x}) = Cardinality(s) - 1
  BY <1>a, Tamanhos
<1>1. 0 \in T
  BY <1>0, <1>a
<1>2. ASSUME NEW n \in Nat, n \in T PROVE n + 1 \in T
  <2> SUFFICES ASSUME NEW s \in SUBSET D, Cardinality(s) = n + 1 PROVE f[s] = g[s]
    OBVIOUS
  <2>1. s # {} /\ esc[s] \in s
    BY <1>0, <1>a DEF Escolhe
  <2>2. s \ {esc[s]} \in SUBSET D /\ Cardinality(s \ {esc[s]}) = n
    BY <1>0, <2>1
  <2> QED
    BY <1>2, <1>a, <2>1, <2>2
<1>3. Nat \subseteq T
  <2> HIDE DEF T
  <2> QED
    BY <1>1, <1>2, Inducao
<1> QED
  BY <1>0, <1>3

-----------------------------------------------------------------------------
(* Folds over a sequence: the elements are taken from the last one.        *)

\* The last of each set of positions.
Ultimo(n) == [s \in SUBSET (1 .. n) |-> CHOOSE x \in s : \A y \in s : x >= y]

\* The last position is one of those there are.
LEMMA UltimoEscolhe ==
  ASSUME NEW n \in Nat
  PROVE  IsFiniteSet(1 .. n) /\ Escolhe(Ultimo(n), 1 .. n)
<1>1. IsFiniteSet(1 .. n)
  BY FS_Interval
<1>2. ASSUME NEW s \in SUBSET (1 .. n), s # {} PROVE Ultimo(n)[s] \in s
  <2>1. (CHOOSE x \in s : \A y \in s : x >= y) \in s
    BY <1>2, MaiorDe
  <2> QED
    BY <2>1 DEF Ultimo
<1> QED
  BY <1>1, <1>2 DEF Escolhe

\* The result for each prefix, and that each follows from the one before.
Prefixos(h, n) == [k \in 0 .. n |-> h[1 .. k]]
Passos(f, n, A, base, op) ==
  f \in [0 .. n -> A] /\ f[0] = base /\ \A k \in 1 .. n : f[k] = op[<<f[k - 1], k>>]

\* A fold over the positions of a sequence is a fold over its prefixes.
LEMMA PorPrefixos ==
  ASSUME NEW n \in Nat, NEW A, NEW base, NEW op, NEW h \in [SUBSET (1 .. n) -> A],
         Percorre(h, 1 .. n, base, op, Ultimo(n))
  PROVE  Passos(Prefixos(h, n), n, A, base, op) /\ Prefixos(h, n)[n] = h[1 .. n]
<1> DEFINE f == Prefixos(h, n)
<1>1. ASSUME NEW k \in 0 .. n PROVE 1 .. k \in SUBSET (1 .. n)
  OBVIOUS
<1>2. f \in [0 .. n -> A] /\ f[n] = h[1 .. n]
  BY <1>1 DEF Prefixos
<1>3. f[0] = base
  <2>1. 1 .. 0 = {}
    OBVIOUS
  <2> QED
    BY <2>1 DEF Percorre, Prefixos
<1>4. ASSUME NEW k \in 1 .. n PROVE f[k] = op[<<f[k - 1], k>>]
  <2>1. /\ k \in 0 .. n /\ k - 1 \in 0 .. n /\ 1 .. k # {} /\ 1 .. k \in SUBSET (1 .. n)
        /\ (1 .. k) \ {k} = 1 .. (k - 1)
    OBVIOUS
  <2>2. Ultimo(n)[1 .. k] = k
    <3>1. (CHOOSE x \in 1 .. k : \A y \in 1 .. k : x >= y) = k
      OBVIOUS
    <3> QED
      BY <2>1, <3>1 DEF Ultimo
  <2>3. h[1 .. k] = op[<<h[(1 .. k) \ {k}], k>>]
    BY <2>1, <2>2 DEF Percorre
  <2> QED
    BY <2>1, <2>3 DEF Prefixos
<1> QED
  BY <1>2, <1>3, <1>4 DEF Passos

\* What a sum adds at each element.
Parcela(v) == [p \in Int \X DOMAIN v |-> p[1] + v[p[2]]]

\* A sum over a sequence is that fold.
LEMMA SomaPercorre ==
  ASSUME NEW n \in Nat, NEW v \in [1 .. n -> Int]
  PROVE  \E h \in [SUBSET (1 .. n) -> Int] :
           Percorre(h, 1 .. n, 0, Parcela(v), Ultimo(n)) /\ Soma(v) = h[1 .. n]
<1> DEFINE D == 1 .. n
           maior(s) == CHOOSE x \in s : \A y \in s : x >= y
           it == CHOOSE it : it = [s \in SUBSET DOMAIN v |->
                                     IF s = {} THEN 0 ELSE it[s \ {maior(s)}] + v[maior(s)]]
<1>1. Soma(v) = it[DOMAIN v]
  BY DEF Soma, FoldLeft, MapThenFoldSet, Max
<1>2. DOMAIN v = D /\ Parcela(v) \in [Int \X D -> Int] /\ 0 \in Int
  BY DEF Parcela
<1>3. IsFiniteSet(D) /\ Escolhe(Ultimo(n), D)
  BY UltimoEscolhe
<1>4. \A s \in SUBSET D : Ultimo(n)[s] = maior(s)
  BY DEF Ultimo
<1>5. PICK h \in [SUBSET D -> Int] : Percorre(h, D, 0, Parcela(v), Ultimo(n))
  <2> HIDE DEF D
  <2> QED
    BY <1>2, <1>3, PercorreExiste
<1> HIDE DEF maior, D
<1>6. ASSUME NEW s \in SUBSET D, s # {}
      PROVE  h[s] = h[s \ {maior(s)}] + v[maior(s)]
  <2>1. maior(s) \in D /\ h[s \ {maior(s)}] \in Int
    BY <1>3, <1>4, <1>6 DEF Escolhe
  <2> QED
    BY <1>2, <1>4, <1>5, <1>6, <2>1 DEF Percorre, Parcela
<1>7. h[{}] = 0
  BY <1>5 DEF Percorre
<1>8. h = [s \in SUBSET D |-> IF s = {} THEN 0 ELSE h[s \ {maior(s)}] + v[maior(s)]]
  BY <1>6, <1>7
<1>9. it = [s \in SUBSET D |-> IF s = {} THEN 0 ELSE it[s \ {maior(s)}] + v[maior(s)]]
  BY <1>2, <1>8, Zenon
<1> HIDE DEF it
<1>a. \A s \in SUBSET D : it[s] = IF s = {} THEN 0 ELSE it[s \ {maior(s)}] + v[maior(s)]
  <2>1. PICK g : g = [s \in SUBSET D |-> IF s = {} THEN 0 ELSE it[s \ {maior(s)}] + v[maior(s)]]
    OBVIOUS
  <2>2. \A s \in SUBSET D : g[s] = IF s = {} THEN 0 ELSE it[s \ {maior(s)}] + v[maior(s)]
    BY <2>1
  <2>3. it = g
    BY <1>9, <2>1, Zenon
  <2> QED
    BY <2>2, <2>3, Zenon
<1>10. it[{}] = h[{}]
  BY <1>7, <1>a
<1>11. ASSUME NEW s \in SUBSET D, s # {}, it[s \ {Ultimo(n)[s]}] = h[s \ {Ultimo(n)[s]}]
       PROVE  it[s] = h[s]
  <2>1. it[s] = it[s \ {maior(s)}] + v[maior(s)]
    BY <1>11, <1>a
  <2>2. it[s \ {maior(s)}] = h[s \ {maior(s)}]
    BY <1>4, <1>11
  <2> QED
    BY <1>6, <1>11, <2>1, <2>2
<1>12. it[D] = h[D]
  <2>1. Acompanha(it, h, D, Ultimo(n))
    BY <1>3, <1>10, <1>11, Zenon DEF Acompanha
  <2>2. \A s \in SUBSET D : it[s] = h[s]
    BY <2>1, MesmoPercurso
  <2> QED
    BY <2>2
<1> QED
  BY <1>1, <1>2, <1>5, <1>12 DEF D

\* The sum of a sequence, term by term.
LEMMA SomaPassos ==
  ASSUME NEW n \in Nat, NEW v \in [1 .. n -> Int]
  PROVE  \E f \in [0 .. n -> Int] : /\ f[0] = 0 /\ Soma(v) = f[n]
                                    /\ \A k \in 1 .. n : f[k] = f[k - 1] + v[k]
<1>1. PICK h \in [SUBSET (1 .. n) -> Int] :
             Percorre(h, 1 .. n, 0, Parcela(v), Ultimo(n)) /\ Soma(v) = h[1 .. n]
  BY SomaPercorre
<1>a. Percorre(h, 1 .. n, 0, Parcela(v), Ultimo(n))
  BY <1>1
<1> DEFINE f == Prefixos(h, n)
<1>b. Passos(f, n, Int, 0, Parcela(v)) /\ f[n] = h[1 .. n]
  <2>1. PICK op : op = Parcela(v)
    OBVIOUS
  <2>2. Percorre(h, 1 .. n, 0, op, Ultimo(n))
    BY <1>a, <2>1, Zenon
  <2>3. Passos(Prefixos(h, n), n, Int, 0, op) /\ Prefixos(h, n)[n] = h[1 .. n]
    BY <2>2, PorPrefixos, Zenon
  <2> QED
    BY <2>1, <2>3, Zenon
<1>2. /\ f \in [0 .. n -> Int] /\ f[0] = 0 /\ f[n] = h[1 .. n]
      /\ \A k \in 1 .. n : f[k] = Parcela(v)[<<f[k - 1], k>>]
  BY <1>b, Zenon DEF Passos
<1> HIDE DEF f
<1>3. ASSUME NEW k \in 1 .. n PROVE f[k] = f[k - 1] + v[k]
  <2>1. k - 1 \in 0 .. n /\ f[k - 1] \in Int
    BY <1>2
  <2> QED
    BY <1>2, <2>1 DEF Parcela
<1> QED
  BY <1>1, <1>2, <1>3

-----------------------------------------------------------------------------
(* The check digits of a document.                                         *)

\* A digit by two weights that make eleven.
LEMMA VezesOnze ==
  \A x, p, q \in Int : p + q = 11 => x * p + q * x = 11 * x
OBVIOUS

\* Sums whose terms add up to multiples of eleven do so too.
LEMMA SomasDeOnze ==
  ASSUME NEW n \in Nat, NEW v \in [1 .. n -> Int], NEW w \in [1 .. n -> Int],
         NEW d \in [1 .. n -> Int], \A k \in 1 .. n : v[k] + w[k] = 11 * d[k]
  PROVE  Soma(v) \in Int /\ Soma(w) \in Int /\ \E t \in Int : Soma(v) + Soma(w) = 11 * t
<1>1. PICK f \in [0 .. n -> Int] : /\ f[0] = 0 /\ Soma(v) = f[n]
                                   /\ \A k \in 1 .. n : f[k] = f[k - 1] + v[k]
  BY SomaPassos
<1>2. PICK g \in [0 .. n -> Int] : /\ g[0] = 0 /\ Soma(w) = g[n]
                                   /\ \A k \in 1 .. n : g[k] = g[k - 1] + w[k]
  BY SomaPassos
<1>3. PICK h \in [0 .. n -> Int] : /\ h[0] = 0 /\ Soma(d) = h[n]
                                   /\ \A k \in 1 .. n : h[k] = h[k - 1] + d[k]
  BY SomaPassos
<1> DEFINE T == {k \in Nat : k <= n => f[k] + g[k] = 11 * h[k]}
<1>4. 0 \in T
  BY <1>1, <1>2, <1>3
<1>5. ASSUME NEW m \in Nat, m \in T PROVE m + 1 \in T
  <2> SUFFICES ASSUME m + 1 <= n PROVE f[m + 1] + g[m + 1] = 11 * h[m + 1]
    OBVIOUS
  <2>1. m + 1 \in 1 .. n /\ m \in 0 .. n /\ (m + 1) - 1 = m
    OBVIOUS
  <2>2. /\ f[m] \in Int /\ g[m] \in Int /\ h[m] \in Int
        /\ v[m + 1] \in Int /\ w[m + 1] \in Int /\ d[m + 1] \in Int
    BY <2>1
  <2>3. /\ f[m + 1] = f[m] + v[m + 1] /\ g[m + 1] = g[m] + w[m + 1]
        /\ h[m + 1] = h[m] + d[m + 1] /\ v[m + 1] + w[m + 1] = 11 * d[m + 1]
    BY <1>1, <1>2, <1>3, <2>1
  <2>4. f[m] + g[m] = 11 * h[m]
    BY <1>5, <2>1
  <2> DEFINE a == f[m]
             b == g[m]
             c == h[m]
             x == v[m + 1]
             y == w[m + 1]
             z == d[m + 1]
  <2>a. a \in Int /\ b \in Int /\ c \in Int /\ x \in Int /\ y \in Int /\ z \in Int
        /\ a + b = 11 * c /\ x + y = 11 * z
    BY <2>2, <2>3, <2>4
  <2> HIDE DEF a, b, c, x, y, z
  <2>b. (a + x) + (b + y) = 11 * (c + z)
    BY <2>a
  <2>5. (f[m] + v[m + 1]) + (g[m] + w[m + 1]) = 11 * (h[m] + d[m + 1])
    BY <2>b, Zenon DEF a, b, c, x, y, z
  <2> QED
    BY <2>3, <2>5
<1>6. n \in T
  <2> HIDE DEF T
  <2> QED
    BY <1>4, <1>5, Inducao
<1>7. n \in 0 .. n
  OBVIOUS
<1> QED
  BY <1>1, <1>2, <1>6, <1>7

\* The two rules for a check digit: the remainder's complement and the remainder itself.
LEMMA Complemento ==
  ASSUME NEW a \in Int, NEW b \in Int, NEW t \in Int, a + b = 11 * t
  PROVE  (b % 11) % 10 = IF a % 11 < 2 THEN 0 ELSE 11 - (a % 11)
OBVIOUS

\* The check digit of the code is the one by position, for weights that complement them.
LEMMA DigitoPorPosicao ==
  ASSUME NEW n \in Nat, NEW d \in [1 .. 11 -> Int], n < 11, NEW k \in Int,
         NEW pesos \in Seq(Int), Len(pesos) = n, \A i \in 1 .. n : pesos[i] + (i + k) = 11
  PROVE  ValidarDigito(d, pesos)
           <=> d[n + 1] = (FoldLeft(+, 0, [i \in 1 .. n |-> (i + k) * d[i]]) % 11) % 10
<1> DEFINE v == [i \in 1 .. n |-> d[i] * pesos[i]]
           w == [i \in 1 .. n |-> (i + k) * d[i]]
           c == [i \in 1 .. n |-> d[i]]
<1>p. \A i \in 1 .. n : pesos[i] \in Int
  OBVIOUS
<1>q. \A i \in 1 .. n : i \in 1 .. 11 /\ i + k \in Int
  OBVIOUS
<1>0. \A i \in 1 .. n : d[i] \in Int /\ pesos[i] \in Int /\ i + k \in Int
  BY <1>p, <1>q
<1>1. v \in [1 .. n -> Int] /\ w \in [1 .. n -> Int] /\ c \in [1 .. n -> Int]
  <2>1. \A x, y \in Int : x * y \in Int
    OBVIOUS
  <2> QED
    BY <1>0, <2>1
<1>2. SomaPonderada(d, pesos) = Soma(v) /\ FoldLeft(+, 0, w) = Soma(w)
  BY DEF SomaPonderada, Soma
<1>3. ASSUME NEW i \in 1 .. n PROVE v[i] + w[i] = 11 * c[i]
  <2>1. d[i] * pesos[i] + (i + k) * d[i] = 11 * d[i]
    BY <1>0, VezesOnze, Zenon
  <2> QED
    BY <2>1
<1> HIDE DEF v, w, c
<1>4. Soma(v) \in Int /\ Soma(w) \in Int /\ \E t \in Int : Soma(v) + Soma(w) = 11 * t
  BY <1>1, <1>3, SomasDeOnze
<1>5. (Soma(w) % 11) % 10 = IF Soma(v) % 11 < 2 THEN 0 ELSE 11 - (Soma(v) % 11)
  BY <1>4, Complemento
<1>6. ValidarDigito(d, pesos) <=> d[n + 1] = IF Soma(v) % 11 < 2 THEN 0 ELSE 11 - (Soma(v) % 11)
  <2>1. SomaPonderada(d, pesos) = Soma(v)
    BY <1>2, Zenon
  <2>2. ValidarDigito(d, pesos)
          <=> d[Len(pesos) + 1] = IF SomaPonderada(d, pesos) % 11 < 2 THEN 0
                                  ELSE 11 - (SomaPonderada(d, pesos) % 11)
    BY DEF ValidarDigito
  <2> QED
    BY <2>1, <2>2, Zenon
<1> QED
  BY <1>2, <1>5, <1>6 DEF w

\* A CPF is accepted when its digits are not all the same and its two check digits
\* are what the rule by position gives for the digits before them.
THEOREM DocumentoCPF ==
  ASSUME NEW d \in Seq(Int), Len(d) = 11
  PROVE  LET peso(k, n) == (FoldLeft(+, 0, [i \in 1 .. n |-> (i + k) * d[i]]) % 11) % 10
         IN DocumentoValido(d) <=> /\ \E i \in 1 .. 11 : d[i] # d[1]
                                   /\ d[10] = peso(0, 9) /\ d[11] = peso(-1, 10)
<1> DEFINE peso(k, n) == (FoldLeft(+, 0, [i \in 1 .. n |-> (i + k) * d[i]]) % 11) % 10
           nove == <<10, 9, 8, 7, 6, 5, 4, 3, 2>>
           dez  == <<11, 10, 9, 8, 7, 6, 5, 4, 3, 2>>
<1>1. d \in [1 .. 11 -> Int]
  BY LenProperties
<1>2. nove \in Seq(Int) /\ Len(nove) = 9 /\ \A i \in 1 .. 9 : nove[i] + (i + 0) = 11
  OBVIOUS
<1>3. dez \in Seq(Int) /\ Len(dez) = 10 /\ \A i \in 1 .. 10 : dez[i] + (i + (-1)) = 11
  OBVIOUS
<1> HIDE DEF nove, dez
<1>4. ValidarDigito(d, nove)
        <=> d[9 + 1] = (FoldLeft(+, 0, [i \in 1 .. 9 |-> (i + 0) * d[i]]) % 11) % 10
  <2>1. 9 \in Nat /\ 9 < 11 /\ 0 \in Int
    OBVIOUS
  <2> QED
    BY <1>1, <1>2, <2>1, DigitoPorPosicao
<1>5. ValidarDigito(d, dez)
        <=> d[10 + 1] = (FoldLeft(+, 0, [i \in 1 .. 10 |-> (i + (-1)) * d[i]]) % 11) % 10
  <2>1. 10 \in Nat /\ 10 < 11 /\ -1 \in Int
    OBVIOUS
  <2> QED
    BY <1>1, <1>3, <2>1, DigitoPorPosicao
<1>6. 9 + 1 = 10 /\ 10 + 1 = 11 /\ DOMAIN d = 1 .. 11
  BY <1>1
<1>7. TodosIguais(d) <=> ~ \E i \in 1 .. 11 : d[i] # d[1]
  BY <1>6, Zenon DEF TodosIguais
<1>8. DocumentoValido(d) <=> ~TodosIguais(d) /\ ValidarDigito(d, nove) /\ ValidarDigito(d, dez)
  BY DEF DocumentoValido, ValidarCPF, nove, dez
<1>9. ValidarDigito(d, nove) <=> d[10] = peso(0, 9)
  BY <1>4, <1>6, Zenon
<1>10. ValidarDigito(d, dez) <=> d[11] = peso(-1, 10)
  BY <1>5, <1>6, Zenon
<1> QED
  BY <1>7, <1>8, <1>9, <1>10, Zenon

-----------------------------------------------------------------------------
(* Sums over a finite set, in whatever order.                              *)

\* it has the sum of each part of what v is defined for, whichever element goes last.
Acumula(it, v) ==
  /\ v \in [DOMAIN v -> Int] /\ it \in [SUBSET DOMAIN v -> Int] /\ it[{}] = 0
  /\ \A s \in SUBSET DOMAIN v : \A x \in s : it[s] = it[s \ {x}] + v[x]

\* The sum of the values of a function.
Total(v) == (CHOOSE it : Acumula(it, v))[DOMAIN v]

\* What takes the elements out in some order is the same for every order.
LEMMA PercorreAcumula ==
  ASSUME NEW D, IsFiniteSet(D), NEW v \in [D -> Int], NEW esc, Escolhe(esc, D),
         NEW it \in [SUBSET D -> Int], Percorre(it, D, 0, Parcela(v), esc)
  PROVE  Acumula(it, v)
<1> DEFINE Bom(s) == \A x \in s : it[s] = it[s \ {x}] + v[x]
           T == {n \in Nat : \A s \in SUBSET D : Cardinality(s) <= n => Bom(s)}
<1>0. /\ \A s \in SUBSET D : /\ Cardinality(s) \in Nat
                             /\ Cardinality(s) = 0 <=> s = {}
      /\ \A s \in SUBSET D : \A x \in s : Cardinality(s \ {x}) = Cardinality(s) - 1
  BY Tamanhos
<1>b. ASSUME NEW s \in SUBSET D, s # {}
      PROVE  esc[s] \in s /\ it[s] = it[s \ {esc[s]}] + v[esc[s]]
  <2>1. esc[s] \in s /\ it[s \ {esc[s]}] \in Int
    BY <1>b DEF Escolhe
  <2>2. Parcela(v)[<<it[s \ {esc[s]}], esc[s]>>] = it[s \ {esc[s]}] + v[esc[s]]
    BY <2>1 DEF Parcela
  <2> QED
    BY <1>b, <2>1, <2>2 DEF Percorre
<1>1. 0 \in T
  <2>1. \A s \in SUBSET D : Cardinality(s) <= 0 => s = {}
    BY <1>0
  <2> QED
    BY <2>1
<1>2. ASSUME NEW n \in Nat, n \in T PROVE n + 1 \in T
  <2>1. ASSUME NEW s \in SUBSET D, Cardinality(s) = n + 1 PROVE Bom(s)
    <3>1. \A r \in SUBSET D : Cardinality(r) <= n => Bom(r)
      BY <1>2
    <3>0. s # {}
      BY <1>0, <2>1
    <3>2. PICK e \in s : it[s] = it[s \ {e}] + v[e]
      BY <1>b, <3>0
    <3>3. ASSUME NEW x \in s PROVE Bom(s \ {x})
      <4>1. s \ {x} \in SUBSET D /\ Cardinality(s \ {x}) <= n
        BY <1>0, <2>1
      <4> HIDE DEF Bom
      <4> QED
        BY <4>1, <3>1
    <3>5. ASSUME NEW x \in s, x # e PROVE it[s] = it[s \ {x}] + v[x]
      <4>1. it[s \ {e}] = it[(s \ {e}) \ {x}] + v[x]
        BY <3>3, <3>5
      <4>2. it[s \ {x}] = it[(s \ {x}) \ {e}] + v[e]
        BY <3>3, <3>5
      <4>3. (s \ {x}) \ {e} = (s \ {e}) \ {x}
        OBVIOUS
      <4>4. it[(s \ {e}) \ {x}] \in Int /\ v[x] \in Int /\ v[e] \in Int
        OBVIOUS
      <4>5. it[s \ {x}] = it[(s \ {e}) \ {x}] + v[e]
        BY <4>2, <4>3
      <4>6. it[s] = (it[(s \ {e}) \ {x}] + v[x]) + v[e]
        BY <3>2, <4>1
      <4> DEFINE a == it[(s \ {e}) \ {x}]
      <4> HIDE DEF a
      <4>7. it[s \ {x}] = a + v[e] /\ it[s] = (a + v[x]) + v[e] /\ a \in Int
        BY <4>4, <4>5, <4>6 DEF a
      <4> QED
        BY <4>4, <4>7
    <3> QED
      BY <3>2, <3>5
  <2> HIDE DEF Bom
  <2>2. ASSUME NEW s \in SUBSET D, Cardinality(s) <= n + 1 PROVE Bom(s)
    <3>1. Cardinality(s) <= n \/ Cardinality(s) = n + 1
      BY <1>0, <2>2
    <3> QED
      BY <3>1, <2>1, <1>2
  <2> QED
    BY <2>2
<1>3. Nat \subseteq T
  <2> HIDE DEF T
  <2> QED
    BY <1>1, <1>2, Inducao
<1>4. \A s \in SUBSET D : Bom(s)
  <2> HIDE DEF Bom
  <2> TAKE s \in SUBSET D
  <2>1. Cardinality(s) \in T
    BY <1>0, <1>3
  <2> QED
    BY <2>1, <1>0
<1> QED
  BY <1>4 DEF Acumula, Percorre

\* There is a sum.
LEMMA AcumulaExiste ==
  ASSUME NEW D, IsFiniteSet(D), NEW v \in [D -> Int]
  PROVE  \E it : Acumula(it, v)
<1> DEFINE esc == [s \in SUBSET D |-> CHOOSE x \in s : TRUE]
<1>1. Escolhe(esc, D)
  BY DEF Escolhe
<1>2. Parcela(v) \in [Int \X D -> Int] /\ 0 \in Int
  BY DEF Parcela
<1> HIDE DEF esc
<1>3. PICK it \in [SUBSET D -> Int] : Percorre(it, D, 0, Parcela(v), esc)
  BY <1>1, <1>2, PercorreExiste
<1> QED
  BY <1>1, <1>3, PercorreAcumula

\* And only one.
LEMMA AcumulaUnica ==
  ASSUME NEW v, IsFiniteSet(DOMAIN v), NEW f, NEW g, Acumula(f, v), Acumula(g, v)
  PROVE  f = g
<1> DEFINE esc == [s \in SUBSET DOMAIN v |-> CHOOSE x \in s : TRUE]
<1>1. Escolhe(esc, DOMAIN v)
  BY DEF Escolhe
<1> HIDE DEF esc
<1>2. f[{}] = g[{}]
  BY DEF Acumula
<1>3. ASSUME NEW s \in SUBSET DOMAIN v, s # {}, f[s \ {esc[s]}] = g[s \ {esc[s]}]
      PROVE  f[s] = g[s]
  <2>1. esc[s] \in s
    BY <1>1, <1>3 DEF Escolhe
  <2>2. f[s] = f[s \ {esc[s]}] + v[esc[s]] /\ g[s] = g[s \ {esc[s]}] + v[esc[s]]
    BY <2>1 DEF Acumula
  <2> QED
    BY <1>3, <2>2
<1>a. Acompanha(f, g, DOMAIN v, esc)
  BY <1>1, <1>2, <1>3, Zenon DEF Acompanha
<1>4. \A s \in SUBSET DOMAIN v : f[s] = g[s]
  BY <1>a, MesmoPercurso
<1> QED
  BY <1>4 DEF Acumula

\* Total is the sum of all.
LEMMA TotalDe ==
  ASSUME NEW v, IsFiniteSet(DOMAIN v), NEW it, Acumula(it, v)
  PROVE  Total(v) = it[DOMAIN v] /\ Total(v) \in Int
<1>1. it = CHOOSE f : Acumula(f, v)
  BY AcumulaUnica
<1> QED
  BY <1>1 DEF Total, Acumula

\* The sum of a sequence is the sum of its values.
LEMMA SomaTotal ==
  ASSUME NEW n \in Nat, NEW v \in [1 .. n -> Int]
  PROVE  Soma(v) = Total(v) /\ Soma(v) \in Int
<1>1. PICK h \in [SUBSET (1 .. n) -> Int] :
             Percorre(h, 1 .. n, 0, Parcela(v), Ultimo(n)) /\ Soma(v) = h[1 .. n]
  BY SomaPercorre
<1>2. IsFiniteSet(1 .. n) /\ Escolhe(Ultimo(n), 1 .. n)
  BY UltimoEscolhe
<1>3. Acumula(h, v)
  BY <1>1, <1>2, PercorreAcumula
<1> QED
  BY <1>1, <1>2, <1>3, TotalDe

\* A sum over a part of the elements.
LEMMA TotalParte ==
  ASSUME NEW v, IsFiniteSet(DOMAIN v), NEW it, Acumula(it, v), NEW s \in SUBSET DOMAIN v
  PROVE  Total([x \in s |-> v[x]]) = it[s] /\ it[s] \in Int
<1> DEFINE w == [x \in s |-> v[x]]
           h == [r \in SUBSET s |-> it[r]]
<1>1. \A r \in SUBSET s : r \in SUBSET DOMAIN v
  OBVIOUS
<1>2. h \in [SUBSET s -> Int] /\ h[{}] = 0
  BY <1>1 DEF Acumula
<1>3. ASSUME NEW r \in SUBSET s, NEW x \in r PROVE h[r] = h[r \ {x}] + w[x]
  BY <1>1 DEF Acumula
<1>4. Acumula(h, w) /\ DOMAIN w = s /\ h[s] = it[s]
  BY <1>2, <1>3 DEF Acumula
<1>5. IsFiniteSet(s)
  BY FS_Subset
<1> HIDE DEF w, h
<1>6. Total(w) = it[s] /\ Total(w) \in Int
  BY <1>4, <1>5, TotalDe
<1> QED
  BY <1>6 DEF w

\* A sum over two disjoint parts.
LEMMA TotalDisjunto ==
  ASSUME NEW v, IsFiniteSet(DOMAIN v), NEW it, Acumula(it, v), NEW a \in SUBSET DOMAIN v,
         NEW b \in SUBSET DOMAIN v, a \cap b = {}
  PROVE  it[a \cup b] = it[a] + it[b]
<1> DEFINE esc == [s \in SUBSET b |-> CHOOSE x \in s : TRUE]
           f == [s \in SUBSET b |-> it[a \cup s]]
           g == [s \in SUBSET b |-> it[a] + it[s]]
<1>1. Escolhe(esc, b) /\ IsFiniteSet(b)
  BY FS_Subset DEF Escolhe
<1>2. \A s \in SUBSET b : s \in SUBSET DOMAIN v /\ a \cup s \in SUBSET DOMAIN v
  OBVIOUS
<1>3. f[{}] = g[{}]
  <2>1. a \cup {} = a /\ it[a] \in Int /\ it[{}] = 0
    BY DEF Acumula
  <2> QED
    BY <2>1
<1>4. ASSUME NEW s \in SUBSET b, s # {}, f[s \ {esc[s]}] = g[s \ {esc[s]}]
      PROVE  f[s] = g[s]
  <2> DEFINE e == esc[s]
  <2>1. e \in s /\ s \ {e} \in SUBSET b /\ (a \cup s) \ {e} = a \cup (s \ {e})
    BY <1>1, <1>4 DEF Escolhe
  <2> HIDE DEF esc, e
  <2>2. it[a \cup s] = it[a \cup (s \ {e})] + v[e] /\ it[s] = it[s \ {e}] + v[e]
    BY <1>2, <2>1 DEF Acumula
  <2>3. it[a \cup (s \ {e})] = it[a] + it[s \ {e}]
    BY <1>4, <2>1 DEF e
  <2> DEFINE x == it[a]
             y == it[s \ {e}]
             z == v[e]
  <2>4. x \in Int /\ y \in Int /\ z \in Int
    <3>1. it[s \ {e}] \in Int /\ it[a] \in Int
      BY <1>2, <2>1 DEF Acumula
    <3>2. v[e] \in Int
      BY <1>2, <2>1 DEF Acumula
    <3> QED
      BY <3>1, <3>2
  <2>5. it[a \cup s] = (x + y) + z /\ it[a] + it[s] = x + (y + z)
    BY <2>2, <2>3
  <2> HIDE DEF x, y, z
  <2> QED
    BY <2>4, <2>5
<1> HIDE DEF esc, f, g
<1>a. Acompanha(f, g, b, esc)
  BY <1>1, <1>3, <1>4, Zenon DEF Acompanha
<1>5. \A s \in SUBSET b : f[s] = g[s]
  BY <1>a, MesmoPercurso
<1> QED
  BY <1>5 DEF f, g

\* The sum of what g puts together, for each element of I.
Fibras(v, g, I) == [i \in I |-> Total([x \in {y \in DOMAIN v : g[y] = i} |-> v[x]])]

\* A sum is the sum of these sums.
LEMMA TotalFibras ==
  ASSUME NEW D, IsFiniteSet(D), NEW v \in [D -> Int], NEW I, IsFiniteSet(I), NEW g \in [D -> I]
  PROVE  Total(v) = Total(Fibras(v, g, I))
<1>1. PICK it : Acumula(it, v)
  BY AcumulaExiste
<1> DEFINE fibra(i) == {y \in D : g[y] = i}
           w == [i \in I |-> Total([x \in fibra(i) |-> v[x]])]
           h == [s \in SUBSET I |-> it[{y \in D : g[y] \in s}]]
<1>2. DOMAIN v = D /\ DOMAIN w = I
  OBVIOUS
<1>3. \A i \in I : w[i] = it[fibra(i)] /\ it[fibra(i)] \in Int
  BY <1>1, <1>2, TotalParte
<1>4. h \in [SUBSET I -> Int]
  BY <1>1, <1>2 DEF Acumula
<1>5. h[{}] = 0
  <2>1. {y \in D : g[y] \in {}} = {}
    OBVIOUS
  <2> QED
    BY <1>1, <2>1 DEF Acumula
<1>6. ASSUME NEW s \in SUBSET I, NEW i \in s PROVE h[s] = h[s \ {i}] + w[i]
  <2> DEFINE a == {y \in D : g[y] \in s \ {i}}
  <2>1. /\ {y \in D : g[y] \in s} = a \cup fibra(i) /\ a \cap fibra(i) = {}
        /\ a \in SUBSET DOMAIN v /\ fibra(i) \in SUBSET DOMAIN v
    OBVIOUS
  <2> HIDE DEF fibra
  <2>2. it[a \cup fibra(i)] = it[a] + it[fibra(i)]
    BY <1>1, <1>2, <2>1, TotalDisjunto
  <2> QED
    BY <1>3, <2>1, <2>2
<1>t. w \in [I -> Int]
  BY <1>3
<1> HIDE DEF w, h, fibra
<1>7. Acumula(h, w)
  BY <1>2, <1>4, <1>5, <1>6, <1>t DEF Acumula
<1>8. Total(w) = h[I] /\ Total(v) = it[D]
  BY <1>1, <1>2, <1>7, TotalDe
<1>9. h[I] = it[D]
  <2>1. {y \in D : g[y] \in I} = D
    OBVIOUS
  <2> QED
    BY <2>1 DEF h
<1> QED
  <2>1. w = Fibras(v, g, I)
    BY <1>2 DEF w, fibra, Fibras
  <2> QED
    BY <1>8, <1>9, <2>1

\* Sums over two sets that correspond to each other are equal.
LEMMA TotalBijecao ==
  ASSUME NEW D, IsFiniteSet(D), NEW C, NEW b \in Bijection(D, C), NEW w \in [C -> Int]
  PROVE  Total([x \in D |-> w[b[x]]]) = Total(w) /\ Total(w) \in Int
<1>1. /\ b \in [D -> C] /\ \A x, y \in D : b[x] = b[y] => x = y
      /\ \A y \in C : \E x \in D : b[x] = y
  BY DEF Bijection, Injection, Surjection, IsInjective
<1>2. IsFiniteSet(C)
  BY FS_Bijection DEF ExistsBijection
<1>3. PICK it : Acumula(it, w)
  BY <1>2, AcumulaExiste
<1> DEFINE v == [x \in D |-> w[b[x]]]
           im(s) == {b[x] : x \in s}
           h == [s \in SUBSET D |-> it[im(s)]]
<1>4. \A s \in SUBSET D : im(s) \in SUBSET C
  BY <1>1
<1>5. h \in [SUBSET D -> Int] /\ h[{}] = 0
  <2>1. im({}) = {}
    OBVIOUS
  <2> HIDE DEF im
  <2> QED
    BY <1>3, <1>4, <2>1 DEF Acumula
<1>6. ASSUME NEW s \in SUBSET D, NEW x \in s PROVE h[s] = h[s \ {x}] + v[x]
  <2>1. im(s) \ {b[x]} = im(s \ {x}) /\ b[x] \in im(s)
    BY <1>1
  <2>2. s \in SUBSET D /\ s \ {x} \in SUBSET D /\ x \in D
    OBVIOUS
  <2> HIDE DEF im
  <2>3. h[s] = it[im(s)] /\ h[s \ {x}] = it[im(s \ {x})] /\ v[x] = w[b[x]]
    BY <2>2
  <2>4. it[im(s)] = it[im(s) \ {b[x]}] + w[b[x]]
    BY <1>3, <1>4, <2>1 DEF Acumula
  <2> QED
    BY <2>1, <2>3, <2>4
<1>t. v \in [D -> Int] /\ DOMAIN v = D
  BY <1>1
<1> HIDE DEF h, v, im
<1>7. Acumula(h, v)
  BY <1>5, <1>6, <1>t DEF Acumula
<1>8. im(D) = C
  BY <1>1 DEF im
<1>9. Total(v) = h[D] /\ Total(w) = it[C] /\ Total(w) \in Int
  BY <1>2, <1>3, <1>7, <1>t, TotalDe
<1> QED
  BY <1>8, <1>9 DEF h, v

\* f joins the first m sequences of ss.
Junta(f, ss, m) ==
  f = [i \in 1 .. m |-> IF i = 1 THEN ss[i] ELSE f[i - 1] \o ss[i]]

\* There is such a function.
LEMMA JuntaExiste ==
  ASSUME NEW ss, NEW n \in Nat
  PROVE  \E f : Junta(f, ss, n)
<1> DEFINE T == {m \in Nat : \E f : Junta(f, ss, m)}
<1>1. 0 \in T
  <2> DEFINE f == [i \in {} |-> 0]
  <2>1. 1 .. 0 = {}
    OBVIOUS
  <2>2. f = [i \in 1 .. 0 |-> IF i = 1 THEN ss[i] ELSE f[i - 1] \o ss[i]]
    BY <2>1
  <2> QED
    BY <2>2 DEF Junta
<1>2. ASSUME NEW m \in Nat, m \in T PROVE m + 1 \in T
  <2>1. PICK f : Junta(f, ss, m)
    BY <1>2
  <2> DEFINE g == [i \in 1 .. m + 1 |-> IF i <= m THEN f[i]
                                        ELSE IF i = 1 THEN ss[i] ELSE f[i - 1] \o ss[i]]
  <2>2. ASSUME NEW i \in 1 .. m + 1 PROVE g[i] = IF i = 1 THEN ss[i] ELSE g[i - 1] \o ss[i]
    <3>1. i # 1 => i - 1 \in 1 .. m + 1 /\ i - 1 <= m
      OBVIOUS
    <3>2. i # 1 => g[i - 1] = f[i - 1]
      BY <3>1
    <3>3. CASE i <= m
      <4>1. i \in 1 .. m
        BY <3>3
      <4>2. f[i] = IF i = 1 THEN ss[i] ELSE f[i - 1] \o ss[i]
        BY <2>1, <4>1 DEF Junta
      <4>3. g[i] = f[i]
        BY <3>3
      <4> HIDE DEF g
      <4> QED
        BY <3>2, <4>2, <4>3
    <3>4. CASE ~(i <= m)
      <4>1. g[i] = IF i = 1 THEN ss[i] ELSE f[i - 1] \o ss[i]
        BY <3>4
      <4> HIDE DEF g
      <4> QED
        BY <3>2, <4>1
    <3> QED
      BY <3>3, <3>4
  <2>3. g = [i \in 1 .. m + 1 |-> g[i]]
    OBVIOUS
  <2> HIDE DEF g
  <2>4. Junta(g, ss, m + 1)
    BY <2>2, <2>3 DEF Junta
  <2> QED
    BY <2>4
<1>3. n \in T
  <2> HIDE DEF T
  <2> QED
    BY <1>1, <1>2, Inducao
<1> QED
  BY <1>3

\* FlattenSeq of a sequence of sequences, one after the other.
LEMMA AchatarPassos ==
  ASSUME NEW ss, NEW n \in Nat \ {0}, Len(ss) = n
  PROVE  \E f : Junta(f, ss, n) /\ FlattenSeq(ss) = f[n]
<1> DEFINE f == CHOOSE f : f = [i \in 1 .. Len(ss) |-> IF i = 1 THEN ss[i] ELSE f[i - 1] \o ss[i]]
<1>1. FlattenSeq(ss) = f[n]
  BY DEF FlattenSeq
<1>2. \E g : g = [i \in 1 .. Len(ss) |-> IF i = 1 THEN ss[i] ELSE g[i - 1] \o ss[i]]
  BY JuntaExiste DEF Junta
<1>3. f = [i \in 1 .. Len(ss) |-> IF i = 1 THEN ss[i] ELSE f[i - 1] \o ss[i]]
  BY <1>2, Zenon
<1> HIDE DEF f
<1>4. Junta(f, ss, n)
  BY <1>3 DEF Junta
<1> QED
  BY <1>1, <1>4


\* r and c say which element of which of the first m sequences each element of t is.
Localiza(r, c, t, ss, m) ==
  /\ \A z \in 1 .. Len(t) : /\ r[z] \in 1 .. m /\ c[z] \in 1 .. Len(ss[r[z]])
                            /\ t[z] = ss[r[z]][c[z]]
  /\ \A z, w \in 1 .. Len(t) : r[z] = r[w] /\ c[z] = c[w] => z = w
  /\ \A x \in 1 .. m : \A y \in 1 .. Len(ss[x]) : \E z \in 1 .. Len(t) : r[z] = x /\ c[z] = y

\* One more sequence joined leaves the others where they are.
LEMMA LocalizaMais ==
  ASSUME NEW S, NEW m \in Nat, NEW ss, NEW t \in Seq(S), ss[m + 1] \in Seq(S), NEW r, NEW c,
         Localiza(r, c, t, ss, m)
  PROVE  \E rr, cc : Localiza(rr, cc, t \o ss[m + 1], ss, m + 1)
<1> DEFINE u == ss[m + 1]
           a == Len(t)
           b == Len(u)
           rr == [z \in 1 .. a + b |-> IF z <= a THEN r[z] ELSE m + 1]
           cc == [z \in 1 .. a + b |-> IF z <= a THEN c[z] ELSE z - a]
           j == t \o u
<1>1. a \in Nat /\ b \in Nat
  OBVIOUS
<1>2. Len(j) = a + b /\ \A z \in 1 .. a + b : j[z] = IF z <= a THEN t[z] ELSE u[z - a]
  BY ConcatProperties
<1>3. \A z \in 1 .. a + b : z <= a => z \in 1 .. a /\ rr[z] = r[z] /\ cc[z] = c[z] /\ j[z] = t[z]
  BY <1>1, <1>2
<1>4. \A z \in 1 .. a + b : ~(z <= a) => z - a \in 1 .. b /\ rr[z] = m + 1 /\ cc[z] = z - a
                                         /\ j[z] = u[z - a]
  BY <1>1, <1>2
<1>5. \A z \in 1 .. a : z \in 1 .. a + b /\ z <= a
  BY <1>1
<1>6. \A y \in 1 .. b : a + y \in 1 .. a + b /\ ~(a + y <= a) /\ (a + y) - a = y
  BY <1>1
<1>7. /\ u = ss[m + 1] /\ b = Len(ss[m + 1]) /\ m + 1 \in 1 .. m + 1
      /\ \A x \in 1 .. m : x \in 1 .. m + 1 /\ x # m + 1
      /\ \A x \in 1 .. m + 1 : x = m + 1 \/ x \in 1 .. m
  OBVIOUS
<1>l. /\ \A z \in 1 .. a : /\ r[z] \in 1 .. m /\ c[z] \in 1 .. Len(ss[r[z]])
                           /\ t[z] = ss[r[z]][c[z]]
      /\ \A z, w \in 1 .. a : r[z] = r[w] /\ c[z] = c[w] => z = w
      /\ \A x \in 1 .. m : \A y \in 1 .. Len(ss[x]) : \E z \in 1 .. a : r[z] = x /\ c[z] = y
  BY DEF Localiza
<1> HIDE DEF rr, cc, j, a, b, u
<1>8. ASSUME NEW z \in 1 .. Len(j)
      PROVE  /\ rr[z] \in 1 .. m + 1 /\ cc[z] \in 1 .. Len(ss[rr[z]])
             /\ j[z] = ss[rr[z]][cc[z]]
  <2>0. z \in 1 .. a + b
    BY <1>2
  <2>1. CASE z <= a
    BY <1>3, <1>7, <1>l, <2>0, <2>1
  <2>2. CASE ~(z <= a)
    BY <1>4, <1>7, <2>0, <2>2
  <2> QED
    BY <2>1, <2>2
<1>9. ASSUME NEW z \in 1 .. Len(j), NEW w \in 1 .. Len(j), rr[z] = rr[w], cc[z] = cc[w]
      PROVE  z = w
  <2>0. z \in 1 .. a + b /\ w \in 1 .. a + b
    BY <1>2
  <2>1. CASE z <= a /\ w <= a
    BY <1>3, <1>9, <1>l, <2>0, <2>1
  <2>2. CASE ~(z <= a) /\ ~(w <= a)
    <3>1. z - a = w - a
      BY <1>4, <1>9, <2>0, <2>2
    <3> QED
      BY <1>1, <2>0, <3>1
  <2>3. ~(z <= a /\ ~(w <= a)) /\ ~(w <= a /\ ~(z <= a))
    BY <1>3, <1>4, <1>7, <1>9, <1>l, <2>0
  <2> QED
    BY <2>1, <2>2, <2>3
<1>10. ASSUME NEW x \in 1 .. m + 1, NEW y \in 1 .. Len(ss[x])
       PROVE  \E z \in 1 .. Len(j) : rr[z] = x /\ cc[z] = y
  <2>1. CASE x = m + 1
    <3>1. y \in 1 .. b
      BY <1>7, <2>1
    <3>2. a + y \in 1 .. Len(j) /\ rr[a + y] = x /\ cc[a + y] = y
      BY <1>2, <1>4, <1>6, <2>1, <3>1
    <3> QED
      BY <3>2
  <2>2. CASE x \in 1 .. m
    <3>1. PICK z \in 1 .. a : r[z] = x /\ c[z] = y
      BY <1>l, <2>2
    <3> QED
      BY <1>2, <1>3, <1>5, <3>1
  <2> QED
    BY <1>7, <2>1, <2>2
<1>11. Localiza(rr, cc, j, ss, m + 1)
  BY <1>8, <1>9, <1>10 DEF Localiza
<1> QED
  BY <1>11 DEF j, u

\* Every element of the sequences is once in what FlattenSeq makes of them, and nothing
\* else is.
LEMMA Achatar ==
  ASSUME NEW S, NEW ss \in Seq(Seq(S))
  PROVE  FlattenSeq(ss) \in Seq(S) /\ \E r, c : Localiza(r, c, FlattenSeq(ss), ss, Len(ss))
<1> DEFINE n == Len(ss)
<1>1. n \in Nat /\ \A i \in 1 .. n : ss[i] \in Seq(S)
  OBVIOUS
<1>2. CASE n = 0
  <2>1. FlattenSeq(ss) = ss
    BY <1>2 DEF FlattenSeq
  <2>2. ss \in Seq(S)
    BY <1>2
  <2>3. 1 .. 0 = {}
    OBVIOUS
  <2>4. Localiza(<<>>, <<>>, ss, ss, n)
    BY <1>2, <2>3 DEF Localiza
  <2> QED
    BY <2>1, <2>2, <2>4
<1>3. CASE n # 0
  <2>1. PICK f : Junta(f, ss, n) /\ FlattenSeq(ss) = f[n]
    BY <1>1, <1>3, AchatarPassos
  <2> HIDE DEF n
  <2> DEFINE Feito(m) == f[m] \in Seq(S) /\ \E r, c : Localiza(r, c, f[m], ss, m)
             T == {m \in Nat : m + 1 \in 1 .. n => Feito(m + 1)}
  <2>2. 0 \in T
    <3>1. 1 \in 1 .. n /\ 0 + 1 = 1
      BY <1>1, <1>3
    <3>2. f[1] = ss[1] /\ f[1] \in Seq(S)
      BY <1>1, <2>1, <3>1 DEF Junta
    <3> DEFINE r == [z \in 1 .. Len(f[1]) |-> 1]
               c == [z \in 1 .. Len(f[1]) |-> z]
    <3>3. \A x \in 1 .. 1 : x = 1
      OBVIOUS
    <3>4. /\ \A z \in 1 .. Len(f[1]) : r[z] = 1 /\ c[z] = z
          /\ 1 \in 1 .. 1
      OBVIOUS
    <3> HIDE DEF r, c
    <3>5. Localiza(r, c, f[1], ss, 1)
      BY <3>2, <3>3, <3>4 DEF Localiza
    <3>6. Feito(1)
      BY <3>2, <3>5
    <3> HIDE DEF Feito
    <3> QED
      BY <3>1, <3>6
  <2>3. ASSUME NEW m \in Nat, m \in T PROVE m + 1 \in T
    <3> SUFFICES ASSUME (m + 1) + 1 \in 1 .. n PROVE Feito((m + 1) + 1)
      OBVIOUS
    <3> DEFINE k == m + 1
    <3>1. k \in Nat /\ k \in 1 .. n /\ k + 1 \in 1 .. n /\ k + 1 # 1 /\ (k + 1) - 1 = k
      BY <1>1
    <3>2. f[k] \in Seq(S) /\ \E r, c : Localiza(r, c, f[k], ss, k)
      BY <2>3, <3>1
    <3> HIDE DEF k
    <3>3. f[k + 1] = f[k] \o ss[k + 1] /\ ss[k + 1] \in Seq(S)
      BY <1>1, <2>1, <3>1 DEF Junta
    <3>4. PICK r, c : Localiza(r, c, f[k], ss, k)
      BY <3>2
    <3>5. \E rr, cc : Localiza(rr, cc, f[k] \o ss[k + 1], ss, k + 1)
      BY <3>1, <3>2, <3>3, <3>4, LocalizaMais
    <3>6. f[k] \o ss[k + 1] \in Seq(S)
      BY <3>2, <3>3, ConcatProperties
    <3>7. Feito(k + 1)
      BY <3>3, <3>5, <3>6
    <3> QED
      BY <3>7 DEF k
  <2>4. Nat \subseteq T
    <3> HIDE DEF T
    <3> QED
      BY <2>2, <2>3, Inducao
  <2>5. n - 1 \in Nat /\ (n - 1) + 1 = n /\ n \in 1 .. n
    BY <1>1, <1>3
  <2>6. Feito(n)
    <3> HIDE DEF Feito
    <3> QED
      BY <2>4, <2>5
  <2> QED
    BY <2>1, <2>6 DEF n
<1> QED
  BY <1>2, <1>3

\* A bijection, from what makes it one and back.
LEMMA Bijetora ==
  ASSUME NEW D, NEW C, NEW b
  PROVE  b \in Bijection(D, C) <=> /\ b \in [D -> C]
                                   /\ \A x, y \in D : b[x] = b[y] => x = y
                                   /\ \A y \in C : \E x \in D : b[x] = y
BY DEF Bijection, Injection, Surjection, IsInjective

\* The positions of the elements of a sequence of sequences.
Pares(ss) == UNION {{x} \X DOMAIN ss[x] : x \in DOMAIN ss}

\* A pair of Pares, by its elements.
LEMMA ParDe ==
  ASSUME NEW ss
  PROVE  /\ \A x \in DOMAIN ss : \A y \in DOMAIN ss[x] : <<x, y>> \in Pares(ss)
         /\ \A p \in Pares(ss) : /\ p[1] \in DOMAIN ss /\ p[2] \in DOMAIN ss[p[1]]
                                 /\ p = <<p[1], p[2]>>
BY DEF Pares

\* FlattenSeq puts each of these positions in a place of its own.
LEMMA AchatarBijecao ==
  ASSUME NEW S, NEW ss \in Seq(Seq(S))
  PROVE  /\ FlattenSeq(ss) \in Seq(S)
         /\ \E b \in Bijection(DOMAIN FlattenSeq(ss), Pares(ss)) :
              \A z \in DOMAIN FlattenSeq(ss) : FlattenSeq(ss)[z] = ss[b[z][1]][b[z][2]]
<1> DEFINE t == FlattenSeq(ss)
<1>1. PICK r, c : Localiza(r, c, t, ss, Len(ss))
  BY Achatar
<1>2. t \in Seq(S)
  BY Achatar
<1> HIDE DEF t
<1>3. /\ DOMAIN t = 1 .. Len(t) /\ DOMAIN ss = 1 .. Len(ss)
      /\ \A x \in DOMAIN ss : DOMAIN ss[x] = 1 .. Len(ss[x])
  BY <1>2
<1>l. /\ \A z \in DOMAIN t : /\ r[z] \in DOMAIN ss /\ c[z] \in DOMAIN ss[r[z]]
                             /\ t[z] = ss[r[z]][c[z]]
      /\ \A z, w \in DOMAIN t : r[z] = r[w] /\ c[z] = c[w] => z = w
      /\ \A x \in DOMAIN ss : \A y \in DOMAIN ss[x] : \E z \in DOMAIN t : r[z] = x /\ c[z] = y
  <2>1. /\ \A z \in 1 .. Len(t) : /\ r[z] \in 1 .. Len(ss) /\ c[z] \in 1 .. Len(ss[r[z]])
                                  /\ t[z] = ss[r[z]][c[z]]
        /\ \A z, w \in 1 .. Len(t) : r[z] = r[w] /\ c[z] = c[w] => z = w
        /\ \A x \in 1 .. Len(ss) : \A y \in 1 .. Len(ss[x]) :
             \E z \in 1 .. Len(t) : r[z] = x /\ c[z] = y
    BY <1>1 DEF Localiza
  <2>2. ASSUME NEW z \in DOMAIN t
        PROVE  r[z] \in DOMAIN ss /\ c[z] \in DOMAIN ss[r[z]] /\ t[z] = ss[r[z]][c[z]]
    BY <1>3, <2>1
  <2>3. ASSUME NEW x \in DOMAIN ss, NEW y \in DOMAIN ss[x]
        PROVE  \E z \in DOMAIN t : r[z] = x /\ c[z] = y
    <3>1. x \in 1 .. Len(ss) /\ y \in 1 .. Len(ss[x])
      BY <1>3
    <3>2. PICK z \in 1 .. Len(t) : r[z] = x /\ c[z] = y
      BY <2>1, <3>1
    <3> QED
      BY <1>3, <3>2
  <2>4. \A z, w \in DOMAIN t : r[z] = r[w] /\ c[z] = c[w] => z = w
    BY <1>3, <2>1
  <2> QED
    BY <2>2, <2>3, <2>4
<1> DEFINE b == [z \in DOMAIN t |-> <<r[z], c[z]>>]
<1>4. \A z \in DOMAIN t : b[z] = <<r[z], c[z]>> /\ b[z][1] = r[z] /\ b[z][2] = c[z]
  OBVIOUS
<1>5. b \in [DOMAIN t -> Pares(ss)]
  BY <1>l, ParDe
<1> HIDE DEF b
<1>6. \A z, w \in DOMAIN t : b[z] = b[w] => z = w
  BY <1>l, <1>4
<1>7. ASSUME NEW p \in Pares(ss) PROVE \E z \in DOMAIN t : b[z] = p
  <2>1. p[1] \in DOMAIN ss /\ p[2] \in DOMAIN ss[p[1]] /\ p = <<p[1], p[2]>>
    BY ParDe
  <2>2. PICK z \in DOMAIN t : r[z] = p[1] /\ c[z] = p[2]
    BY <1>l, <2>1
  <2>3. b[z] = <<r[z], c[z]>>
    BY <1>4, Zenon
  <2>4. b[z] = p
    BY <2>1, <2>2, <2>3, Zenon
  <2> QED
    BY <2>4, Zenon
<1>8. b \in Bijection(DOMAIN t, Pares(ss))
  BY <1>5, <1>6, <1>7, Bijetora
<1>9. ASSUME NEW z \in DOMAIN t PROVE t[z] = ss[b[z][1]][b[z][2]]
  <2>1. t[z] = ss[r[z]][c[z]] /\ b[z][1] = r[z] /\ b[z][2] = c[z]
    BY <1>l, <1>4
  <2> QED
    BY <2>1, Zenon
<1> QED
  BY <1>2, <1>8, <1>9 DEF t

\* The elements of s that are in V, in order, and that b says which of s each one is.
Retidos(s, V) == FlattenSeq([i \in DOMAIN s |-> IF s[i] \in V THEN <<s[i]>> ELSE <<>>])
Retem(b, t, s, C) == b \in Bijection(DOMAIN t, C) /\ \A z \in DOMAIN t : t[z] = s[b[z]]

\* What a filter keeps is what serves, each element in a place of its own.
LEMMA FiltrarBijecao ==
  ASSUME NEW S, NEW s \in Seq(S), NEW V
  PROVE  /\ Retidos(s, V) \in Seq(S)
         /\ \E b : Retem(b, Retidos(s, V), s, {i \in DOMAIN s : s[i] \in V})
<1> DEFINE ss == [i \in DOMAIN s |-> IF s[i] \in V THEN <<s[i]>> ELSE <<>>]
           t == FlattenSeq(ss)
           C == {i \in DOMAIN s : s[i] \in V}
<1>1. Retidos(s, V) = t
  BY DEF Retidos
<1>2. \A i \in DOMAIN s : s[i] \in S /\ ss[i] = IF s[i] \in V THEN <<s[i]>> ELSE <<>>
  OBVIOUS
<1>3. ss \in Seq(Seq(S))
  <2>1. \A e \in S : <<e>> \in Seq(S)
    OBVIOUS
  <2>2. \A i \in DOMAIN s : ss[i] \in Seq(S)
    BY <1>2, <2>1
  <2>3. DOMAIN s = 1 .. Len(s) /\ Len(s) \in Nat
    OBVIOUS
  <2> QED
    BY <2>2, <2>3
<1>4. DOMAIN ss = DOMAIN s
  OBVIOUS
<1>5. \A i \in C : DOMAIN ss[i] = {1} /\ ss[i][1] = s[i]
  OBVIOUS
<1>6. \A i \in DOMAIN s \ C : DOMAIN ss[i] = {}
  <2>1. DOMAIN <<>> = {}
    OBVIOUS
  <2> QED
    BY <1>2, <2>1
<1> HIDE DEF ss
<1>7. PICK b \in Bijection(DOMAIN t, Pares(ss)) : \A z \in DOMAIN t : t[z] = ss[b[z][1]][b[z][2]]
  BY <1>3, AchatarBijecao
<1>8. t \in Seq(S)
  BY <1>3, AchatarBijecao
<1> HIDE DEF t
<1>9. /\ b \in [DOMAIN t -> Pares(ss)] /\ \A x, y \in DOMAIN t : b[x] = b[y] => x = y
      /\ \A y \in Pares(ss) : \E x \in DOMAIN t : b[x] = y
  BY Bijetora
<1>10. \A p \in Pares(ss) : p[1] \in C /\ p[2] = 1 /\ p = <<p[1], 1>>
  BY <1>4, <1>5, <1>6, ParDe
<1>11. \A i \in C : <<i, 1>> \in Pares(ss) /\ <<i, 1>>[1] = i
  BY <1>4, <1>5, ParDe
<1> DEFINE g == [z \in DOMAIN t |-> b[z][1]]
<1>12. \A z \in DOMAIN t : g[z] = b[z][1] /\ b[z] = <<g[z], 1>> /\ t[z] = s[g[z]]
  BY <1>5, <1>7, <1>9, <1>10
<1>13. g \in [DOMAIN t -> C]
  BY <1>9, <1>10
<1> HIDE DEF g, C
<1>14. \A z, w \in DOMAIN t : g[z] = g[w] => z = w
  BY <1>9, <1>12
<1>15. ASSUME NEW i \in C PROVE \E z \in DOMAIN t : g[z] = i
  <2>1. PICK z \in DOMAIN t : b[z] = <<i, 1>>
    BY <1>9, <1>11
  <2>2. g[z] = <<i, 1>>[1]
    BY <1>12, <2>1
  <2> QED
    BY <1>11, <2>2
<1>16. g \in Bijection(DOMAIN t, C)
  BY <1>13, <1>14, <1>15, Bijetora
<1> QED
  BY <1>1, <1>8, <1>12, <1>16 DEF C, Retem

-----------------------------------------------------------------------------
(* Sums over sets.                                                         *)

\* The recursion of MapThenSumSet: an element is taken out, whichever.
Escolhida(it, C, v) ==
  it = [s \in SUBSET C |-> IF s = {} THEN 0
                           ELSE v[CHOOSE x \in s : TRUE] + it[s \ {CHOOSE x \in s : TRUE}]]

\* There is one function that does so, and its value for the whole set is the sum.
LEMMA EscolhidaTotal ==
  ASSUME NEW C, IsFiniteSet(C), NEW v \in [C -> Int]
  PROVE  /\ \E it : Escolhida(it, C, v)
         /\ \A it : Escolhida(it, C, v) => it[C] = Total(v)
<1> DEFINE um(s) == CHOOSE x \in s : TRUE
           esc == [s \in SUBSET C |-> um(s)]
<1>1. Escolhe(esc, C)
  BY DEF Escolhe
<1>2. Parcela(v) \in [Int \X C -> Int] /\ 0 \in Int
  BY DEF Parcela
<1>3. \A s \in SUBSET C : esc[s] = um(s)
  OBVIOUS
<1> HIDE DEF esc
<1>4. PICK h \in [SUBSET C -> Int] : Percorre(h, C, 0, Parcela(v), esc)
  BY <1>1, <1>2, PercorreExiste
<1>5. Acumula(h, v) /\ DOMAIN v = C
  BY <1>1, <1>4, PercorreAcumula
<1>6. Total(v) = h[C]
  BY <1>5, TotalDe
<1> HIDE DEF um
<1>7. ASSUME NEW s \in SUBSET C, s # {} PROVE h[s] = v[um(s)] + h[s \ {um(s)}]
  <2>1. um(s) \in s /\ h[s \ {um(s)}] \in Int /\ v[um(s)] \in Int
    BY <1>1, <1>3, <1>7 DEF Escolhe
  <2>2. h[s] = h[s \ {um(s)}] + v[um(s)]
    BY <1>5, <2>1 DEF Acumula
  <2> QED
    BY <2>1, <2>2
<1>8. h[{}] = 0
  BY <1>5 DEF Acumula
<1>9. h = [s \in SUBSET C |-> IF s = {} THEN 0 ELSE v[um(s)] + h[s \ {um(s)}]]
  BY <1>7, <1>8
<1>10. Escolhida(h, C, v)
  BY <1>9 DEF Escolhida, um
<1>11. ASSUME NEW it, Escolhida(it, C, v) PROVE it[C] = h[C]
  <2>1. it = [s \in SUBSET C |-> IF s = {} THEN 0 ELSE v[um(s)] + it[s \ {um(s)}]]
    BY <1>11 DEF Escolhida, um
  <2>a. \A s \in SUBSET C : it[s] = IF s = {} THEN 0 ELSE v[um(s)] + it[s \ {um(s)}]
    <3>1. PICK g : g = [s \in SUBSET C |-> IF s = {} THEN 0 ELSE v[um(s)] + it[s \ {um(s)}]]
      OBVIOUS
    <3>2. \A s \in SUBSET C : g[s] = IF s = {} THEN 0 ELSE v[um(s)] + it[s \ {um(s)}]
      BY <3>1
    <3>3. it = g
      BY <2>1, <3>1, Zenon
    <3> QED
      BY <3>2, <3>3, Zenon
  <2>2. it[{}] = h[{}]
    BY <1>8, <2>a
  <2>3. ASSUME NEW s \in SUBSET C, s # {}, it[s \ {esc[s]}] = h[s \ {esc[s]}]
        PROVE  it[s] = h[s]
    <3>1. it[s] = v[um(s)] + it[s \ {um(s)}]
      BY <2>3, <2>a
    <3>2. it[s \ {um(s)}] = h[s \ {um(s)}]
      BY <1>3, <2>3
    <3> QED
      BY <1>7, <2>3, <3>1, <3>2
  <2>4. Acompanha(it, h, C, esc)
    BY <1>1, <2>2, <2>3, Zenon DEF Acompanha
  <2>5. \A s \in SUBSET C : it[s] = h[s]
    BY <2>4, MesmoPercurso
  <2> QED
    BY <2>5
<1> QED
  BY <1>6, <1>10, <1>11

\* A sum of sums is the sum over the pairs.
LEMMA TotalPares ==
  ASSUME NEW I, IsFiniteSet(I), NEW v, DOMAIN v = I,
         \A i \in I : IsFiniteSet(DOMAIN v[i]) /\ v[i] \in [DOMAIN v[i] -> Int]
  PROVE  /\ IsFiniteSet(Pares(v))
         /\ Total([p \in Pares(v) |-> v[p[1]][p[2]]]) = Total([i \in I |-> Total(v[i])])
<1> DEFINE D == Pares(v)
           w == [p \in D |-> v[p[1]][p[2]]]
           g == [p \in D |-> p[1]]
           fibra(i) == {p \in D : g[p] = i}
<1>0. \A p \in D : p[1] \in I /\ p[2] \in DOMAIN v[p[1]] /\ p = <<p[1], p[2]>>
  BY ParDe
<1>a. \A i \in I : \A y \in DOMAIN v[i] : <<i, y>> \in D
  BY ParDe
<1>1. IsFiniteSet(D)
  <2> DEFINE partes == {{x} \X DOMAIN v[x] : x \in I}
  <2>1. \A i \in I : IsFiniteSet({i} \X DOMAIN v[i])
    BY FS_Singleton, FS_Product
  <2>2. IsFiniteSet(partes)
    <3> DEFINE f == [x \in I |-> {x} \X DOMAIN v[x]]
    <3>1. f \in Surjection(I, partes)
      BY DEF Surjection
    <3> QED
      BY <3>1, FS_Surjection
  <2>3. D = UNION partes
    BY DEF Pares
  <2> HIDE DEF D
  <2> QED
    BY <2>1, <2>2, <2>3, FS_UNION
<1>2. w \in [D -> Int] /\ g \in [D -> I]
  BY <1>0
<1>3. ASSUME NEW i \in I PROVE Total([p \in fibra(i) |-> w[p]]) = Total(v[i])
  <2> DEFINE J == DOMAIN v[i]
             b == [y \in J |-> <<i, y>>]
             u == [p \in fibra(i) |-> w[p]]
  <2>1. \A y \in J : b[y] = <<i, y>> /\ b[y] \in fibra(i) /\ b[y][1] = i /\ b[y][2] = y
    BY <1>a
  <2>2. b \in [J -> fibra(i)]
    BY <2>1
  <2>3. \A x, y \in J : b[x] = b[y] => x = y
    BY <2>1
  <2>4. ASSUME NEW p \in fibra(i) PROVE \E y \in J : b[y] = p
    BY <1>0, <2>1, <2>4
  <2>5. u \in [fibra(i) -> Int]
    BY <1>2
  <2>6. \A y \in J : u[b[y]] = v[i][y]
    BY <2>1
  <2>7. IsFiniteSet(J) /\ v[i] = [y \in J |-> v[i][y]]
    OBVIOUS
  <2> HIDE DEF u, b, fibra, J
  <2>8. b \in Bijection(J, fibra(i))
    BY <2>2, <2>3, <2>4, Bijetora
  <2>9. Total([y \in J |-> u[b[y]]]) = Total(u)
    BY <2>5, <2>7, <2>8, TotalBijecao
  <2>10. [y \in J |-> u[b[y]]] = v[i]
    BY <2>6, <2>7
  <2> QED
    BY <2>9, <2>10 DEF u
<1> HIDE DEF w, g, D
<1>4. Total(w) = Total([i \in I |-> Total([p \in fibra(i) |-> w[p]])])
  <2>1. Total(w) = Total(Fibras(w, g, I))
    BY <1>1, <1>2, TotalFibras
  <2>2. DOMAIN w = D
    BY <1>2
  <2>3. Fibras(w, g, I) = [i \in I |-> Total([p \in fibra(i) |-> w[p]])]
    BY <2>2, Zenon DEF Fibras
  <2> QED
    BY <2>1, <2>3
<1> HIDE DEF fibra
<1>5. [i \in I |-> Total([p \in fibra(i) |-> w[p]])] = [i \in I |-> Total(v[i])]
  BY <1>3
<1> QED
  BY <1>1, <1>4, <1>5 DEF w, D

-----------------------------------------------------------------------------
(* What is billed of a registration.                                       *)

\* The linhas of the i-th cliente that are billed, those of all, and who has one.
Boas(K, i) ==
  {j \in DOMAIN K.clientes[i].linhas : LinhaValida(K.clientes[i].linhas[j], K.planos)}
Validas(K) ==
  {l \in UNION {{i} \X DOMAIN K.clientes[i].linhas : i \in DOMAIN K.clientes} :
     LinhaValida(K.clientes[l[1]].linhas[l[2]], K.planos)}
ComLinha(K) == {i \in DOMAIN K.clientes : Boas(K, i) # {}}

\* The linhas of a cliente that are kept are those that are billed.
LEMMA LinhasDoCliente ==
  ASSUME NEW K, CadastroBemFormado(K), NEW i \in DOMAIN K.clientes
  PROVE  LET t == Filtrar(K.clientes[i].linhas, LAMBDA l : LinhaValida(l, K.planos))
         IN /\ t \in Seq(Range(K.clientes[i].linhas))
            /\ \E b : Retem(b, t, K.clientes[i].linhas, Boas(K, i))
<1> DEFINE s == K.clientes[i].linhas
           S == Range(s)
           V == {l \in S : LinhaValida(l, K.planos)}
           t == Filtrar(s, LAMBDA l : LinhaValida(l, K.planos))
<1>1. s \in Seq(S)
  BY Zenon DEF CadastroBemFormado
<1>2. \A j \in DOMAIN s : s[j] \in V <=> LinhaValida(s[j], K.planos)
  BY DEF Range
<1>3. t = Retidos(s, V)
  <2>1. [j \in DOMAIN s |-> IF LinhaValida(s[j], K.planos) THEN <<s[j]>> ELSE <<>>]
          = [j \in DOMAIN s |-> IF s[j] \in V THEN <<s[j]>> ELSE <<>>]
    BY <1>2, Zenon
  <2> QED
    BY <2>1, Zenon DEF Filtrar, Retidos
<1>4. {j \in DOMAIN s : s[j] \in V} = Boas(K, i)
  BY <1>2 DEF Boas
<1> HIDE DEF s, S, V, t
<1>5. /\ Retidos(s, V) \in Seq(S)
      /\ \E b : Retem(b, Retidos(s, V), s, {j \in DOMAIN s : s[j] \in V})
  BY <1>1, FiltrarBijecao
<1> QED
  BY <1>3, <1>4, <1>5 DEF t, s, S

\* v bills what K says: q is the cliente each of v is, g the linha each of theirs is.
Linhas(v) == [x \in DOMAIN v |-> v[x].linhas]
Fatura1(v, K, q, g) ==
  /\ q \in Bijection(DOMAIN v, ComLinha(K))
  /\ \A x \in DOMAIN v : v[x].nome = K.clientes[q[x]].nome
  /\ g \in Bijection(Pares(Linhas(v)), Validas(K))
  /\ \A p \in Pares(Linhas(v)) : /\ g[p][1] = q[p[1]]
                                 /\ v[p[1]].linhas[p[2]] = K.clientes[g[p][1]].linhas[g[p][2]]

\* A sequence of clientes, each with a sequence of linhas at prices and in quantities
\* that are integers.
Clientela(v) ==
  /\ v \in Seq(Range(v))
  /\ \A x \in DOMAIN v : /\ v[x].linhas \in Seq(Range(v[x].linhas))
                         /\ \A y \in DOMAIN v[x].linhas : /\ v[x].linhas[y].unitario \in Int
                                                          /\ v[x].linhas[y].quantidade \in Int

\* A linha that is billed, by cliente and position.
LEMMA ValidaDe ==
  ASSUME NEW K
  PROVE  /\ \A i \in DOMAIN K.clientes : \A j \in Boas(K, i) : <<i, j>> \in Validas(K)
         /\ \A l \in Validas(K) : /\ l[1] \in ComLinha(K) /\ l[2] \in Boas(K, l[1])
                                  /\ l = <<l[1], l[2]>>
<1>1. ASSUME NEW i \in DOMAIN K.clientes, NEW j \in Boas(K, i) PROVE <<i, j>> \in Validas(K)
  <2>1. j \in DOMAIN K.clientes[i].linhas /\ LinhaValida(K.clientes[i].linhas[j], K.planos)
    BY DEF Boas
  <2> QED
    BY <2>1 DEF Validas
<1>2. ASSUME NEW l \in Validas(K)
      PROVE  l[1] \in ComLinha(K) /\ l[2] \in Boas(K, l[1]) /\ l = <<l[1], l[2]>>
  <2>1. PICK i \in DOMAIN K.clientes : l \in {i} \X DOMAIN K.clientes[i].linhas
    BY DEF Validas
  <2>2. l[1] = i /\ l[2] \in DOMAIN K.clientes[i].linhas /\ l = <<l[1], l[2]>>
    BY <2>1
  <2>3. LinhaValida(K.clientes[l[1]].linhas[l[2]], K.planos)
    BY DEF Validas
  <2>4. l[2] \in Boas(K, l[1])
    BY <2>2, <2>3 DEF Boas
  <2> QED
    BY <2>2, <2>4 DEF ComLinha
<1> QED
  BY <1>1, <1>2

\* clientesComLinhasValidas keeps every linha that is billed, once, with its cliente.
LEMMA ClientesValidos ==
  ASSUME NEW K, CadastroBemFormado(K)
  PROVE  LET v == ClientesComLinhasValidas(K.clientes, K.planos)
         IN Clientela(v) /\ \E q, g : Fatura1(v, K, q, g)
<1> DEFINE cs == K.clientes
           t(i) == Filtrar(cs[i].linhas, LAMBDA l : LinhaValida(l, K.planos))
           todos == [i \in DOMAIN cs |-> [cs[i] EXCEPT !.linhas = t(i)]]
           R == Range(todos)
           V == {c \in R : c.linhas # <<>>}
           v == ClientesComLinhasValidas(cs, K.planos)
<1>1. /\ cs \in Seq(Range(cs)) /\ DOMAIN cs = 1 .. Len(cs) /\ Len(cs) \in Nat
      /\ \A i \in DOMAIN cs :
           /\ cs[i] = [nome |-> cs[i].nome, cpfcnpj |-> cs[i].cpfcnpj,
                       endereco |-> cs[i].endereco, linhas |-> cs[i].linhas]
           /\ \A j \in DOMAIN cs[i].linhas :
                cs[i].linhas[j].unitario \in Int /\ cs[i].linhas[j].quantidade \in Int
  <2>1. cs \in Seq(Range(cs))
    BY Zenon DEF CadastroBemFormado
  <2>2. DOMAIN cs = 1 .. Len(cs) /\ Len(cs) \in Nat
    BY <2>1, LenProperties
  <2>3. \A i \in DOMAIN cs :
           /\ cs[i] = [nome |-> cs[i].nome, cpfcnpj |-> cs[i].cpfcnpj,
                       endereco |-> cs[i].endereco, linhas |-> cs[i].linhas]
           /\ \A j \in DOMAIN cs[i].linhas :
                cs[i].linhas[j].unitario \in Int /\ cs[i].linhas[j].quantidade \in Int
    BY Zenon DEF CadastroBemFormado
  <2> QED
    BY <2>1, <2>2, <2>3
<1>2. ASSUME NEW i \in DOMAIN cs
      PROVE  t(i) \in Seq(Range(cs[i].linhas)) /\ \E b : Retem(b, t(i), cs[i].linhas, Boas(K, i))
  BY LinhasDoCliente
<1>3. v = Filtrar(todos, LAMBDA c : c.linhas # <<>>)
  BY DEF ClientesComLinhasValidas
<1> HIDE DEF t, v
<1>4. \A i \in DOMAIN cs : todos[i].linhas = t(i) /\ todos[i].nome = cs[i].nome
  BY <1>1
<1>5. todos \in Seq(R) /\ DOMAIN todos = DOMAIN cs
  <2>1. DOMAIN todos = DOMAIN cs /\ \A i \in DOMAIN cs : todos[i] \in R
    BY DEF Range
  <2>2. todos = [i \in 1 .. Len(cs) |-> todos[i]]
    BY <1>1
  <2> HIDE DEF todos, R
  <2>3. PICK n \in Nat : n = Len(cs)
    BY <1>1
  <2>4. todos \in [1 .. n -> R]
    BY <1>1, <2>1, <2>2, <2>3
  <2>5. todos \in Seq(R)
    BY <2>4
  <2> QED
    BY <2>1, <2>5
<1>6. \A i \in DOMAIN todos : todos[i] \in V <=> todos[i].linhas # <<>>
  BY DEF Range
<1> HIDE DEF todos, R, V
<1>7. v = Retidos(todos, V)
  <2>1. [i \in DOMAIN todos |-> IF todos[i].linhas # <<>> THEN <<todos[i]>> ELSE <<>>]
          = [i \in DOMAIN todos |-> IF todos[i] \in V THEN <<todos[i]>> ELSE <<>>]
    BY <1>6, Zenon
  <2> QED
    BY <1>3, <2>1, Zenon DEF Filtrar, Retidos
<1>8. \A i \in DOMAIN cs : t(i) # <<>> <=> Boas(K, i) # {}
  <2> TAKE i \in DOMAIN cs
  <2>1. PICK b : Retem(b, t(i), cs[i].linhas, Boas(K, i))
    BY <1>2
  <2>2. b \in [DOMAIN t(i) -> Boas(K, i)] /\ \A y \in Boas(K, i) : \E x \in DOMAIN t(i) : b[x] = y
    BY <2>1, Bijetora DEF Retem
  <2>3. t(i) \in Seq(Range(cs[i].linhas))
    BY <1>2
  <2>4. t(i) # <<>> <=> DOMAIN t(i) # {}
    <3>1. t(i) = <<>> <=> Len(t(i)) = 0
      BY <2>3, EmptySeq
    <3>2. DOMAIN t(i) = 1 .. Len(t(i)) /\ Len(t(i)) \in Nat
      BY <2>3, LenProperties
    <3>3. \A n \in Nat : 1 .. n = {} <=> n = 0
      OBVIOUS
    <3> QED
      BY <3>1, <3>2, <3>3
  <2> QED
    BY <2>2, <2>4
<1>9. {i \in DOMAIN todos : todos[i] \in V} = ComLinha(K)
  BY <1>4, <1>5, <1>6, <1>8 DEF ComLinha
<1>10. v \in Seq(R) /\ \E q : Retem(q, v, todos, ComLinha(K))
  BY <1>5, <1>7, <1>9, FiltrarBijecao
<1>11. PICK q : Retem(q, v, todos, ComLinha(K))
  BY <1>10
<1>12. /\ q \in Bijection(DOMAIN v, ComLinha(K)) /\ \A x \in DOMAIN v : v[x] = todos[q[x]]
       /\ q \in [DOMAIN v -> ComLinha(K)] /\ \A x, y \in DOMAIN v : q[x] = q[y] => x = y
       /\ \A i \in ComLinha(K) : \E x \in DOMAIN v : q[x] = i
  BY <1>11, Bijetora DEF Retem
<1>13. \A i \in ComLinha(K) : i \in DOMAIN cs
  BY DEF ComLinha
<1>14. \A x \in DOMAIN v : /\ q[x] \in DOMAIN cs /\ v[x].linhas = t(q[x])
                           /\ v[x].nome = cs[q[x]].nome
  BY <1>4, <1>12, <1>13
<1> DEFINE psi == [i \in DOMAIN cs |-> CHOOSE b : Retem(b, t(i), cs[i].linhas, Boas(K, i))]
<1>15. ASSUME NEW i \in DOMAIN cs
       PROVE  /\ psi[i] \in [DOMAIN t(i) -> Boas(K, i)]
              /\ \A x, y \in DOMAIN t(i) : psi[i][x] = psi[i][y] => x = y
              /\ \A j \in Boas(K, i) : \E x \in DOMAIN t(i) : psi[i][x] = j
              /\ \A x \in DOMAIN t(i) : t(i)[x] = cs[i].linhas[psi[i][x]]
  <2>1. Retem(psi[i], t(i), cs[i].linhas, Boas(K, i))
    BY <1>2, Zenon
  <2> DEFINE b == psi[i]
  <2>2. b \in Bijection(DOMAIN t(i), Boas(K, i)) /\ \A z \in DOMAIN t(i) : t(i)[z] = cs[i].linhas[b[z]]
    BY <2>1, Zenon DEF Retem
  <2> HIDE DEF b
  <2>3. /\ b \in [DOMAIN t(i) -> Boas(K, i)]
        /\ \A x, y \in DOMAIN t(i) : b[x] = b[y] => x = y
        /\ \A j \in Boas(K, i) : \E x \in DOMAIN t(i) : b[x] = j
    BY <2>2, Bijetora
  <2> QED
    BY <2>2, <2>3 DEF b
<1> HIDE DEF psi
<1> DEFINE P == Pares(Linhas(v))
           g == [p \in P |-> <<q[p[1]], psi[q[p[1]]][p[2]]>>]
<1>16. \A p \in P : /\ p[1] \in DOMAIN v /\ p[2] \in DOMAIN t(q[p[1]]) /\ p = <<p[1], p[2]>>
  BY <1>14, ParDe DEF Linhas
<1>17. \A x \in DOMAIN v : \A y \in DOMAIN t(q[x]) : <<x, y>> \in P
  BY <1>14, ParDe DEF Linhas
<1> HIDE DEF P
<1>18. \A p \in P : g[p] = <<q[p[1]], psi[q[p[1]]][p[2]]>> /\ g[p][1] = q[p[1]]
                    /\ g[p][2] = psi[q[p[1]]][p[2]]
  OBVIOUS
<1>19. \A p \in P : g[p] \in Validas(K)
  BY <1>14, <1>15, <1>16, <1>18, ValidaDe
<1>20. g \in [P -> Validas(K)]
  BY <1>19
<1> HIDE DEF g
<1>21. ASSUME NEW p \in P, NEW r \in P, g[p] = g[r] PROVE p = r
  <2>1. q[p[1]] = q[r[1]] /\ psi[q[p[1]]][p[2]] = psi[q[r[1]]][r[2]]
    BY <1>18, <1>21
  <2>2. p[1] = r[1]
    BY <1>12, <1>16, <2>1
  <2>3. p[2] = r[2]
    BY <1>14, <1>15, <1>16, <2>1, <2>2
  <2> QED
    BY <1>16, <2>2, <2>3
<1>22. ASSUME NEW l \in Validas(K) PROVE \E p \in P : g[p] = l
  <2>1. l[1] \in ComLinha(K) /\ l[2] \in Boas(K, l[1]) /\ l = <<l[1], l[2]>>
    BY ValidaDe
  <2>2. PICK x \in DOMAIN v : q[x] = l[1]
    BY <1>12, <2>1
  <2>3. PICK y \in DOMAIN t(l[1]) : psi[l[1]][y] = l[2]
    BY <1>13, <1>15, <2>1
  <2>4. <<x, y>> \in P /\ g[<<x, y>>] = <<q[x], psi[q[x]][y]>>
    BY <1>17, <1>18, <2>2, <2>3
  <2> QED
    BY <2>1, <2>2, <2>3, <2>4
<1>23. g \in Bijection(P, Validas(K))
  BY <1>20, <1>21, <1>22, Bijetora
<1>24. \A p \in P : /\ g[p][1] = q[p[1]]
                    /\ v[p[1]].linhas[p[2]] = cs[g[p][1]].linhas[g[p][2]]
  BY <1>14, <1>15, <1>16, <1>18
<1>25. Fatura1(v, K, q, g)
  BY <1>12, <1>14, <1>23, <1>24 DEF Fatura1, P
<1>26. Clientela(v)
  <2>1. v \in Seq(Range(v))
    BY <1>10 DEF Range
  <2>2. ASSUME NEW x \in DOMAIN v
        PROVE  /\ v[x].linhas \in Seq(Range(v[x].linhas))
               /\ \A y \in DOMAIN v[x].linhas : /\ v[x].linhas[y].unitario \in Int
                                                /\ v[x].linhas[y].quantidade \in Int
    <3> DEFINE u == t(q[x])
    <3>1. u \in Seq(Range(cs[q[x]].linhas)) /\ v[x].linhas = u
      BY <1>2, <1>14
    <3> HIDE DEF u
    <3>2. u \in Seq(Range(u))
      BY <3>1 DEF Range
    <3>3. ASSUME NEW y \in DOMAIN u PROVE u[y].unitario \in Int /\ u[y].quantidade \in Int
      <4>1. u[y] \in Range(cs[q[x]].linhas)
        BY <3>1
      <4>2. PICK j \in DOMAIN cs[q[x]].linhas : u[y] = cs[q[x]].linhas[j]
        BY <4>1 DEF Range
      <4> QED
        BY <1>1, <1>14, <4>2
    <3> QED
      BY <3>1, <3>2, <3>3
  <2> QED
    BY <2>1, <2>2 DEF Clientela
<1> QED
  BY <1>25, <1>26 DEF v

-----------------------------------------------------------------------------
(* What a plan bills.                                                      *)

\* What each linha of v is worth, and all of them together.
Valores(v) ==
  [x \in DOMAIN v |-> [y \in DOMAIN v[x].linhas |->
                         v[x].linhas[y].unitario * v[x].linhas[y].quantidade]]
Grandeza(v) == Total([p \in Pares(Valores(v)) |-> Valores(v)[p[1]][p[2]]])

\* The values are integers, by cliente and by pair.
LEMMA ValoresDe ==
  ASSUME NEW v, Clientela(v)
  PROVE  /\ DOMAIN v = 1 .. Len(v) /\ Len(v) \in Nat /\ IsFiniteSet(DOMAIN v)
         /\ DOMAIN Valores(v) = DOMAIN v /\ Pares(Valores(v)) = Pares(Linhas(v))
         /\ \A x \in DOMAIN v :
              /\ DOMAIN v[x].linhas = 1 .. Len(v[x].linhas) /\ Len(v[x].linhas) \in Nat
              /\ IsFiniteSet(DOMAIN v[x].linhas)
              /\ Valores(v)[x] \in [DOMAIN v[x].linhas -> Int]
              /\ Soma(Valores(v)[x]) = Total(Valores(v)[x]) /\ Total(Valores(v)[x]) \in Int
         /\ IsFiniteSet(Pares(Valores(v)))
         /\ Grandeza(v) = Total([x \in DOMAIN v |-> Total(Valores(v)[x])])
<1>0. \A a, b \in Int : a * b \in Int
  OBVIOUS
<1>1. DOMAIN v = 1 .. Len(v) /\ Len(v) \in Nat
  BY LenProperties DEF Clientela
<1>2. IsFiniteSet(DOMAIN v)
  BY <1>1, FS_Interval
<1>3. DOMAIN Valores(v) = DOMAIN v /\ DOMAIN Linhas(v) = DOMAIN v
  BY DEF Valores, Linhas
<1>4. ASSUME NEW x \in DOMAIN v
      PROVE  /\ DOMAIN v[x].linhas = 1 .. Len(v[x].linhas) /\ Len(v[x].linhas) \in Nat
             /\ IsFiniteSet(DOMAIN v[x].linhas)
             /\ Valores(v)[x] \in [DOMAIN v[x].linhas -> Int]
             /\ DOMAIN Valores(v)[x] = DOMAIN Linhas(v)[x]
             /\ DOMAIN Valores(v)[x] = DOMAIN v[x].linhas
             /\ Soma(Valores(v)[x]) = Total(Valores(v)[x]) /\ Total(Valores(v)[x]) \in Int
  <2>1. v[x].linhas \in Seq(Range(v[x].linhas))
    BY DEF Clientela
  <2>2. DOMAIN v[x].linhas = 1 .. Len(v[x].linhas) /\ Len(v[x].linhas) \in Nat
    BY <2>1, LenProperties
  <2>3. IsFiniteSet(DOMAIN v[x].linhas)
    BY <2>2, FS_Interval
  <2>4. \A y \in DOMAIN v[x].linhas : v[x].linhas[y].unitario \in Int /\ v[x].linhas[y].quantidade \in Int
    BY DEF Clientela
  <2>5. Valores(v)[x] = [y \in DOMAIN v[x].linhas |-> v[x].linhas[y].unitario * v[x].linhas[y].quantidade]
    BY DEF Valores
  <2>6. Valores(v)[x] \in [DOMAIN v[x].linhas -> Int]
    BY <1>0, <2>4, <2>5
  <2>7. DOMAIN Valores(v)[x] = DOMAIN Linhas(v)[x] /\ DOMAIN Valores(v)[x] = DOMAIN v[x].linhas
    BY <2>5 DEF Linhas
  <2>8. Soma(Valores(v)[x]) = Total(Valores(v)[x]) /\ Soma(Valores(v)[x]) \in Int
    BY <2>2, <2>6, SomaTotal
  <2> QED
    BY <2>2, <2>3, <2>6, <2>7, <2>8
<1>5. Pares(Valores(v)) = Pares(Linhas(v))
  BY <1>3, <1>4, Zenon DEF Pares
<1>6. \A x \in DOMAIN v : /\ IsFiniteSet(DOMAIN Valores(v)[x])
                          /\ Valores(v)[x] \in [DOMAIN Valores(v)[x] -> Int]
  BY <1>4
<1> DEFINE w == Valores(v)
<1>7. DOMAIN w = DOMAIN v /\ \A x \in DOMAIN v : IsFiniteSet(DOMAIN w[x]) /\ w[x] \in [DOMAIN w[x] -> Int]
  BY <1>3, <1>6
<1> HIDE DEF w
<1>8. /\ IsFiniteSet(Pares(w))
      /\ Total([p \in Pares(w) |-> w[p[1]][p[2]]]) = Total([x \in DOMAIN v |-> Total(w[x])])
  BY <1>2, <1>7, TotalPares
<1>9. IsFiniteSet(Pares(Valores(v))) /\ Grandeza(v) = Total([x \in DOMAIN v |-> Total(Valores(v)[x])])
  BY <1>8, Zenon DEF Grandeza, w
<1> QED
  BY <1>1, <1>2, <1>3, <1>4, <1>5, <1>9

\* The nota of a cliente has its linhas, and their sum as its total.
LEMMA NotaDoCliente ==
  ASSUME NEW v, Clientela(v), NEW x \in DOMAIN v
  PROVE  LET n == NotaParaCliente(v[x])
         IN /\ n.total = Total(Valores(v)[x]) /\ n.destinatario = v[x].nome
            /\ DOMAIN n.itens = DOMAIN v[x].linhas
            /\ \A y \in DOMAIN n.itens : n.itens[y].linha = v[x].linhas[y]
<1> DEFINE itens == ItensDoCliente(v[x])
           n == NotaParaCliente(v[x])
<1>1. itens = [y \in DOMAIN v[x].linhas |->
                 [linha |-> v[x].linhas[y], total |-> v[x].linhas[y].unitario * v[x].linhas[y].quantidade]]
  BY DEF ItensDoCliente
<1>2. n.destinatario = v[x].nome /\ n.itens = itens
      /\ n.total = Soma([i \in DOMAIN itens |-> itens[i].total])
  BY DEF NotaParaCliente, Nota
<1> HIDE DEF itens, n
<1>3. /\ DOMAIN itens = DOMAIN v[x].linhas
      /\ \A y \in DOMAIN itens : itens[y].linha = v[x].linhas[y]
  BY <1>1
<1>4. [i \in DOMAIN itens |-> itens[i].total] = Valores(v)[x]
  BY <1>1 DEF Valores
<1>5. Soma(Valores(v)[x]) = Total(Valores(v)[x])
  BY ValoresDe
<1> QED
  BY <1>2, <1>3, <1>4, <1>5 DEF n

\* The nota of a partner has the linhas of all clientes, and their sum as its total.
LEMMA NotaDoParceiro ==
  ASSUME NEW v, Clientela(v), NEW p
  PROVE  LET n == NotaParaParceiro(p, v)
         IN /\ n.total = Grandeza(v) /\ n.total \in Int /\ n.destinatario = p.nome
            /\ \E b \in Bijection(DOMAIN n.itens, Pares(Linhas(v))) :
                 \A z \in DOMAIN n.itens : n.itens[z].linha = v[b[z][1]].linhas[b[z][2]]
<1> DEFINE ss == [i \in DOMAIN v |-> ItensDoCliente(v[i])]
           S == UNION {Range(ss[i]) : i \in DOMAIN v}
           t == FlattenSeq(ss)
           n == NotaParaParceiro(p, v)
<1>1. n.destinatario = p.nome /\ n.itens = t /\ n.total = Soma([i \in DOMAIN t |-> t[i].total])
  BY DEF NotaParaParceiro, Nota
<1>2. \A x \in DOMAIN v :
        ss[x] = [y \in DOMAIN v[x].linhas |->
                   [linha |-> v[x].linhas[y],
                    total |-> v[x].linhas[y].unitario * v[x].linhas[y].quantidade]]
  BY DEF ItensDoCliente
<1>3. /\ DOMAIN v = 1 .. Len(v) /\ Len(v) \in Nat /\ Pares(Valores(v)) = Pares(Linhas(v))
      /\ \A x \in DOMAIN v : DOMAIN v[x].linhas = 1 .. Len(v[x].linhas) /\ Len(v[x].linhas) \in Nat
  BY ValoresDe
<1>4. ss \in Seq(Seq(S))
  <2>1. ASSUME NEW x \in DOMAIN v PROVE ss[x] \in Seq(S)
    <3> DEFINE u == ss[x]
               k == Len(v[x].linhas)
    <3>1. DOMAIN u = 1 .. k /\ k \in Nat /\ u = [y \in 1 .. k |-> u[y]]
      BY <1>2, <1>3
    <3>2. \A y \in DOMAIN u : u[y] \in S
      BY DEF Range
    <3> HIDE DEF u, k, S
    <3>3. u \in [1 .. k -> S]
      BY <3>1, <3>2
    <3>4. u \in Seq(S)
      BY <3>1, <3>3
    <3> QED
      BY <3>4 DEF u
  <2> DEFINE k == Len(v)
  <2>2. DOMAIN v = 1 .. k /\ k \in Nat
    BY <1>3
  <2> HIDE DEF S, k
  <2>3. ss \in [1 .. k -> Seq(S)]
    BY <2>1, <2>2
  <2> QED
    BY <2>2, <2>3
<1>5. DOMAIN ss = DOMAIN v
  OBVIOUS
<1> HIDE DEF ss, S, t, n
<1>6. Pares(ss) = Pares(Linhas(v))
  <2>1. \A x \in DOMAIN v : DOMAIN ss[x] = DOMAIN Linhas(v)[x]
    BY <1>2 DEF Linhas
  <2>2. DOMAIN Linhas(v) = DOMAIN v
    BY DEF Linhas
  <2> QED
    BY <1>5, <2>1, <2>2, Zenon DEF Pares
<1>7. t \in Seq(S) /\ \E b \in Bijection(DOMAIN t, Pares(ss)) :
                        \A z \in DOMAIN t : t[z] = ss[b[z][1]][b[z][2]]
  BY <1>4, AchatarBijecao DEF t
<1>8. PICK b \in Bijection(DOMAIN t, Pares(ss)) : \A z \in DOMAIN t : t[z] = ss[b[z][1]][b[z][2]]
  BY <1>7
<1>9. \A z \in DOMAIN t : b[z] \in Pares(ss)
  BY Bijetora
<1>10. \A q \in Pares(ss) : q[1] \in DOMAIN v /\ q[2] \in DOMAIN v[q[1]].linhas
  BY <1>6, ParDe DEF Linhas
<1>a. ASSUME NEW x \in DOMAIN v, NEW y \in DOMAIN v[x].linhas
      PROVE  ss[x][y].linha = v[x].linhas[y] /\ ss[x][y].total = Valores(v)[x][y]
  <2>1. Valores(v)[x][y] = v[x].linhas[y].unitario * v[x].linhas[y].quantidade
    BY DEF Valores
  <2>2. ss[x][y] = [linha |-> v[x].linhas[y],
                    total |-> v[x].linhas[y].unitario * v[x].linhas[y].quantidade]
    BY <1>2
  <2> QED
    BY <2>1, <2>2
<1>11. \A q \in Pares(ss) : /\ ss[q[1]][q[2]].linha = v[q[1]].linhas[q[2]]
                            /\ ss[q[1]][q[2]].total = Valores(v)[q[1]][q[2]]
  BY <1>10, <1>a
<1>12. \A z \in DOMAIN t : /\ t[z].linha = v[b[z][1]].linhas[b[z][2]]
                           /\ t[z].total = Valores(v)[b[z][1]][b[z][2]]
  BY <1>8, <1>9, <1>11
<1> DEFINE W == [q \in Pares(ss) |-> Valores(v)[q[1]][q[2]]]
           u == [z \in DOMAIN t |-> t[z].total]
<1>13. W \in [Pares(ss) -> Int]
  <2>1. \A x \in DOMAIN v : Valores(v)[x] \in [DOMAIN v[x].linhas -> Int]
    BY ValoresDe
  <2>2. \A x \in DOMAIN v : \A y \in DOMAIN v[x].linhas : Valores(v)[x][y] \in Int
    BY <2>1
  <2> QED
    BY <1>10, <2>2
<1>14. Grandeza(v) = Total(W)
  BY <1>3, <1>6, Zenon DEF Grandeza
<1>15. \A z \in DOMAIN t : u[z] = W[b[z]] /\ u[z] \in Int
  BY <1>9, <1>12, <1>13
<1>16. DOMAIN t = 1 .. Len(t) /\ Len(t) \in Nat
  BY <1>7, LenProperties
<1>17. u = [z \in DOMAIN t |-> W[b[z]]]
  BY <1>15
<1>18. u \in [1 .. Len(t) -> Int]
  BY <1>15, <1>16
<1> HIDE DEF W, u
<1>19. Total([z \in DOMAIN t |-> W[b[z]]]) = Total(W) /\ Total(W) \in Int
  <2>1. IsFiniteSet(DOMAIN t)
    BY <1>16, FS_Interval
  <2> QED
    BY <1>13, <2>1, TotalBijecao
<1>20. Soma(u) = Total(u)
  BY <1>16, <1>18, SomaTotal
<1> QED
  BY <1>1, <1>6, <1>8, <1>12, <1>14, <1>17, <1>19, <1>20 DEF n, u

\* The sum of one number.
LEMMA SomaUnica ==
  ASSUME NEW v \in [1 .. 1 -> Int]
  PROVE  Soma(v) = v[1] /\ Soma(v) \in Int
<1>1. PICK n \in Nat : n = 1
  OBVIOUS
<1>2. v \in [1 .. n -> Int]
  BY <1>1
<1>3. PICK f \in [0 .. n -> Int] : /\ f[0] = 0 /\ Soma(v) = f[n]
                                   /\ \A k \in 1 .. n : f[k] = f[k - 1] + v[k]
  BY <1>2, SomaPassos
<1>4. n \in 1 .. n /\ n - 1 = 0 /\ v[n] \in Int /\ v[n] = v[1]
  BY <1>1
<1>5. f[n] = 0 + v[n]
  BY <1>1, <1>3, <1>4
<1> QED
  BY <1>3, <1>4, <1>5

\* The itens of a plan, by cobranca, nota and position.
Itens(cob) ==
  UNION {UNION {{<<c, n, i>> : i \in DOMAIN cob[c].notas[n].itens} :
                  n \in DOMAIN cob[c].notas} : c \in DOMAIN cob}

\* An item of a plan, by its elements.
LEMMA ItemDe ==
  ASSUME NEW cob
  PROVE  /\ \A c \in DOMAIN cob : \A n \in DOMAIN cob[c].notas :
              \A i \in DOMAIN cob[c].notas[n].itens : <<c, n, i>> \in Itens(cob)
         /\ \A t \in Itens(cob) : /\ t[1] \in DOMAIN cob /\ t[2] \in DOMAIN cob[t[1]].notas
                                  /\ t[3] \in DOMAIN cob[t[1]].notas[t[2]].itens
                                  /\ t = <<t[1], t[2], t[3]>>
<1>1. \A c \in DOMAIN cob : \A n \in DOMAIN cob[c].notas :
        \A i \in DOMAIN cob[c].notas[n].itens : <<c, n, i>> \in Itens(cob)
  BY DEF Itens
<1>2. ASSUME NEW t \in Itens(cob)
      PROVE  /\ t[1] \in DOMAIN cob /\ t[2] \in DOMAIN cob[t[1]].notas
             /\ t[3] \in DOMAIN cob[t[1]].notas[t[2]].itens
             /\ t = <<t[1], t[2], t[3]>>
  <2>1. \E c \in DOMAIN cob : \E n \in DOMAIN cob[c].notas :
           \E i \in DOMAIN cob[c].notas[n].itens : t = <<c, n, i>>
    BY DEF Itens
  <2> QED
    BY <2>1
<1> QED
  BY <1>1, <1>2

\* The itens of a plan are the linhas of v, h says which, each in a nota to who nome says.
Desdobra(cob, v, h, nome) ==
  /\ h \in Bijection(Itens(cob), Pares(Linhas(v)))
  /\ \A t \in Itens(cob) :
       /\ cob[t[1]].notas[t[2]].itens[t[3]].linha = v[h[t][1]].linhas[h[t][2]]
       /\ cob[t[1]].notas[t[2]].destinatario = nome[h[t][1]]

\* The cobrancas of a plan add up to what v is worth.
Somam(cob, v) ==
  /\ DOMAIN cob = 1 .. Len(cob) /\ Len(cob) \in Nat
  /\ \A c \in DOMAIN cob : cob[c].valorTotal \in Int
  /\ Soma([c \in DOMAIN cob |-> cob[c].valorTotal]) = Grandeza(v)

\* The plan of tipo "parceiro": one cobranca and one nota, to the partner.
LEMMA PlanoParceiro ==
  ASSUME NEW v, Clientela(v), NEW p
  PROVE  LET cob == <<Cobranca(p, <<NotaParaParceiro(p, v)>>)>>
         IN /\ Somam(cob, v) /\ DOMAIN cob = {1} /\ DOMAIN cob[1].notas = {1}
            /\ \E h : Desdobra(cob, v, h, [x \in DOMAIN v |-> p.nome])
<1> DEFINE n == NotaParaParceiro(p, v)
           q == Cobranca(p, <<n>>)
           cob == <<q>>
           nome == [x \in DOMAIN v |-> p.nome]
<1>1. PICK b \in Bijection(DOMAIN n.itens, Pares(Linhas(v))) :
             \A z \in DOMAIN n.itens : n.itens[z].linha = v[b[z][1]].linhas[b[z][2]]
  BY NotaDoParceiro
<1>2. n.total = Grandeza(v) /\ n.total \in Int /\ n.destinatario = p.nome
  BY NotaDoParceiro
<1> HIDE DEF n
<1>3. q.notas = <<n>> /\ q.valorTotal = Soma([i \in DOMAIN <<n>> |-> <<n>>[i].total])
  BY DEF Cobranca
<1> HIDE DEF q
<1>4. DOMAIN <<n>> = 1 .. 1 /\ <<n>>[1] = n /\ DOMAIN cob = 1 .. 1 /\ cob[1] = q /\ Len(cob) = 1
  OBVIOUS
<1>5. q.valorTotal = n.total /\ q.valorTotal \in Int
  <2> DEFINE u == [i \in DOMAIN <<n>> |-> <<n>>[i].total]
  <2>1. u \in [1 .. 1 -> Int] /\ u[1] = n.total
    BY <1>2, <1>4
  <2> HIDE DEF u
  <2>2. Soma(u) = u[1]
    BY <2>1, SomaUnica
  <2> QED
    BY <1>2, <1>3, <2>1, <2>2 DEF u
<1>6. Soma([c \in DOMAIN cob |-> cob[c].valorTotal]) = Grandeza(v)
  <2> DEFINE u == [c \in DOMAIN cob |-> cob[c].valorTotal]
  <2>1. u \in [1 .. 1 -> Int] /\ u[1] = q.valorTotal
    BY <1>4, <1>5
  <2> HIDE DEF u
  <2>2. Soma(u) = u[1]
    BY <2>1, SomaUnica
  <2> QED
    BY <1>2, <1>5, <2>1, <2>2 DEF u
<1> HIDE DEF cob
<1>7. Somam(cob, v)
  BY <1>4, <1>5, <1>6 DEF Somam
<1>8. 1 .. 1 = {1}
  OBVIOUS
<1>9. cob[1].notas[1] = n /\ DOMAIN cob = {1} /\ DOMAIN cob[1].notas = {1}
  BY <1>3, <1>4, <1>8
<1>10. \A t \in Itens(cob) : t[1] = 1 /\ t[2] = 1 /\ t[3] \in DOMAIN n.itens /\ t = <<1, 1, t[3]>>
  BY <1>9, ItemDe
<1>11. \A z \in DOMAIN n.itens : <<1, 1, z>> \in Itens(cob) /\ <<1, 1, z>>[3] = z
  BY <1>9, ItemDe
<1>12. /\ b \in [DOMAIN n.itens -> Pares(Linhas(v))]
       /\ \A x, y \in DOMAIN n.itens : b[x] = b[y] => x = y
       /\ \A r \in Pares(Linhas(v)) : \E z \in DOMAIN n.itens : b[z] = r
  BY Bijetora
<1> DEFINE h == [t \in Itens(cob) |-> b[t[3]]]
<1>13. h \in [Itens(cob) -> Pares(Linhas(v))] /\ \A t \in Itens(cob) : h[t] = b[t[3]]
  BY <1>10, <1>12
<1> HIDE DEF h, nome
<1>14. ASSUME NEW s \in Itens(cob), NEW t \in Itens(cob), h[s] = h[t] PROVE s = t
  <2>1. s[3] = t[3]
    BY <1>10, <1>12, <1>13, <1>14
  <2> QED
    BY <1>10, <2>1
<1>15. ASSUME NEW r \in Pares(Linhas(v)) PROVE \E t \in Itens(cob) : h[t] = r
  <2>1. PICK z \in DOMAIN n.itens : b[z] = r
    BY <1>12
  <2> QED
    BY <1>11, <1>13, <2>1
<1>16. h \in Bijection(Itens(cob), Pares(Linhas(v)))
  BY <1>13, <1>14, <1>15, Bijetora
<1>17. \A r \in Pares(Linhas(v)) : nome[r[1]] = p.nome
  BY ParDe DEF Linhas, nome
<1>18. \A t \in Itens(cob) :
         /\ cob[t[1]].notas[t[2]].itens[t[3]].linha = v[h[t][1]].linhas[h[t][2]]
         /\ cob[t[1]].notas[t[2]].destinatario = nome[h[t][1]]
  BY <1>1, <1>2, <1>9, <1>10, <1>13, <1>17
<1>19. Desdobra(cob, v, h, nome)
  BY <1>16, <1>18 DEF Desdobra
<1> QED
  BY <1>7, <1>9, <1>19 DEF cob, q, n, nome

\* The plans of the other tipos: a nota for each cliente, in one cobranca to the partner.
LEMMA PlanoViaParceiro ==
  ASSUME NEW v, Clientela(v), NEW p
  PROVE  LET cob == <<Cobranca(p, [x \in DOMAIN v |-> NotaParaCliente(v[x])])>>
         IN /\ Somam(cob, v) /\ DOMAIN cob = {1} /\ DOMAIN cob[1].notas = DOMAIN v
            /\ \E h : Desdobra(cob, v, h, [x \in DOMAIN v |-> v[x].nome])
<1> DEFINE notas == [x \in DOMAIN v |-> NotaParaCliente(v[x])]
           q == Cobranca(p, notas)
           cob == <<q>>
           nome == [x \in DOMAIN v |-> v[x].nome]
<1>1. \A x \in DOMAIN v : /\ notas[x].total = Total(Valores(v)[x])
                          /\ notas[x].destinatario = v[x].nome
                          /\ DOMAIN notas[x].itens = DOMAIN v[x].linhas
                          /\ \A y \in DOMAIN v[x].linhas :
                               notas[x].itens[y].linha = v[x].linhas[y]
  BY NotaDoCliente
<1>2. DOMAIN notas = DOMAIN v
  OBVIOUS
<1>v. /\ DOMAIN v = 1 .. Len(v) /\ Len(v) \in Nat
      /\ \A x \in DOMAIN v : Total(Valores(v)[x]) \in Int
      /\ Grandeza(v) = Total([x \in DOMAIN v |-> Total(Valores(v)[x])])
  BY ValoresDe
<1> HIDE DEF notas
<1>3. q.notas = notas /\ q.valorTotal = Soma([i \in DOMAIN notas |-> notas[i].total])
  BY DEF Cobranca
<1> HIDE DEF q
<1>4. DOMAIN cob = 1 .. 1 /\ cob[1] = q /\ Len(cob) = 1
  OBVIOUS
<1>5. q.valorTotal = Grandeza(v) /\ q.valorTotal \in Int
  <2> DEFINE u == [i \in DOMAIN notas |-> notas[i].total]
  <2>1. u = [x \in DOMAIN v |-> Total(Valores(v)[x])] /\ u \in [1 .. Len(v) -> Int]
    BY <1>1, <1>2, <1>v
  <2> HIDE DEF u
  <2>2. Soma(u) = Total(u) /\ Soma(u) \in Int
    BY <1>v, <2>1, SomaTotal
  <2> QED
    BY <1>3, <1>v, <2>1, <2>2 DEF u
<1>6. Soma([c \in DOMAIN cob |-> cob[c].valorTotal]) = Grandeza(v)
  <2> DEFINE u == [c \in DOMAIN cob |-> cob[c].valorTotal]
  <2>1. u \in [1 .. 1 -> Int] /\ u[1] = q.valorTotal
    BY <1>4, <1>5
  <2> HIDE DEF u
  <2>2. Soma(u) = u[1]
    BY <2>1, SomaUnica
  <2> QED
    BY <1>5, <2>1, <2>2 DEF u
<1> HIDE DEF cob
<1>7. Somam(cob, v)
  BY <1>4, <1>5, <1>6 DEF Somam
<1>8. 1 .. 1 = {1}
  OBVIOUS
<1>9. cob[1].notas = notas /\ DOMAIN cob = {1} /\ DOMAIN cob[1].notas = DOMAIN v
  BY <1>2, <1>3, <1>4, <1>8
<1>10. \A t \in Itens(cob) : /\ t[1] = 1 /\ t[2] \in DOMAIN v /\ t[3] \in DOMAIN v[t[2]].linhas
                             /\ t = <<1, t[2], t[3]>>
  BY <1>1, <1>9, ItemDe
<1>11. \A x \in DOMAIN v : \A y \in DOMAIN v[x].linhas :
         <<1, x, y>> \in Itens(cob) /\ <<1, x, y>>[2] = x /\ <<1, x, y>>[3] = y
  BY <1>1, <1>9, ItemDe
<1>12. /\ \A x \in DOMAIN v : \A y \in DOMAIN v[x].linhas : <<x, y>> \in Pares(Linhas(v))
       /\ \A r \in Pares(Linhas(v)) : /\ r[1] \in DOMAIN v /\ r[2] \in DOMAIN v[r[1]].linhas
                                      /\ r = <<r[1], r[2]>>
  BY ParDe DEF Linhas
<1> DEFINE h == [t \in Itens(cob) |-> <<t[2], t[3]>>]
<1>13. /\ h \in [Itens(cob) -> Pares(Linhas(v))]
       /\ \A t \in Itens(cob) : h[t] = <<t[2], t[3]>> /\ h[t][1] = t[2] /\ h[t][2] = t[3]
  BY <1>10, <1>12
<1> HIDE DEF h, nome
<1>14. ASSUME NEW s \in Itens(cob), NEW t \in Itens(cob), h[s] = h[t] PROVE s = t
  <2>1. s[2] = t[2] /\ s[3] = t[3]
    BY <1>13, <1>14
  <2> QED
    BY <1>10, <2>1
<1>15. ASSUME NEW r \in Pares(Linhas(v)) PROVE \E t \in Itens(cob) : h[t] = r
  <2>1. r[1] \in DOMAIN v /\ r[2] \in DOMAIN v[r[1]].linhas /\ r = <<r[1], r[2]>>
    BY <1>12
  <2>2. <<1, r[1], r[2]>> \in Itens(cob) /\ h[<<1, r[1], r[2]>>] = <<r[1], r[2]>>
    BY <1>11, <1>13, <2>1
  <2> QED
    BY <2>1, <2>2
<1>16. h \in Bijection(Itens(cob), Pares(Linhas(v)))
  BY <1>13, <1>14, <1>15, Bijetora
<1>17. \A x \in DOMAIN v : nome[x] = v[x].nome
  BY DEF nome
<1>18. ASSUME NEW t \in Itens(cob)
       PROVE  /\ cob[t[1]].notas[t[2]].itens[t[3]].linha = v[h[t][1]].linhas[h[t][2]]
              /\ cob[t[1]].notas[t[2]].destinatario = nome[h[t][1]]
  BY <1>1, <1>9, <1>10, <1>13, <1>17
<1>19. Desdobra(cob, v, h, nome)
  BY <1>16, <1>18 DEF Desdobra
<1> QED
  BY <1>7, <1>9, <1>19 DEF cob, q, notas, nome

\* Or in a cobranca to each cliente.
LEMMA PlanoClienteFinal ==
  ASSUME NEW v, Clientela(v)
  PROVE  LET cob == [x \in DOMAIN v |-> Cobranca(v[x], <<NotaParaCliente(v[x])>>)]
         IN /\ Somam(cob, v) /\ DOMAIN cob = DOMAIN v
            /\ \A x \in DOMAIN cob : DOMAIN cob[x].notas = {1}
            /\ \E h : Desdobra(cob, v, h, [x \in DOMAIN v |-> v[x].nome])
<1> DEFINE notas == [x \in DOMAIN v |-> NotaParaCliente(v[x])]
           cob == [x \in DOMAIN v |-> Cobranca(v[x], <<NotaParaCliente(v[x])>>)]
           nome == [x \in DOMAIN v |-> v[x].nome]
<1>1. \A x \in DOMAIN v : /\ notas[x].total = Total(Valores(v)[x])
                          /\ notas[x].destinatario = v[x].nome
                          /\ DOMAIN notas[x].itens = DOMAIN v[x].linhas
                          /\ \A y \in DOMAIN v[x].linhas :
                               notas[x].itens[y].linha = v[x].linhas[y]
  BY NotaDoCliente
<1>v. /\ DOMAIN v = 1 .. Len(v) /\ Len(v) \in Nat
      /\ \A x \in DOMAIN v : Total(Valores(v)[x]) \in Int
      /\ Grandeza(v) = Total([x \in DOMAIN v |-> Total(Valores(v)[x])])
  BY ValoresDe
<1>2. \A x \in DOMAIN v : notas[x] = NotaParaCliente(v[x])
  OBVIOUS
<1>3. DOMAIN cob = DOMAIN v
  OBVIOUS
<1>4. ASSUME NEW x \in DOMAIN v
      PROVE  /\ cob[x].notas = <<notas[x]>>
             /\ cob[x].valorTotal = Soma([i \in DOMAIN <<notas[x]>> |-> <<notas[x]>>[i].total])
  BY <1>2 DEF Cobranca
<1> HIDE DEF notas, cob
<1>5. ASSUME NEW x \in DOMAIN v
      PROVE  /\ cob[x].valorTotal = Total(Valores(v)[x]) /\ cob[x].valorTotal \in Int
             /\ cob[x].notas[1] = notas[x] /\ DOMAIN cob[x].notas = {1}
  <2> DEFINE s == <<notas[x]>>
             u == [i \in DOMAIN s |-> s[i].total]
  <2>1. DOMAIN s = 1 .. 1 /\ s[1] = notas[x] /\ 1 .. 1 = {1}
    OBVIOUS
  <2>2. cob[x].notas = s /\ cob[x].valorTotal = Soma(u)
    BY <1>4
  <2>3. u \in [1 .. 1 -> Int] /\ u[1] = Total(Valores(v)[x])
    BY <1>1, <1>v, <2>1
  <2> HIDE DEF s, u
  <2>4. Soma(u) = u[1]
    BY <2>3, SomaUnica
  <2> QED
    BY <1>v, <2>1, <2>2, <2>3, <2>4
<1>6. Somam(cob, v)
  <2> DEFINE u == [c \in DOMAIN cob |-> cob[c].valorTotal]
  <2>1. u = [x \in DOMAIN v |-> Total(Valores(v)[x])] /\ u \in [1 .. Len(v) -> Int]
    BY <1>3, <1>5, <1>v
  <2>2. Len(cob) = Len(v)
    <3>1. cob = [x \in 1 .. Len(v) |-> cob[x]]
      BY <1>v DEF cob
    <3> QED
      BY <1>v, <3>1
  <2> HIDE DEF u
  <2>3. Soma(u) = Total(u) /\ Soma(u) \in Int
    BY <1>v, <2>1, SomaTotal
  <2>4. Soma(u) = Grandeza(v)
    BY <1>v, <2>1, <2>3
  <2> QED
    BY <1>3, <1>5, <1>v, <2>2, <2>4 DEF u, Somam
<1>10. \A t \in Itens(cob) : /\ t[1] \in DOMAIN v /\ t[2] = 1 /\ t[3] \in DOMAIN v[t[1]].linhas
                             /\ t = <<t[1], 1, t[3]>>
  BY <1>1, <1>3, <1>5, ItemDe
<1>11. \A x \in DOMAIN v : \A y \in DOMAIN v[x].linhas :
         <<x, 1, y>> \in Itens(cob) /\ <<x, 1, y>>[1] = x /\ <<x, 1, y>>[3] = y
  BY <1>1, <1>3, <1>5, ItemDe
<1>12. /\ \A x \in DOMAIN v : \A y \in DOMAIN v[x].linhas : <<x, y>> \in Pares(Linhas(v))
       /\ \A r \in Pares(Linhas(v)) : /\ r[1] \in DOMAIN v /\ r[2] \in DOMAIN v[r[1]].linhas
                                      /\ r = <<r[1], r[2]>>
  BY ParDe DEF Linhas
<1> DEFINE h == [t \in Itens(cob) |-> <<t[1], t[3]>>]
<1>13. /\ h \in [Itens(cob) -> Pares(Linhas(v))]
       /\ \A t \in Itens(cob) : h[t] = <<t[1], t[3]>> /\ h[t][1] = t[1] /\ h[t][2] = t[3]
  BY <1>10, <1>12
<1> HIDE DEF h, nome
<1>14. ASSUME NEW s \in Itens(cob), NEW t \in Itens(cob), h[s] = h[t] PROVE s = t
  <2>1. s[1] = t[1] /\ s[3] = t[3]
    BY <1>13, <1>14
  <2> QED
    BY <1>10, <2>1
<1>15. ASSUME NEW r \in Pares(Linhas(v)) PROVE \E t \in Itens(cob) : h[t] = r
  <2>1. r[1] \in DOMAIN v /\ r[2] \in DOMAIN v[r[1]].linhas /\ r = <<r[1], r[2]>>
    BY <1>12
  <2>2. <<r[1], 1, r[2]>> \in Itens(cob) /\ h[<<r[1], 1, r[2]>>] = <<r[1], r[2]>>
    BY <1>11, <1>13, <2>1
  <2> QED
    BY <2>1, <2>2
<1>16. h \in Bijection(Itens(cob), Pares(Linhas(v)))
  BY <1>13, <1>14, <1>15, Bijetora
<1>17. \A x \in DOMAIN v : nome[x] = v[x].nome
  BY DEF nome
<1>18. ASSUME NEW t \in Itens(cob)
       PROVE  /\ cob[t[1]].notas[t[2]].itens[t[3]].linha = v[h[t][1]].linhas[h[t][2]]
              /\ cob[t[1]].notas[t[2]].destinatario = nome[h[t][1]]
  <2>1. t[1] \in DOMAIN v /\ t[2] = 1 /\ t[3] \in DOMAIN v[t[1]].linhas
    BY <1>10
  <2>2. cob[t[1]].notas[t[2]] = notas[t[1]]
    BY <1>5, <2>1
  <2> QED
    BY <1>1, <1>13, <1>17, <2>1, <2>2
<1>19. Desdobra(cob, v, h, nome)
  BY <1>16, <1>18 DEF Desdobra
<1> QED
  BY <1>3, <1>5, <1>6, <1>19 DEF cob, nome
=============================================================================
