-------------------------- MODULE SmsConcatProofs --------------------------
(***************************************************************************)
(* Proofs about the reassembly of long SMS: what the functions of          *)
(* sms-concat.ts make of any texts and parts, and that nothing is lost,    *)
(* nothing is stored twice and texts read as they were written.            *)
(***************************************************************************)
EXTENDS SmsConcat, FiniteSetTheorems, SequenceTheorems, TLAPS

-----------------------------------------------------------------------------
(* Picking the elements at some positions of a sequence.                     *)

\* How many of the positions come no later than i.
Before(P, i) == Cardinality({j \in P : j <= i})

\* The positions are numbered in their order.
LEMMA BeforeCounts ==
  ASSUME NEW P \in SUBSET Nat, IsFiniteSet(P)
  PROVE  /\ \A i \in P : Before(P, i) \in 1..Cardinality(P)
         /\ \A i, j \in P : i < j => Before(P, i) < Before(P, j)
<1>1. \A i \in P : /\ IsFiniteSet({j \in P : j <= i})
                   /\ Before(P, i) \in Nat /\ Before(P, i) <= Cardinality(P)
  <2> SUFFICES ASSUME NEW i \in P
               PROVE  /\ IsFiniteSet({j \in P : j <= i})
                      /\ Before(P, i) \in Nat /\ Before(P, i) <= Cardinality(P)
    OBVIOUS
  <2>1. {j \in P : j <= i} \in SUBSET P
    OBVIOUS
  <2>2. IsFiniteSet({j \in P : j <= i}) /\ Cardinality({j \in P : j <= i}) <= Cardinality(P)
    BY <2>1, FS_Subset
  <2>3. QED
    BY <2>2, FS_CardinalityType DEF Before
<1>2. \A i \in P : Before(P, i) # 0
  <2> SUFFICES ASSUME NEW i \in P, Before(P, i) = 0
               PROVE  FALSE
    OBVIOUS
  <2>1. {j \in P : j <= i} = {}
    BY <1>1, FS_EmptySet DEF Before
  <2>2. i \in {j \in P : j <= i}
    OBVIOUS
  <2>3. QED
    BY <2>1, <2>2
<1>3. ASSUME NEW i \in P, NEW j \in P, i < j
      PROVE  Before(P, i) < Before(P, j)
  <2>a. i \in Nat /\ j \in Nat /\ \A k \in P : k \in Nat
    OBVIOUS
  <2>b. \A k \in P : k <= i => k <= j
    BY <1>3, <2>a
  <2>1. {k \in P : k <= i} \in SUBSET {k \in P : k <= j}
    BY <2>b, Zenon
  <2>2. j \in {k \in P : k <= j} /\ j \notin {k \in P : k <= i}
    BY <1>3
  <2>3. Before(P, i) <= Before(P, j) /\ Before(P, i) # Before(P, j)
    BY <1>1, <2>1, <2>2, FS_Subset DEF Before
  <2>4. Before(P, i) \in Nat /\ Before(P, j) \in Nat
    BY <1>1
  <2>5. QED
    BY <2>3, <2>4
<1>4. Cardinality(P) \in Nat
  BY FS_CardinalityType
<1>5. \A i \in P : Before(P, i) \in 1..Cardinality(P)
  <2> SUFFICES ASSUME NEW i \in P
               PROVE  Before(P, i) \in 1..Cardinality(P)
    OBVIOUS
  <2>1. Before(P, i) \in Nat /\ Before(P, i) <= Cardinality(P) /\ Before(P, i) # 0
    BY <1>1, <1>2
  <2>2. QED
    BY <2>1, <1>4
<1>6. QED
  BY <1>3, <1>5

\* f numbers the positions in their order, and At follows it.
Numbers(seq, P, f) ==
  /\ At(seq, P) = [n \in 1..Cardinality(P) |-> seq[f[n]]]
  /\ \A m, n \in 1..Cardinality(P) : m < n => f[m] < f[n]
  /\ \A i \in P : \E n \in 1..Cardinality(P) : f[n] = i

\* At takes the elements at the positions, each once, in their order.
LEMMA AtMeaning ==
  ASSUME NEW seq, NEW P, DOMAIN seq \subseteq Nat, P \subseteq DOMAIN seq, IsFiniteSet(P)
  PROVE  \E f \in [1..Cardinality(P) -> P] : Numbers(seq, P, f)
<1> DEFINE n0 == Cardinality(P)
           rank == [i \in P |-> Before(P, i)]
           f == [n \in 1..n0 |-> CHOOSE i \in P : Before(P, i) = n]
<1> USE P \subseteq DOMAIN seq
<1>1. P \subseteq Nat /\ n0 \in Nat
  BY FS_CardinalityType
<1>2. /\ \A i \in P : Before(P, i) \in 1..n0
      /\ \A i, j \in P : i < j => Before(P, i) < Before(P, j)
  BY <1>1, BeforeCounts
<1>3. IsFiniteSet(1..n0) /\ Cardinality(1..n0) = n0
  <2>1. Cardinality(1..n0) = IF 1 > n0 THEN 0 ELSE n0 - 1 + 1
    BY <1>1, FS_Interval
  <2>2. QED
    BY <1>1, <2>1, FS_Interval
<1>4. rank \in Injection(P, 1..n0)
  <2>1. \A i, j \in P : rank[i] = rank[j] => i = j
    <3> SUFFICES ASSUME NEW i \in P, NEW j \in P, i # j
                 PROVE  Before(P, i) # Before(P, j)
      OBVIOUS
    <3>1. i < j \/ j < i
      BY <1>1
    <3>2. Before(P, i) \in Int /\ Before(P, j) \in Int
      BY <1>2
    <3>3. QED
      BY <1>2, <3>1, <3>2
  <2>2. rank \in [P -> 1..n0]
    BY <1>2
  <2>3. QED
    BY <2>1, <2>2 DEF Injection, IsInjective
<1>5. rank \in Surjection(P, 1..n0)
  BY <1>3, <1>4, FS_Injection
<1>6. \A n \in 1..n0 : \E i \in P : Before(P, i) = n
  BY <1>5 DEF Surjection
<1>7. \A n \in 1..n0 : f[n] \in P /\ Before(P, f[n]) = n
  BY <1>6
<1>8. At(seq, P) = [n \in 1..n0 |-> seq[f[n]]]
  <2> DEFINE kept == [Q \in SUBSET DOMAIN seq |->
                        [n \in 1..Cardinality(Q) |->
                           seq[CHOOSE i \in Q : Cardinality({j \in Q : j <= i}) = n]]]
  <2>1. At(seq, P) = kept[P]
    BY DEF At
  <2>2. kept[P] = [n \in 1..n0 |-> seq[CHOOSE i \in P : Before(P, i) = n]]
    BY DEF Before
  <2>3. QED
    BY <2>1, <2>2
<1>9. \A m, n \in 1..n0 : m < n => f[m] < f[n]
  <2> SUFFICES ASSUME NEW m \in 1..n0, NEW n \in 1..n0, m < n, ~(f[m] < f[n])
               PROVE  FALSE
    OBVIOUS
  <2>1. f[m] \in P /\ f[n] \in P /\ Before(P, f[m]) = m /\ Before(P, f[n]) = n
    BY <1>7
  <2> HIDE DEF f
  <2>2. f[n] = f[m] \/ f[n] < f[m]
    BY <1>1, <2>1
  <2>3. QED
    BY <1>1, <1>2, <2>1, <2>2
<1>10. ASSUME NEW i \in P
       PROVE  \E n \in 1..n0 : f[n] = i
  <2> DEFINE n == Before(P, i)
  <2>1. n \in 1..n0 /\ f[n] \in P /\ Before(P, f[n]) = n
    BY <1>2, <1>7
  <2> HIDE DEF f
  <2>2. f[n] = i
    BY <1>1, <1>2, <2>1
  <2>3. QED
    BY <2>1, <2>2
<1>11. f \in [1..n0 -> P]
  BY <1>7
<1>12. Numbers(seq, P, f)
  BY <1>8, <1>9, <1>10 DEF Numbers
<1>13. QED
  <2> HIDE DEF f
  <2>1. QED
    BY <1>11, <1>12

-----------------------------------------------------------------------------
(* assembleParts: the combined parts and the others.                         *)

\* The first short part.
FinalAt(parts) == Earliest(DOMAIN parts \ FullParts(parts))

\* Picked elements one after the other.
LEMMA PickedConcat ==
  ASSUME NEW T, NEW seq \in Seq(T), NEW a \in Nat, NEW b \in Nat,
         NEW f \in [1..a -> DOMAIN seq], NEW g \in [1..b -> DOMAIN seq]
  PROVE  [n \in 1..a |-> seq[f[n]]] \o [n \in 1..b |-> seq[g[n]]]
           = [n \in 1..(a + b) |-> seq[IF n <= a THEN f[n] ELSE g[n - a]]]
<1> DEFINE s == [n \in 1..a |-> seq[f[n]]]
           t == [n \in 1..b |-> seq[g[n]]]
           u == [n \in 1..(a + b) |-> seq[IF n <= a THEN f[n] ELSE g[n - a]]]
<1>1. \A i \in DOMAIN seq : seq[i] \in T
  BY ElementOfSeq
<1>2. s \in Seq(T) /\ Len(s) = a /\ t \in Seq(T) /\ Len(t) = b
  <2>1. \A n \in 1..a : f[n] \in DOMAIN seq
    OBVIOUS
  <2>2. \A n \in 1..b : g[n] \in DOMAIN seq
    OBVIOUS
  <2>3. s \in [1..a -> T] /\ t \in [1..b -> T]
    BY <1>1, <2>1, <2>2
  <2>4. QED
    BY <2>3, IsASeq, LenProperties
<1>3. \A n \in 1..(a + b) : (IF n <= a THEN f[n] ELSE g[n - a]) \in DOMAIN seq
  <2> SUFFICES ASSUME NEW n \in 1..(a + b)
               PROVE  (IF n <= a THEN f[n] ELSE g[n - a]) \in DOMAIN seq
    OBVIOUS
  <2>1. CASE n <= a
    <3>1. n \in 1..a
      BY <2>1
    <3>2. QED
      BY <3>1, <2>1
  <2>2. CASE ~(n <= a)
    <3>1. n - a \in 1..b
      BY <2>2
    <3>2. QED
      BY <3>1, <2>2
  <2>3. QED
    BY <2>1, <2>2
<1>4. u \in Seq(T) /\ Len(u) = a + b
  <2>1. u \in [1..(a + b) -> T]
    BY <1>1, <1>3
  <2>2. a + b \in Nat
    OBVIOUS
  <2>3. QED
    BY <2>1, <2>2, IsASeq, LenProperties
<1>5. /\ s \o t \in Seq(T) /\ Len(s \o t) = a + b
      /\ \A i \in 1..(a + b) : (s \o t)[i] = IF i <= a THEN s[i] ELSE t[i - a]
  <2> HIDE DEF s, t
  <2>1. QED
    BY <1>2, ConcatProperties
<1>6. \A i \in 1..(a + b) : (s \o t)[i] = u[i]
  <2> SUFFICES ASSUME NEW i \in 1..(a + b)
               PROVE  (s \o t)[i] = u[i]
    OBVIOUS
  <2>1. CASE i <= a
    <3>1. i \in 1..a
      BY <2>1
    <3>2. s[i] = seq[f[i]] /\ u[i] = seq[f[i]]
      BY <3>1, <2>1
    <3> HIDE DEF s, t, u
    <3>3. QED
      BY <1>5, <3>2, <2>1
  <2>2. CASE ~(i <= a)
    <3>1. i - a \in 1..b
      BY <2>2
    <3>2. t[i - a] = seq[g[i - a]] /\ u[i] = seq[g[i - a]]
      BY <3>1, <2>2
    <3> HIDE DEF s, t, u
    <3>3. QED
      BY <1>5, <3>2, <2>2
  <2>3. QED
    BY <2>1, <2>2
<1>7. QED
  <2> HIDE DEF s, t, u
  <2>1. s \o t = u
    BY <1>4, <1>5, <1>6, SeqEqual
  <2>2. QED
    BY <2>1 DEF s, t, u

\* Every part goes either into the combined message or on its own, once; in the
\* combined message all but the last are full, and the full ones are in the order of
\* their arrival; what is left over is short (assembleParts).
THEOREM AssembleKeepsEveryPart ==
  ASSUME NEW T, NEW parts \in Seq(T)
  PROVE  \E a, b \in Nat : \E c \in [1..a -> DOMAIN parts], l \in [1..b -> DOMAIN parts] :
           /\ assembleParts(parts) = [combined |-> [n \in 1..a |-> parts[c[n]]],
                                      leftovers |-> [n \in 1..b |-> parts[l[n]]]]
           /\ \A m, n \in 1..a : m # n => c[m] # c[n]
           /\ \A m, n \in 1..b : m # n => l[m] # l[n]
           /\ \A m \in 1..a, n \in 1..b : c[m] # l[n]
           /\ \A i \in DOMAIN parts : (\E n \in 1..a : c[n] = i) \/ (\E n \in 1..b : l[n] = i)
           /\ \A m, n \in 1..a : m < n => looksLikeIncompletePart(parts[c[m]].text)
           /\ \A m, n \in 1..a :
                m < n /\ looksLikeIncompletePart(parts[c[n]].text) => c[m] < c[n]
           /\ \A n \in 1..b : ~looksLikeIncompletePart(parts[l[n]].text)
<1> DEFINE D == DOMAIN parts
           F == FullParts(parts)
           E == FinalAt(parts)
           O == D \ (F \cup E)
           nf == Cardinality(F)
           ne == Cardinality(E)
           no == Cardinality(O)
<1>1. /\ D \subseteq Nat /\ IsFiniteSet(D)
      /\ \A i, j \in D : i \in Nat /\ j \in Nat
  <2>1. Len(parts) \in Nat /\ D = 1..Len(parts)
    BY LenProperties
  <2>2. IsFiniteSet(1..Len(parts))
    BY <2>1, FS_Interval
  <2>3. QED
    BY <2>1, <2>2
<1>2. F \subseteq D /\ E \subseteq D /\ O \subseteq D
  BY DEF FullParts, FinalAt, Earliest
<1>3. IsFiniteSet(F) /\ IsFiniteSet(E) /\ IsFiniteSet(O)
  <2>1. F \in SUBSET D /\ E \in SUBSET D /\ O \in SUBSET D
    BY <1>2
  <2>2. QED
    BY <1>1, <2>1, FS_Subset
<1>4. nf \in Nat /\ ne \in Nat /\ no \in Nat
  BY <1>3, FS_CardinalityType
<1>5. /\ \A i \in F : looksLikeIncompletePart(parts[i].text)
      /\ \A i \in E \cup O : ~looksLikeIncompletePart(parts[i].text)
      /\ F \cap E = {} /\ D = F \cup E \cup O
      /\ \A i, j \in E : i <= j
  <2>1. \A i \in E : i \in D \ F /\ \A j \in D \ F : i <= j
    BY DEF FinalAt, Earliest
  <2>2. QED
    BY <1>2, <2>1 DEF FullParts
<1>6. assembleParts(parts) = [combined |-> At(parts, F) \o At(parts, E), leftovers |-> At(parts, O)]
  BY DEF assembleParts, FullParts, FinalAt
<1> HIDE DEF F, E, O, nf, ne, no
<1>7. PICK f \in [1..nf -> F] :
        /\ At(parts, F) = [n \in 1..nf |-> parts[f[n]]]
        /\ \A m, n \in 1..nf : m < n => f[m] < f[n]
        /\ \A i \in F : \E n \in 1..nf : f[n] = i
  <2>1. DOMAIN parts \subseteq Nat /\ F \subseteq DOMAIN parts /\ IsFiniteSet(F)
    BY <1>1, <1>2, <1>3
  <2> HIDE DEF D
  <2>2. \E x \in [1..Cardinality(F) -> F] : Numbers(parts, F, x)
    BY <2>1, AtMeaning
  <2>3. PICK x \in [1..Cardinality(F) -> F] : Numbers(parts, F, x)
    BY <2>2
  <2>4. QED
    BY <2>3 DEF nf, Numbers
<1>8. PICK e \in [1..ne -> E] :
        /\ At(parts, E) = [n \in 1..ne |-> parts[e[n]]]
        /\ \A m, n \in 1..ne : m < n => e[m] < e[n]
        /\ \A i \in E : \E n \in 1..ne : e[n] = i
  <2>1. DOMAIN parts \subseteq Nat /\ E \subseteq DOMAIN parts /\ IsFiniteSet(E)
    BY <1>1, <1>2, <1>3
  <2> HIDE DEF D
  <2>2. \E x \in [1..Cardinality(E) -> E] : Numbers(parts, E, x)
    BY <2>1, AtMeaning
  <2>3. PICK x \in [1..Cardinality(E) -> E] : Numbers(parts, E, x)
    BY <2>2
  <2>4. QED
    BY <2>3 DEF ne, Numbers
<1>9. PICK l \in [1..no -> O] :
        /\ At(parts, O) = [n \in 1..no |-> parts[l[n]]]
        /\ \A m, n \in 1..no : m < n => l[m] < l[n]
        /\ \A i \in O : \E n \in 1..no : l[n] = i
  <2>1. DOMAIN parts \subseteq Nat /\ O \subseteq DOMAIN parts /\ IsFiniteSet(O)
    BY <1>1, <1>2, <1>3
  <2> HIDE DEF D
  <2>2. \E x \in [1..Cardinality(O) -> O] : Numbers(parts, O, x)
    BY <2>1, AtMeaning
  <2>3. PICK x \in [1..Cardinality(O) -> O] : Numbers(parts, O, x)
    BY <2>2
  <2>4. QED
    BY <2>3 DEF no, Numbers
<1>10. /\ \A n \in 1..nf : f[n] \in F /\ f[n] \in D /\ f[n] \in Nat
       /\ \A n \in 1..ne : e[n] \in E /\ e[n] \in D /\ e[n] \in Nat
       /\ \A n \in 1..no : l[n] \in O /\ l[n] \in D /\ l[n] \in Nat
  <2>1. \A n \in 1..nf : f[n] \in F
    OBVIOUS
  <2>2. \A n \in 1..ne : e[n] \in E
    OBVIOUS
  <2>3. \A n \in 1..no : l[n] \in O
    OBVIOUS
  <2>4. QED
    BY <1>1, <1>2, <2>1, <2>2, <2>3
<1>11. ne <= 1
  <2> SUFFICES ASSUME ~(ne <= 1)
               PROVE  FALSE
    OBVIOUS
  <2>1. 1 \in 1..ne /\ 2 \in 1..ne
    BY <1>4
  <2>2. e[1] < e[2] /\ e[2] <= e[1]
    BY <1>5, <1>8, <1>10, <2>1
  <2>3. QED
    BY <1>10, <2>1, <2>2
<1> DEFINE a == nf + ne
           c == [n \in 1..a |-> IF n <= nf THEN f[n] ELSE e[n - nf]]
<1>12. \A n \in 1..a : \/ n \in 1..nf /\ c[n] = f[n]
                       \/ n = nf + 1 /\ n = a /\ 1 \in 1..ne /\ c[n] = e[1]
  <2> SUFFICES ASSUME NEW n \in 1..a
               PROVE  \/ n \in 1..nf /\ c[n] = f[n]
                      \/ n = nf + 1 /\ n = a /\ 1 \in 1..ne /\ c[n] = e[1]
    OBVIOUS
  <2>1. CASE n <= nf
    BY <2>1, <1>4
  <2>2. CASE ~(n <= nf)
    <3>1. n = nf + 1 /\ ne = 1 /\ n - nf = 1
      BY <2>2, <1>4, <1>11
    <3>2. QED
      BY <3>1, <2>2, <1>4
  <2>3. QED
    BY <2>1, <2>2
<1>13. a \in Nat /\ c \in [1..a -> D]
  <2>1. \A n \in 1..a : c[n] \in D
    BY <1>10, <1>12
  <2>2. QED
    BY <1>4, <2>1
<1>14. assembleParts(parts) = [combined |-> [n \in 1..a |-> parts[c[n]]],
                               leftovers |-> [n \in 1..no |-> parts[l[n]]]]
  <2>1. f \in [1..nf -> D] /\ e \in [1..ne -> D]
    BY <1>2
  <2>2. At(parts, F) \o At(parts, E)
          = [n \in 1..(nf + ne) |-> parts[IF n <= nf THEN f[n] ELSE e[n - nf]]]
    BY <1>4, <1>7, <1>8, <2>1, PickedConcat
  <2>3. QED
    BY <1>6, <1>9, <2>2
<1> HIDE DEF c
<1>15. \A m, n \in 1..a : m # n => c[m] # c[n]
  <2> SUFFICES ASSUME NEW m \in 1..a, NEW n \in 1..a, m < n
               PROVE  c[m] # c[n]
    BY <1>4
  <2>0. a \in Nat /\ m \in Nat /\ n \in Nat /\ m # a
    BY <1>4
  <2>1. m \in 1..nf /\ c[m] = f[m]
    BY <1>12, <2>0
  <2>2. CASE n \in 1..nf /\ c[n] = f[n]
    BY <2>1, <2>2, <1>7, <1>10
  <2>3. CASE 1 \in 1..ne /\ c[n] = e[1]
    BY <2>1, <2>3, <1>5, <1>10
  <2>4. QED
    BY <2>2, <2>3, <1>12
<1>16. \A m, n \in 1..no : m # n => l[m] # l[n]
  <2> SUFFICES ASSUME NEW m \in 1..no, NEW n \in 1..no, m < n
               PROVE  l[m] # l[n]
    BY <1>4
  <2>1. QED
    BY <1>9, <1>10
<1>17. \A m \in 1..a, n \in 1..no : c[m] # l[n]
  BY <1>5, <1>10, <1>12 DEF O
<1>18. \A i \in D : (\E n \in 1..a : c[n] = i) \/ (\E n \in 1..no : l[n] = i)
  <2> SUFFICES ASSUME NEW i \in D
               PROVE  (\E n \in 1..a : c[n] = i) \/ (\E n \in 1..no : l[n] = i)
    OBVIOUS
  <2>1. CASE i \in F
    <3>1. PICK n \in 1..nf : f[n] = i
      BY <2>1, <1>7
    <3>2. n \in 1..a /\ ~(n = nf + 1)
      BY <1>4
    <3>3. QED
      BY <3>1, <3>2, <1>12
  <2>2. CASE i \in E
    <3>1. PICK n \in 1..ne : e[n] = i
      BY <2>2, <1>8
    <3>2. n = 1 /\ nf + 1 \in 1..a /\ nf + 1 \notin 1..nf
      BY <1>4, <1>11
    <3>3. c[nf + 1] = e[1]
      BY <3>2, <1>12
    <3>4. QED
      BY <3>1, <3>2, <3>3
  <2>3. CASE i \in O
    BY <2>3, <1>9
  <2>4. QED
    BY <2>1, <2>2, <2>3, <1>5
<1>19. \A m, n \in 1..a : m < n => looksLikeIncompletePart(parts[c[m]].text)
  <2> SUFFICES ASSUME NEW m \in 1..a, NEW n \in 1..a, m < n
               PROVE  looksLikeIncompletePart(parts[c[m]].text)
    OBVIOUS
  <2>0. a \in Nat /\ m \in Nat /\ n \in Nat /\ m # a
    BY <1>4
  <2>1. m \in 1..nf /\ c[m] = f[m]
    BY <1>12, <2>0
  <2>2. QED
    BY <2>1, <1>5, <1>10
<1>20. \A m, n \in 1..a :
         m < n /\ looksLikeIncompletePart(parts[c[n]].text) => c[m] < c[n]
  <2> SUFFICES ASSUME NEW m \in 1..a, NEW n \in 1..a, m < n,
                      looksLikeIncompletePart(parts[c[n]].text)
               PROVE  c[m] < c[n]
    OBVIOUS
  <2>0. a \in Nat /\ m \in Nat /\ n \in Nat /\ m # a
    BY <1>4
  <2>1. m \in 1..nf /\ c[m] = f[m]
    BY <1>12, <2>0
  <2>2. ~(1 \in 1..ne /\ c[n] = e[1])
    BY <1>5, <1>10
  <2>3. n \in 1..nf /\ c[n] = f[n]
    BY <2>2, <1>12
  <2>4. QED
    BY <2>1, <2>3, <1>7
<1>21. \A n \in 1..no : ~looksLikeIncompletePart(parts[l[n]].text)
  BY <1>5, <1>10
<1>22. l \in [1..no -> D]
  BY <1>2
<1> DEFINE Says(u, v, x, y) ==
           /\ assembleParts(parts) = [combined |-> [n \in 1..u |-> parts[x[n]]],
                                      leftovers |-> [n \in 1..v |-> parts[y[n]]]]
           /\ \A m, n \in 1..u : m # n => x[m] # x[n]
           /\ \A m, n \in 1..v : m # n => y[m] # y[n]
           /\ \A m \in 1..u, n \in 1..v : x[m] # y[n]
           /\ \A i \in DOMAIN parts : (\E n \in 1..u : x[n] = i) \/ (\E n \in 1..v : y[n] = i)
           /\ \A m, n \in 1..u : m < n => looksLikeIncompletePart(parts[x[m]].text)
           /\ \A m, n \in 1..u :
                m < n /\ looksLikeIncompletePart(parts[x[n]].text) => x[m] < x[n]
           /\ \A n \in 1..v : ~looksLikeIncompletePart(parts[y[n]].text)
<1>23. Says(a, no, c, l)
  BY <1>14, <1>15, <1>16, <1>17, <1>18, <1>19, <1>20, <1>21
<1> HIDE DEF a, D
<1>24. QED
  <2>1. \E u, v \in Nat : \E x \in [1..u -> DOMAIN parts], y \in [1..v -> DOMAIN parts] :
          Says(u, v, x, y)
    <3> HIDE DEF Says
    <3>1. QED
      BY <1>4, <1>13, <1>22, <1>23 DEF D
  <2>2. QED
    BY <2>1

-----------------------------------------------------------------------------
(* measure: what the characters of a text cost.                              *)

\* The characters that cost two units in the alphabet of the text.
Double(text) == IF IsGsm(text) THEN Extension ELSE Astral
DoubleAt(text, n) == {i \in 1..n : text[i] \in Double(text)}

LEMMA DoublesCount ==
  ASSUME NEW text, NEW n \in Nat
  PROVE  /\ IsFiniteSet(DoubleAt(text, n)) /\ Cardinality(DoubleAt(text, n)) \in Nat
         /\ Units(text, n) = n + Cardinality(DoubleAt(text, n))
<1>1. IsFiniteSet(1..n)
  BY FS_Interval
<1>2. DoubleAt(text, n) \in SUBSET (1..n)
  BY DEF DoubleAt
<1>3. IsFiniteSet(DoubleAt(text, n))
  BY <1>1, <1>2, FS_Subset
<1>4. Cardinality(DoubleAt(text, n)) \in Nat
  BY <1>3, FS_CardinalityType
<1>5. QED
  BY <1>3, <1>4 DEF Units, DoubleAt, Double

\* Every character costs at least one unit.
LEMMA UnitsGrow ==
  ASSUME NEW text, NEW m \in Nat, NEW n \in Nat
  PROVE  /\ Units(text, m) \in Nat /\ Units(text, 0) = 0
         /\ m <= n => Units(text, m) + (n - m) <= Units(text, n)
         /\ Units(text, m) = Units(text, n) => m = n
<1>1. \A k \in Nat : Units(text, k) \in Nat
  BY DoublesCount
<1>2. Units(text, 0) = 0
  <2>1. DoubleAt(text, 0) = {}
    BY DEF DoubleAt
  <2>2. QED
    BY <2>1, DoublesCount, FS_EmptySet
<1>3. ASSUME NEW j \in Nat, NEW k \in Nat, j <= k
      PROVE  Units(text, j) + (k - j) <= Units(text, k)
  <2>1. DoubleAt(text, j) \in SUBSET DoubleAt(text, k)
    BY <1>3 DEF DoubleAt
  <2>2. Cardinality(DoubleAt(text, j)) <= Cardinality(DoubleAt(text, k))
    BY <2>1, DoublesCount, FS_Subset
  <2>3. /\ Cardinality(DoubleAt(text, j)) \in Nat /\ Cardinality(DoubleAt(text, k)) \in Nat
        /\ Units(text, j) = j + Cardinality(DoubleAt(text, j))
        /\ Units(text, k) = k + Cardinality(DoubleAt(text, k))
    BY DoublesCount
  <2>4. QED
    BY <2>2, <2>3
<1>4. Units(text, m) = Units(text, n) => m = n
  <2> SUFFICES ASSUME Units(text, m) = Units(text, n), m # n
               PROVE  FALSE
    OBVIOUS
  <2>1. m < n \/ n < m
    OBVIOUS
  <2>2. CASE m < n
    BY <1>1, <1>3, <2>2
  <2>3. CASE n < m
    BY <1>1, <1>3, <2>3
  <2>4. QED
    BY <2>1, <2>2, <2>3
<1>5. QED
  BY <1>1, <1>2, <1>3, <1>4

\* A slash costs one unit in either alphabet.
LEMMA SlashIsOneUnit ==
  ASSUME NEW text, NEW n \in Nat, text[n + 1] = "/"
  PROVE  Units(text, n + 1) = Units(text, n) + 1
<1>1. "/" \notin Double(text)
  BY DEF Double, Extension, Astral
<1>2. DoubleAt(text, n + 1) = DoubleAt(text, n)
  <2>1. \A i \in 1..(n + 1) : i \in 1..n \/ i = n + 1
    OBVIOUS
  <2>2. \A i \in 1..n : i \in 1..(n + 1)
    OBVIOUS
  <2>3. QED
    BY <1>1, <2>1, <2>2 DEF DoubleAt
<1>3. n + 1 \in Nat
  OBVIOUS
<1>4. /\ Units(text, n) = n + Cardinality(DoubleAt(text, n))
      /\ Units(text, n + 1) = n + 1 + Cardinality(DoubleAt(text, n + 1))
      /\ Cardinality(DoubleAt(text, n)) \in Nat
  BY <1>3, DoublesCount
<1>5. QED
  BY <1>2, <1>4

-----------------------------------------------------------------------------
(* suspicious: which seams of a text look like a mis-join.                   *)

Letters == Cyrillic \cup Latin
\* Two characters of one word in two alphabets.
MixedPair(a, b) == <<a, b>> \in (Cyrillic \X Latin) \cup (Latin \X Cyrillic)

\* What suspicious looks at, at the seam after the first c characters of a text.
SeamAt(text, c) ==
  \/ MixedPair(text[c], text[c + 1])
  \/ text[c] \in Letters /\ c + 2 <= Len(text) /\ text[c + 1] = "/" /\ text[c + 2] = "/"

\* Two neighbouring pieces of a text are judged by the characters at their seam.
LEMMA PiecesMeet ==
  ASSUME NEW text \in Seq(Characters), NEW i \in Nat, NEW c \in Nat, NEW j \in Nat,
         i < c, c < j, j <= Len(text)
  PROVE  /\ suspicious(SubSeq(text, i + 1, c), SubSeq(text, c + 1, j)) => SeamAt(text, c)
         /\ j = Len(text) /\ SeamAt(text, c) =>
              suspicious(SubSeq(text, i + 1, c), SubSeq(text, c + 1, j))
<1> DEFINE s == SubSeq(text, i + 1, c)
           t == SubSeq(text, c + 1, j)
<1>1. Len(text) \in Nat
  BY LenProperties
<1>2. /\ s \in Seq(Characters) /\ Len(s) = c - i
      /\ \A n \in 1..(c - i) : s[n] = text[i + n]
  <2>1. i + 1 \in 1..Len(text) + 1 /\ c \in 0..Len(text) /\ i + 1 \in 1..(Len(text) + 1)
    BY <1>1
  <2>2. Len(s) = IF i + 1 <= c THEN c - (i + 1) + 1 ELSE 0
    BY <2>1, <1>1, SubSeqProperties
  <2>3. QED
    BY <2>1, <2>2, <1>1, SubSeqProperties
<1>3. /\ t \in Seq(Characters) /\ Len(t) = j - c
      /\ \A n \in 1..(j - c) : t[n] = text[c + n]
  <2>1. c + 1 \in 1..(Len(text) + 1) /\ j \in 0..Len(text)
    BY <1>1
  <2>2. Len(t) = IF c + 1 <= j THEN j - (c + 1) + 1 ELSE 0
    BY <2>1, <1>1, SubSeqProperties
  <2>3. QED
    BY <2>1, <2>2, <1>1, SubSeqProperties
<1>4. s # <<>> /\ t # <<>> /\ s[Len(s)] = text[c] /\ t[1] = text[c + 1]
  <2>1. Len(s) # 0 /\ Len(t) # 0 /\ Len(s) \in 1..(c - i) /\ 1 \in 1..(j - c)
    BY <1>2, <1>3
  <2>2. i + Len(s) = c
    BY <1>2
  <2>3. QED
    BY <1>2, <1>3, <2>1, <2>2, EmptySeq
<1>5. Len(t) > 1 => t[2] = text[c + 2] /\ c + 2 <= Len(text)
  BY <1>1, <1>3
<1>6. j = Len(text) /\ c + 2 <= Len(text) => Len(t) > 1
  BY <1>1, <1>3
<1> HIDE DEF s, t
<1>7. suspicious(s, t) <=>
        \/ MixedPair(text[c], text[c + 1])
        \/ text[c] \in Letters /\ Len(t) > 1 /\ text[c + 1] = "/" /\ t[2] = "/"
  <2>1. suspicious(s, t) <=>
          /\ s # <<>> /\ t # <<>>
          /\ \/ MixedPair(s[Len(s)], t[1])
             \/ s[Len(s)] \in Letters /\ Len(t) > 1 /\ t[1] = "/" /\ t[2] = "/"
    BY DEF suspicious, MixedPair, Letters
  <2>2. QED
    BY <1>4, <2>1, Zenon
<1>8. QED
  BY <1>5, <1>6, <1>7 DEF SeamAt, s, t

-----------------------------------------------------------------------------
(* repairGluedParts: when a text is taken apart, and what comes of it.       *)

\* In a clean text no seam looks like a mis-join.
LEMMA CleanSeams ==
  ASSUME NEW text \in Seq(Characters), Clean(text), NEW c \in 1..(Len(text) - 1)
  PROVE  ~SeamAt(text, c)
<1>1. Len(text) \in Nat
  BY LenProperties
<1>2. ~suspicious(SubSeq(text, 1, c), SubSeq(text, c + 1, Len(text)))
  BY DEF Clean
<1>3. c \in Nat /\ 0 < c /\ c < Len(text) /\ 0 \in Nat /\ Len(text) <= Len(text) /\ 0 + 1 = 1
  BY <1>1
<1>4. SeamAt(text, c) => suspicious(SubSeq(text, 0 + 1, c), SubSeq(text, c + 1, Len(text)))
  BY <1>1, <1>3, PiecesMeet
<1>5. QED
  BY <1>2, <1>3, <1>4

\* A part is taken from a slot only if its end, and its start unless it is that of the
\* text, look like mis-joins.
LEMMA FixMeaning ==
  ASSUME NEW text \in Seq(Characters), NEW part \in Nat, NEW short \in Nat, short # 0,
         NEW k \in Nat, NEW fix \in Fix(text, part, short, k)
  PROVE  \E i, j \in 0..Len(text) :
           /\ fix = Moved(text, i, j)
           /\ Units(text, i) = k * part /\ Units(text, j) = k * part + short
           /\ j < Len(text) /\ 0 < j /\ SeamAt(text, j)
           /\ k = 0 \/ (0 < i /\ i < Len(text) /\ SeamAt(text, i))
<1>1. Len(text) \in Nat /\ k * part \in Nat
  BY LenProperties
<1>2. PICK i \in 0..Len(text), j \in 0..Len(text) :
        /\ Units(text, i) = k * part /\ Units(text, j) = k * part + short
        /\ suspicious(SubSeq(text, i + 1, j), SubSeq(text, j + 1, Len(text)))
        /\ k = 0 \/ suspicious(SubSeq(text, 1, i), SubSeq(text, i + 1, j))
        /\ fix = Moved(text, i, j)
  BY DEF Fix, unitToCharIndex
<1>3. i \in Nat /\ j \in Nat
  BY <1>1
<1>4. i < j
  <2> SUFFICES ASSUME j <= i
               PROVE  FALSE
    BY <1>3
  <2>1. Units(text, j) + (i - j) <= Units(text, i) /\ Units(text, j) \in Nat
    BY <1>3, UnitsGrow
  <2>2. QED
    BY <1>1, <1>2, <1>3, <2>1
<1>5. j < Len(text)
  <2> SUFFICES ASSUME j = Len(text)
               PROVE  FALSE
    BY <1>1
  <2>1. SubSeq(text, j + 1, Len(text)) = <<>>
    BY <1>1, <1>3, SubSeqEmpty
  <2>2. QED
    BY <1>2, <2>1 DEF suspicious
<1>6. SeamAt(text, j)
  <2>1. Len(text) <= Len(text)
    BY <1>1
  <2>2. QED
    BY <1>1, <1>2, <1>3, <1>4, <1>5, <2>1, PiecesMeet
<1>7. ASSUME k # 0
      PROVE  0 < i /\ SeamAt(text, i)
  <2>1. suspicious(SubSeq(text, 1, i), SubSeq(text, i + 1, j))
    BY <1>2, <1>7
  <2>2. 0 < i
    <3> SUFFICES ASSUME i = 0
                 PROVE  FALSE
      BY <1>3
    <3>1. SubSeq(text, 1, i) = <<>>
      BY SubSeqEmpty
    <3>2. QED
      BY <2>1, <3>1 DEF suspicious
  <2>3. 0 \in Nat /\ 0 + 1 = 1 /\ j <= Len(text)
    BY <1>5, <1>1
  <2>4. suspicious(SubSeq(text, 0 + 1, i), SubSeq(text, i + 1, j)) => SeamAt(text, i)
    BY <1>3, <1>4, <2>2, <2>3, PiecesMeet
  <2>5. QED
    BY <2>1, <2>2, <2>3, <2>4
<1>8. QED
  BY <1>1, <1>2, <1>3, <1>4, <1>5, <1>6, <1>7

\* The repair leaves the text alone or takes a short part from one of the slots.
LEMMA RepairMeaning ==
  ASSUME NEW text \in Seq(Characters)
  PROVE  /\ Units(text, Len(text)) \in Nat /\ PartSize(text) \in Nat \ {0}
         /\ Units(text, Len(text)) % PartSize(text) \in 0..(PartSize(text) - 1)
         /\ \/ repairGluedParts(text) = text
            \/ /\ Units(text, Len(text)) % PartSize(text) # 0
               /\ \E k \in Nat : repairGluedParts(text)
                                   \in Fix(text, PartSize(text), Units(text, Len(text)) % PartSize(text), k)
<1> DEFINE part == PartSize(text)
           short == Units(text, Len(text)) % part
           fixes == UNION {{<<k, fix>> : fix \in Fix(text, part, short, k)} :
                             k \in 0..(Units(text, Len(text)) \div part) - 1}
<1>1. Units(text, Len(text)) \in Nat
  BY LenProperties, UnitsGrow
<1>2. part \in Nat \ {0}
  BY PartAssumption DEF PartSize
<1>3. short \in 0..(part - 1)
  <2> HIDE DEF part
  <2>1. QED
    BY <1>1, <1>2
<1> HIDE DEF fixes
<1>4. ASSUME short # 0, Cardinality(fixes) = 1
      PROVE  \E k \in Nat : (CHOOSE f \in fixes : TRUE)[2] \in Fix(text, part, short, k)
  <2>1. fixes # {}
    <3>1. Cardinality({}) = 0 /\ Cardinality({}) # 1
      BY FS_EmptySet
    <3>2. Cardinality(fixes) = 1
      BY <1>4
    <3>3. QED
      BY <3>1, <3>2, Zenon
  <2> DEFINE g == CHOOSE f \in fixes : TRUE
  <2>2. g \in fixes
    BY <2>1
  <2>3. \E k \in 0..(Units(text, Len(text)) \div part) - 1 :
          \E fix \in Fix(text, part, short, k) : g = <<k, fix>>
    BY <2>2 DEF fixes
  <2>4. PICK k \in 0..(Units(text, Len(text)) \div part) - 1 :
          \E fix \in Fix(text, part, short, k) : g = <<k, fix>>
    BY <2>3
  <2> HIDE DEF g, part, short, fixes
  <2>5. Units(text, Len(text)) \div part \in Int
    BY <1>1, <1>2
  <2>6. k \in Nat /\ g[2] \in Fix(text, part, short, k)
    BY <2>4, <2>5
  <2>7. QED
    BY <2>6 DEF g
<1>5. repairGluedParts(text) = IF short # 0 /\ Cardinality(fixes) = 1
                               THEN (CHOOSE f \in fixes : TRUE)[2]
                               ELSE text
  BY DEF repairGluedParts, fixes
<1> HIDE DEF short, part
<1>6. QED
  BY <1>1, <1>2, <1>3, <1>4, <1>5 DEF short, part

\* A text without a seam that looks wrong is left alone: the repair never rewrites a
\* correct message (the comment of repairGluedParts).
THEOREM CleanIsLeftAlone ==
  ASSUME NEW text \in Seq(Characters), Clean(text)
  PROVE  repairGluedParts(text) = text
<1> SUFFICES ASSUME repairGluedParts(text) # text
             PROVE  FALSE
  OBVIOUS
<1> DEFINE part == PartSize(text)
           short == Units(text, Len(text)) % part
<1>1. /\ part \in Nat \ {0} /\ short \in 0..(part - 1) /\ short # 0
      /\ \E k \in Nat : repairGluedParts(text) \in Fix(text, part, short, k)
  BY RepairMeaning
<1> HIDE DEF part, short
<1>2. PICK k \in Nat : repairGluedParts(text) \in Fix(text, part, short, k)
  BY <1>1
<1>3. PICK j \in 0..Len(text) : 0 < j /\ j < Len(text) /\ SeamAt(text, j)
  BY <1>1, <1>2, FixMeaning
<1>4. j \in 1..(Len(text) - 1)
  BY <1>3, LenProperties
<1>5. QED
  BY <1>3, <1>4, CleanSeams

\* Where the characters of a text go when a part of it is moved to the end.
LEMMA MovedMeaning ==
  ASSUME NEW text \in Seq(Characters), NEW i \in 0..Len(text), NEW j \in 0..Len(text), i <= j
  PROVE  /\ Moved(text, i, j) \in Seq(Characters) /\ Len(Moved(text, i, j)) = Len(text)
         /\ \A n \in 1..i : Moved(text, i, j)[n] = text[n]
         /\ \A n \in (j + 1)..Len(text) : Moved(text, i, j)[n - (j - i)] = text[n]
         /\ \A n \in (i + 1)..j : Moved(text, i, j)[n + (Len(text) - j)] = text[n]
<1> DEFINE L == Len(text)
           head == SubSeq(text, 1, i)
           rest == SubSeq(text, j + 1, L)
           tail == SubSeq(text, i + 1, j)
           both == head \o rest
<1>1. L \in Nat /\ i \in Nat /\ j \in Nat /\ \A n \in 1..L : text[n] \in Characters
  BY LenProperties, ElementOfSeq
<1> HIDE DEF L
<1>2. head \in Seq(Characters) /\ Len(head) = i /\ \A n \in 1..i : head[n] = text[n]
  <2>1. \A n \in 1..i : text[n] \in Characters
    BY <1>1 DEF L
  <2>2. Len(head) = IF 1 <= i THEN i - 1 + 1 ELSE 0
    BY <1>1, <2>1, SubSeqProperties
  <2>3. head \in Seq(Characters) /\ \A n \in 1..(i - 1 + 1) : head[n] = text[1 + n - 1]
    BY <1>1, <2>1, SubSeqProperties
  <2> HIDE DEF head
  <2>4. QED
    BY <1>1, <2>2, <2>3
<1>3. rest \in Seq(Characters) /\ Len(rest) = L - j /\ \A n \in 1..(L - j) : rest[n] = text[j + n]
  <2>1. \A n \in (j + 1)..L : text[n] \in Characters
    BY <1>1 DEF L
  <2>2. Len(rest) = IF j + 1 <= L THEN L - (j + 1) + 1 ELSE 0
    BY <1>1, <2>1, SubSeqProperties
  <2>3. rest \in Seq(Characters) /\ \A n \in 1..(L - (j + 1) + 1) : rest[n] = text[(j + 1) + n - 1]
    BY <1>1, <2>1, SubSeqProperties
  <2> HIDE DEF rest
  <2>4. L - (j + 1) + 1 = L - j /\ j <= L
    BY <1>1 DEF L
  <2>5. QED
    BY <1>1, <2>2, <2>3, <2>4
<1>4. tail \in Seq(Characters) /\ Len(tail) = j - i /\ \A n \in 1..(j - i) : tail[n] = text[i + n]
  <2>1. \A n \in (i + 1)..j : text[n] \in Characters
    BY <1>1 DEF L
  <2>2. Len(tail) = IF i + 1 <= j THEN j - (i + 1) + 1 ELSE 0
    BY <1>1, <2>1, SubSeqProperties
  <2>3. tail \in Seq(Characters) /\ \A n \in 1..(j - (i + 1) + 1) : tail[n] = text[(i + 1) + n - 1]
    BY <1>1, <2>1, SubSeqProperties
  <2> HIDE DEF tail
  <2>4. j - (i + 1) + 1 = j - i
    BY <1>1
  <2>5. QED
    BY <1>1, <2>2, <2>3, <2>4
<1>5. Moved(text, i, j) = both \o tail
  BY DEF Moved, L
<1> HIDE DEF head, rest, tail
<1>6. /\ both \in Seq(Characters) /\ Len(both) = i + (L - j)
      /\ \A n \in 1..i + (L - j) : both[n] = IF n <= i THEN head[n] ELSE rest[n - i]
  <2>1. /\ head \o rest \in Seq(Characters) /\ Len(head \o rest) = Len(head) + Len(rest)
        /\ \A n \in 1..Len(head) + Len(rest) :
             (head \o rest)[n] = IF n <= Len(head) THEN head[n] ELSE rest[n - Len(head)]
    BY <1>2, <1>3, ConcatProperties
  <2>2. Len(head) = i /\ Len(rest) = L - j
    BY <1>2, <1>3
  <2>3. QED
    BY <2>1, <2>2
<1> HIDE DEF both
<1>7. /\ both \o tail \in Seq(Characters) /\ Len(both \o tail) = i + (L - j) + (j - i)
      /\ \A n \in 1..i + (L - j) + (j - i) :
           (both \o tail)[n] = IF n <= i + (L - j) THEN both[n] ELSE tail[n - (i + (L - j))]
  BY <1>4, <1>6, ConcatProperties
<1>8. j <= L /\ i + (L - j) + (j - i) = L
  BY <1>1 DEF L
<1>9. \A n \in 1..i : (both \o tail)[n] = text[n]
  BY <1>1, <1>2, <1>6, <1>7, <1>8
<1>10. ASSUME NEW n \in (j + 1)..L
       PROVE  (both \o tail)[n - (j - i)] = text[n]
  <2> DEFINE m == n - (j - i)
  <2>1. m \in 1..i + (L - j) /\ m \in 1..i + (L - j) + (j - i) /\ ~(m <= i) /\ m <= i + (L - j)
        /\ m - i \in 1..(L - j) /\ j + (m - i) = n
    BY <1>1, <1>8
  <2> HIDE DEF m
  <2>2. (both \o tail)[m] = both[m] /\ both[m] = rest[m - i] /\ rest[m - i] = text[n]
    BY <1>3, <1>6, <1>7, <2>1
  <2>3. QED
    BY <2>2 DEF m
<1>11. ASSUME NEW n \in (i + 1)..j
       PROVE  (both \o tail)[n + (L - j)] = text[n]
  <2> DEFINE m == n + (L - j)
             b == i + (L - j)
  <2>1. m \in 1..b + (j - i) /\ ~(m <= b) /\ m - b \in 1..(j - i) /\ i + (m - b) = n
    BY <1>1, <1>8
  <2> HIDE DEF m
  <2>2. (both \o tail)[m] = tail[m - b] /\ tail[m - b] = text[n]
    BY <1>4, <1>7, <2>1
  <2>3. QED
    BY <2>2 DEF m
<1>12. QED
  BY <1>5, <1>7, <1>8, <1>9, <1>10, <1>11 DEF L

\* If a text is clean once a part is moved to the end, only the seams of that part look
\* wrong in it, or a slash before one of them that meets another.
LEMMA WrongSeams ==
  ASSUME NEW text \in Seq(Characters), NEW i \in 0..Len(text), NEW j \in 0..Len(text), i <= j,
         Clean(Moved(text, i, j)), NEW c \in 1..(Len(text) - 1), SeamAt(text, c)
  PROVE  \/ c = i \/ c = j
         \/ c = i - 1 /\ i < Len(text) /\ text[i] = "/" /\ text[i + 1] = "/"
         \/ c = j - 1 /\ text[j] = "/"
<1> DEFINE L == Len(text)
           of == Moved(text, i, j)
<1>1. L \in Nat /\ i \in Nat /\ j \in Nat /\ c \in Nat /\ i <= L /\ j <= L /\ c < L /\ 0 < c
  BY LenProperties
<1>2. /\ of \in Seq(Characters) /\ Len(of) = L
      /\ \A n \in 1..i : of[n] = text[n]
      /\ \A n \in (j + 1)..L : of[n - (j - i)] = text[n]
      /\ \A n \in (i + 1)..j : of[n + (L - j)] = text[n]
  BY MovedMeaning
<1>3. \A d \in 1..(L - 1) : ~SeamAt(of, d)
  BY <1>2, CleanSeams
<1> HIDE DEF of, L
\* A seam that is found at another place of the clean text needs the third character.
<1>4. ASSUME NEW d \in 1..(L - 1), of[d] = text[c], of[d + 1] = text[c + 1]
      PROVE  /\ c + 2 <= L /\ text[c + 1] = "/" /\ text[c + 2] = "/"
             /\ ~(d + 2 <= L /\ of[d + 2] = text[c + 2])
  <2>1. ~SeamAt(of, d)
    BY <1>3
  <2>2. QED
    BY <1>2, <1>4, <2>1 DEF SeamAt, L
<1>5. CASE c < i
  <2>1. c \in 1..(L - 1) /\ c \in 1..i /\ c + 1 \in 1..i
    BY <1>1, <1>5
  <2>2. of[c] = text[c] /\ of[c + 1] = text[c + 1]
    BY <1>2, <2>1
  <2>3. /\ c + 2 <= L /\ text[c + 1] = "/" /\ text[c + 2] = "/"
        /\ ~(c + 2 <= L /\ of[c + 2] = text[c + 2])
    BY <1>4, <2>1, <2>2
  <2>4. ~(c + 2 \in 1..i)
    BY <1>2, <2>3
  <2>5. c = i - 1 /\ c + 1 = i /\ c + 2 = i + 1 /\ i < L
    BY <1>1, <1>5, <2>3, <2>4
  <2>6. QED
    BY <2>3, <2>5 DEF L
<1>6. CASE i < c /\ c < j
  <2> DEFINE d == c + (L - j)
  <2>1. d \in 1..(L - 1) /\ c \in (i + 1)..j /\ c + 1 \in (i + 1)..j /\ (c + 1) + (L - j) = d + 1
    BY <1>1, <1>6
  <2>2. of[d] = text[c] /\ of[d + 1] = text[c + 1]
    BY <1>2, <2>1
  <2> HIDE DEF d
  <2>3. /\ c + 2 <= L /\ text[c + 1] = "/" /\ text[c + 2] = "/"
        /\ ~(d + 2 <= L /\ of[d + 2] = text[c + 2])
    BY <1>4, <2>1, <2>2
  <2>4. c + 2 \in (i + 1)..j => d + 2 <= L /\ of[d + 2] = text[c + 2]
    <3>1. SUFFICES ASSUME c + 2 \in (i + 1)..j
                   PROVE  d + 2 <= L /\ of[d + 2] = text[c + 2]
      OBVIOUS
    <3>2. (c + 2) + (L - j) = d + 2 /\ d + 2 <= L
      BY <1>1, <3>1 DEF d
    <3>3. QED
      BY <1>2, <3>1, <3>2
  <2>5. c = j - 1 /\ c + 1 = j
    BY <1>1, <1>6, <2>3, <2>4
  <2>6. QED
    BY <2>3, <2>5
<1>7. CASE j < c
  <2> DEFINE d == c - (j - i)
  <2>1. d \in 1..(L - 1) /\ c \in (j + 1)..L /\ c + 1 \in (j + 1)..L /\ (c + 1) - (j - i) = d + 1
    BY <1>1, <1>7
  <2>2. of[d] = text[c] /\ of[d + 1] = text[c + 1]
    BY <1>2, <2>1
  <2> HIDE DEF d
  <2>3. /\ c + 2 <= L
        /\ ~(d + 2 <= L /\ of[d + 2] = text[c + 2])
    BY <1>4, <2>1, <2>2
  <2>4. c + 2 \in (j + 1)..L /\ (c + 2) - (j - i) = d + 2 /\ d + 2 <= L
    BY <1>1, <1>7, <2>3 DEF d
  <2>5. of[d + 2] = text[c + 2]
    BY <1>2, <2>4
  <2>6. QED
    BY <2>3, <2>4, <2>5
<1>8. QED
  BY <1>1, <1>5, <1>6, <1>7

\* The slots are part units apart: where the ends of two short parts in slots can lie.
LEMMA Slots ==
  ASSUME NEW part \in Nat, NEW short \in Nat, NEW k \in Nat, NEW h \in Nat,
         NEW x, NEW y, x = k * part, y = h * part,
         short # 0, short < part
  PROVE  /\ x \in Nat /\ y \in Nat
         /\ y + short # x /\ y + short + 1 # x + short
         /\ y + short = x + short => y = x
         /\ y + short + 1 = x => short = part - 1 /\ y = x - part /\ (h = 0 => x = part)
<1>1. x \in Nat /\ y \in Nat
  OBVIOUS
<1>2. CASE h = k
  BY <1>1, <1>2
<1>3. CASE h >= k + 1
  <2>1. y = x + (h - k) * part /\ (h - k) * part >= part
    BY <1>3
  <2>2. QED
    BY <1>1, <2>1
<1>4. CASE k = h + 1
  <2>1. x = y + part /\ (h = 0 => y = 0)
    BY <1>4
  <2>2. QED
    BY <1>1, <2>1
<1>5. CASE k >= h + 2
  <2>1. x = y + (k - h) * part /\ (k - h) * part >= part + part
    BY <1>5
  <2>2. QED
    BY <1>1, <2>1
<1>6. QED
  BY <1>2, <1>3, <1>4, <1>5

\* If a clean SMS came with its short segment in one of the slots, the repair gives the
\* SMS or leaves it as it came, for all texts and capacities; the exception is the seam
\* where slashes meet (repairGluedParts).
THEOREM RepairIsRight ==
  ASSUME NEW came \in Seq(Characters), NEW of,
         Slotted(came, of), Clean(of), ~SlashesMeet(came)
  PROVE  repairGluedParts(came) \in {of, came}
<1> SUFFICES ASSUME repairGluedParts(came) # came
             PROVE  repairGluedParts(came) = of
  OBVIOUS
<1> DEFINE part == PartSize(came)
           short == Units(came, Len(came)) % part
<1>1. /\ part \in Nat \ {0} /\ short \in 0..(part - 1) /\ short # 0
      /\ \E k \in Nat : repairGluedParts(came) \in Fix(came, part, short, k)
  BY RepairMeaning
<1>2. \E k \in 0..Len(came) :
        \E i \in unitToCharIndex(came, k * part), j \in unitToCharIndex(came, k * part + short) :
          of = Moved(came, i, j)
  BY DEF Slotted
<1>3. ~(short = part - 1 /\ \E i \in unitToCharIndex(came, part) \ {0, Len(came)} :
                              came[i] = "/" /\ came[i + 1] = "/")
  BY DEF SlashesMeet
<1> HIDE DEF part, short
<1>4. part \in Nat /\ short \in Nat /\ short < part /\ Len(came) \in Nat
  BY <1>1, LenProperties
<1>5. PICK k \in 0..Len(came) :
        \E i \in unitToCharIndex(came, k * part), j \in unitToCharIndex(came, k * part + short) :
          of = Moved(came, i, j)
  BY <1>2
<1>6. PICK i \in unitToCharIndex(came, k * part), j \in unitToCharIndex(came, k * part + short) :
        of = Moved(came, i, j)
  BY <1>5
<1>7. /\ i \in 0..Len(came) /\ j \in 0..Len(came) /\ i \in Nat /\ j \in Nat /\ k \in Nat
      /\ Units(came, i) = k * part /\ Units(came, j) = k * part + short
  BY <1>4 DEF unitToCharIndex
<1>8. PICK h \in Nat : repairGluedParts(came) \in Fix(came, part, short, h)
  BY <1>1
<1>9. PICK s, e \in 0..Len(came) :
        /\ repairGluedParts(came) = Moved(came, s, e)
        /\ Units(came, s) = h * part /\ Units(came, e) = h * part + short
        /\ e < Len(came) /\ 0 < e /\ SeamAt(came, e)
        /\ h = 0 \/ (0 < s /\ s < Len(came) /\ SeamAt(came, s))
  BY <1>1, <1>4, <1>8, FixMeaning
<1>10. i <= j
  <2> SUFFICES ASSUME j < i
               PROVE  FALSE
    BY <1>7
  <2>1. Units(came, j) + (i - j) <= Units(came, i)
    BY <1>7, UnitsGrow
  <2>2. k * part \in Nat
    BY <1>4, <1>7
  <2>3. QED
    BY <1>4, <1>7, <2>1, <2>2
<1>11. s \in Nat /\ e \in Nat /\ e \in 1..(Len(came) - 1)
  BY <1>4, <1>9
<1>12. /\ Units(came, i) \in Nat /\ Units(came, s) \in Nat
       /\ Units(came, j) = Units(came, i) + short /\ Units(came, e) = Units(came, s) + short
       /\ Units(came, e) # Units(came, i) /\ Units(came, e) + 1 # Units(came, j)
       /\ Units(came, e) = Units(came, j) => Units(came, s) = Units(came, i)
       /\ Units(came, e) + 1 = Units(came, i) =>
            /\ short = part - 1 /\ Units(came, s) = Units(came, i) - part
            /\ h = 0 => Units(came, i) = part
  <2> DEFINE x == Units(came, i)
             y == Units(came, s)
  <2>1. x = k * part /\ y = h * part
    BY <1>7, <1>9
  <2>2. /\ x \in Nat /\ y \in Nat
        /\ y + short # x /\ y + short + 1 # x + short
        /\ y + short = x + short => y = x
        /\ y + short + 1 = x => short = part - 1 /\ y = x - part /\ (h = 0 => x = part)
    <3>1. k \in Nat /\ part \in Nat /\ short \in Nat /\ short # 0 /\ short < part
      BY <1>1, <1>4, <1>7
    <3> HIDE DEF x, y
    <3>2. QED
      BY <2>1, <3>1, Slots
  <2>3. Units(came, j) = x + short /\ Units(came, e) = y + short
    BY <1>7, <1>9, <2>1
  <2>4. QED
    BY <2>2, <2>3
\* Where the end of the part that was taken lies.
<1>13. \/ e = i \/ e = j
       \/ e = i - 1 /\ i < Len(came) /\ came[i] = "/" /\ came[i + 1] = "/"
       \/ e = j - 1 /\ came[j] = "/"
  BY <1>6, <1>7, <1>9, <1>10, <1>11, WrongSeams
<1>14. CASE e = j
  <2>1. Units(came, s) = Units(came, i)
    BY <1>14, <1>12
  <2>2. s = i
    BY <1>7, <1>11, <2>1, UnitsGrow
  <2>3. QED
    BY <1>6, <1>9, <1>14, <2>2
<1>15. e # i
  <2> SUFFICES ASSUME e = i
               PROVE  FALSE
    OBVIOUS
  <2>1. QED
    BY <1>12
<1>16. ~(e = j - 1 /\ came[j] = "/")
  <2> SUFFICES ASSUME e = j - 1, came[j] = "/"
               PROVE  FALSE
    OBVIOUS
  <2>1. e + 1 = j
    BY <1>7, <1>11
  <2>2. Units(came, j) = Units(came, e) + 1
    BY <1>11, <2>1, SlashIsOneUnit
  <2>3. QED
    BY <1>12, <2>2
<1>17. ~(e = i - 1 /\ i < Len(came) /\ came[i] = "/" /\ came[i + 1] = "/")
  <2> SUFFICES ASSUME e = i - 1, i < Len(came), came[i] = "/", came[i + 1] = "/"
               PROVE  FALSE
    OBVIOUS
  <2>1. e + 1 = i
    BY <1>7, <1>11
  <2>2. Units(came, i) = Units(came, e) + 1
    BY <1>11, <2>1, SlashIsOneUnit
  <2>3. /\ short = part - 1 /\ Units(came, s) = Units(came, i) - part
        /\ h = 0 => Units(came, i) = part
    BY <1>12, <2>2
  <2>4. h # 0
    <3> SUFFICES ASSUME h = 0
                 PROVE  FALSE
      OBVIOUS
    <3>1. Units(came, i) = part
      BY <1>7, <2>3
    <3>2. i \in unitToCharIndex(came, part) /\ i # 0 /\ i # Len(came)
      BY <1>4, <1>7, <1>11, <2>1, <3>1 DEF unitToCharIndex
    <3>3. QED
      BY <1>3, <2>3, <3>2
  <2>5. 0 < s /\ s < Len(came) /\ SeamAt(came, s) /\ s \in 1..(Len(came) - 1)
    BY <1>4, <1>9, <1>11, <2>4
  <2>6. \/ s = i \/ s = j \/ s = i - 1 \/ (s = j - 1 /\ came[j] = "/")
    BY <1>6, <1>7, <1>10, <2>5, WrongSeams
  <2>7. part > 0 /\ Units(came, s) < Units(came, i) /\ Units(came, i) <= Units(came, j)
    <3>1. /\ Units(came, i) \in Nat /\ Units(came, s) \in Nat
          /\ Units(came, s) = Units(came, i) - part /\ Units(came, j) = Units(came, i) + short
      BY <1>12, <2>3
    <3>2. part > 0
      BY <1>1, <1>4
    <3>3. QED
      BY <1>4, <3>1, <3>2
  <2>8. s # i /\ s # j
    BY <1>4, <1>12, <2>7
  <2>9. s # i - 1
    BY <1>1, <1>4, <1>12, <2>3
  <2>10. ~(s = j - 1 /\ came[j] = "/")
    <3> SUFFICES ASSUME s = j - 1, came[j] = "/"
                 PROVE  FALSE
      OBVIOUS
    <3>1. s + 1 = j
      BY <1>7, <1>11
    <3>2. Units(came, j) = Units(came, s) + 1
      BY <1>11, <3>1, SlashIsOneUnit
    <3>3. QED
      BY <1>1, <1>4, <1>12, <2>3, <3>2
  <2>11. QED
    BY <2>6, <2>8, <2>9, <2>10
<1>18. QED
  BY <1>13, <1>14, <1>15, <1>16, <1>17

-----------------------------------------------------------------------------
(* The inductive invariant, for the scene that is played.                    *)

\* What the gateway posts, as the worker keeps it.
Received(S) == {Repaired(w) : w \in S}

Entries(S) == [row : Nat, text : {w.text : w \in Received(S)}, w : Received(S),
               age : {"new", "quiet", "old"}]

MessageSet(S) == [id : SUBSET {w.id : w \in S}, concat : BOOLEAN, parts : Seq(Received(S))]

\* A message is made of what was received and named after it; one of two parts is made
\* of a full part and another one.
MessageOf(S, m) ==
  /\ m.parts \in Seq(Received(S))
  /\ m.id = {m.parts[i].id : i \in DOMAIN m.parts}
  /\ Len(m.parts) = 2 => /\ looksLikeIncompletePart(m.parts[1].text)
                         /\ m.parts[1].text # m.parts[2].text

\* The jobs of the queue: one at a time, about a text that does not wait yet.
JobsOK(S) ==
  /\ net \subseteq S /\ taken \subseteq Received(S)
  /\ arriving \in [pc : {"idle", "read", "create", "store"}, w : Received(S) \cup {NoJob.w}]
  /\ arriving.pc # "idle" => arriving.w \in Received(S)
  /\ arriving.pc = "create" => ~Waits(arriving.w.text)

\* The buffer: rows in the order of arrival, no text twice.
BufferOK(S) ==
  /\ serial \in Nat
  /\ buffer \in Seq(Entries(S))
  /\ \A i \in DOMAIN buffer : buffer[i].text = buffer[i].w.text /\ buffer[i].row \in 1..serial
  /\ \A i, j \in DOMAIN buffer : i < j => buffer[i].row < buffer[j].row
  /\ \A i, j \in DOMAIN buffer : buffer[i].text = buffer[j].text => i = j

\* A tick runs alone; what it has read is where it was, before what came since.
FlushOK(S) ==
  /\ flush \in [Flushes -> [pc : {"idle", "store", "delete"}, parts : Seq(Entries(S)),
                            todo : Seq(MessageSet(S))]]
  /\ \A f \in Flushes : flush[f].pc # "idle" =>
       /\ running /\ \A g \in Flushes : flush[g].pc # "idle" => g = f
       /\ Len(flush[f].parts) <= Len(buffer)
       /\ \A i \in DOMAIN flush[f].parts : /\ flush[f].parts[i].row = buffer[i].row
                                           /\ flush[f].parts[i].w = buffer[i].w
  /\ \A f \in Flushes : flush[f].pc = "store" =>
       /\ flush[f].todo # <<>>
       /\ \A n \in DOMAIN flush[f].todo : MessageOf(S, flush[f].todo[n])

RowsOK(S) ==
  /\ rows \subseteq MessageSet(S)
  /\ \A r \in rows : MessageOf(S, r)
  /\ \A r, q \in rows : r.id = q.id /\ r.concat = q.concat => r = q

ShapeOK(S) ==
  /\ S \in Scenes
  /\ {endpoint, running} \subseteq BOOLEAN /\ faults \in 0..MaxFaults
  /\ JobsOK(S) /\ BufferOK(S) /\ FlushOK(S) /\ RowsOK(S)

\* The ids a tick has yet to store, and those it has read.
TodoIds(f) == IF flush[f].pc = "store" THEN UNION {flush[f].todo[n].id : n \in DOMAIN flush[f].todo}
              ELSE {}
ReadIds(f) == {flush[f].parts[i].w.id : i \in DOMAIN flush[f].parts}

\* Nothing acknowledged is lost: what a tick has read is stored or about to be.
KeptOK ==
  endpoint =>
    /\ \A w \in taken : w.id \in Held \cup StoredIds
    /\ \A f \in Flushes : flush[f].pc # "idle" => ReadIds(f) \subseteq StoredIds \cup TodoIds(f)

\* A webhook that was posted once is in one place: to come, in its job, in the buffer,
\* or in one message; a tick holds what it is about to store and delete.
ToComeOnce ==
  /\ \A w \in net : w.id \notin repeated =>
       /\ arriving.pc # "idle" => arriving.w.id # w.id
       /\ w.id \notin Held \cup StoredIds
  /\ arriving.pc # "idle" /\ arriving.w.id \notin repeated => arriving.w.id \notin Held \cup StoredIds

\* No tick has read the row at i of the buffer.
Unread(i) == \A f \in Flushes : flush[f].pc # "idle" => Len(flush[f].parts) < i

HeldOnce ==
  /\ \A i, j \in DOMAIN buffer : i # j /\ buffer[i].w.id = buffer[j].w.id => buffer[i].w.id \in repeated
  /\ \A i \in DOMAIN buffer : Unread(i) => buffer[i].w.id \notin StoredIds \ repeated

TodoOnce ==
  \A f \in Flushes : flush[f].pc = "store" =>
    /\ TodoIds(f) \subseteq ReadIds(f)
    /\ TodoIds(f) \cap StoredIds \subseteq repeated
    /\ \A m, n \in DOMAIN flush[f].todo :
         m # n => flush[f].todo[m].id \cap flush[f].todo[n].id \subseteq repeated

InOneRow == \A r, q \in rows : r # q => r.id \cap q.id \subseteq repeated

OnceOK == endpoint /\ ToComeOnce /\ HeldOnce /\ TodoOnce /\ InOneRow

ShapeInv == \E S \in Scenes : ShapeOK(S)
KeptInv == ShapeInv /\ KeptOK
OnceInv == ShapeInv /\ (faults = 0 => OnceOK)

-----------------------------------------------------------------------------
(* What the steps make of the state.                                         *)

\* Repairing changes the text alone.
LEMMA ReceivedMeaning ==
  ASSUME NEW S \in Scenes, NEW w \in S
  PROVE  /\ Repaired(w) = [id |-> w.id, text |-> repairGluedParts(w.came), came |-> w.came, of |-> w.of]
         /\ w.came \in Seq(Characters)
         /\ [Repaired(w) EXCEPT !.text = Repaired(w).came] = w
         /\ \A v \in S : v.id = w.id => v = w
<1>1. /\ w = [id |-> w.id, text |-> w.came, came |-> w.came, of |-> w.of]
      /\ w.came \in Seq(Characters)
      /\ \A v \in S : v.id = w.id => v = w
  BY ConcatAssumption
<1> DEFINE r == repairGluedParts(w.came)
<1> HIDE DEF r
<1>2. [w EXCEPT !.text = r] = [id |-> w.id, text |-> r, came |-> w.came, of |-> w.of]
  BY <1>1
<1>3. Repaired(w) = [id |-> w.id, text |-> r, came |-> w.came, of |-> w.of]
  BY <1>2 DEF Repaired, r
<1>4. [Repaired(w) EXCEPT !.text = Repaired(w).came] = w
  BY <1>1, <1>3
<1>5. QED
  BY <1>1, <1>3, <1>4 DEF r

\* A message of one part.
LEMMA SingleMeaning ==
  ASSUME NEW S \in Scenes, NEW w \in Received(S)
  PROVE  /\ Single(w) \in MessageSet(S) /\ MessageOf(S, Single(w))
         /\ Single(w).id = {w.id} /\ Single(w).concat = FALSE
<1>1. w.id \in {v.id : v \in S}
  <2>1. PICK v \in S : w = Repaired(v)
    BY DEF Received
  <2>2. w.id = v.id
    BY <2>1, ReceivedMeaning
  <2>3. QED
    BY <2>2
<1>2. <<w>> \in Seq(Received(S)) /\ Len(<<w>>) = 1 /\ DOMAIN <<w>> = 1..1 /\ <<w>>[1] = w
  OBVIOUS
<1>3. {<<w>>[i].id : i \in DOMAIN <<w>>} = {w.id}
  BY <1>2
<1> DEFINE p == <<w>>
<1> HIDE DEF p
<1>4. /\ [id |-> {w.id}, concat |-> FALSE, parts |-> p] \in MessageSet(S)
      /\ MessageOf(S, [id |-> {w.id}, concat |-> FALSE, parts |-> p])
  BY <1>1, <1>2, <1>3 DEF p, MessageSet, MessageOf
<1>5. QED
  BY <1>4 DEF Single, p

\* The messages of a set: each is made of the rows at some positions, and every row
\* goes into one of them.
LEMMA MessagesMeaning ==
  ASSUME NEW S \in Scenes, BufferOK(S)
  PROVE  \E count \in Nat : \E where \in [1..count -> SUBSET DOMAIN buffer] :
           LET todo == Messages(assembleParts(buffer))
           IN  /\ todo \in Seq(MessageSet(S)) /\ Len(todo) = count
               /\ \A n \in 1..count : /\ MessageOf(S, todo[n])
                                      /\ todo[n].id = {buffer[i].w.id : i \in where[n]}
               /\ \A m, n \in 1..count : m # n => where[m] \cap where[n] = {}
               /\ \A i \in DOMAIN buffer : \E n \in 1..count : i \in where[n]
<1> DEFINE D == DOMAIN buffer
           set == assembleParts(buffer)
<1>1. /\ buffer \in Seq(Entries(S))
      /\ \A i \in D : buffer[i].w \in Received(S) /\ buffer[i].text = buffer[i].w.text
      /\ \A i, j \in D : buffer[i].text = buffer[j].text => i = j
  <2>1. buffer \in Seq(Entries(S))
    BY DEF BufferOK
  <2>2. \A i \in D : buffer[i] \in Entries(S)
    BY <2>1, ElementOfSeq
  <2>3. QED
    BY <2>1, <2>2 DEF BufferOK, Entries
<1>2. PICK a \in Nat, b \in Nat : \E c \in [1..a -> DOMAIN buffer], l \in [1..b -> DOMAIN buffer] :
           /\ assembleParts(buffer) = [combined |-> [n \in 1..a |-> buffer[c[n]]],
                                      leftovers |-> [n \in 1..b |-> buffer[l[n]]]]
           /\ \A m, n \in 1..a : m # n => c[m] # c[n]
           /\ \A m, n \in 1..b : m # n => l[m] # l[n]
           /\ \A m \in 1..a, n \in 1..b : c[m] # l[n]
           /\ \A i \in DOMAIN buffer : (\E n \in 1..a : c[n] = i) \/ (\E n \in 1..b : l[n] = i)
           /\ \A m, n \in 1..a : m < n => looksLikeIncompletePart(buffer[c[m]].text)
           /\ \A m, n \in 1..a :
                m < n /\ looksLikeIncompletePart(buffer[c[n]].text) => c[m] < c[n]
           /\ \A n \in 1..b : ~looksLikeIncompletePart(buffer[l[n]].text)
  <2> HIDE DEF D, set
  <2>1. QED
    BY <1>1, AssembleKeepsEveryPart
<1>3. PICK c \in [1..a -> DOMAIN buffer], l \in [1..b -> DOMAIN buffer] :
           /\ assembleParts(buffer) = [combined |-> [n \in 1..a |-> buffer[c[n]]],
                                      leftovers |-> [n \in 1..b |-> buffer[l[n]]]]
           /\ \A m, n \in 1..a : m # n => c[m] # c[n]
           /\ \A m, n \in 1..b : m # n => l[m] # l[n]
           /\ \A m \in 1..a, n \in 1..b : c[m] # l[n]
           /\ \A i \in DOMAIN buffer : (\E n \in 1..a : c[n] = i) \/ (\E n \in 1..b : l[n] = i)
           /\ \A m, n \in 1..a : m < n => looksLikeIncompletePart(buffer[c[m]].text)
           /\ \A m, n \in 1..a :
                m < n /\ looksLikeIncompletePart(buffer[c[n]].text) => c[m] < c[n]
           /\ \A n \in 1..b : ~looksLikeIncompletePart(buffer[l[n]].text)
  <2> HIDE DEF D, set
  <2>1. QED
    BY <1>2
<1> DEFINE com == [n \in 1..a |-> buffer[c[n]]]
           left == [n \in 1..b |-> buffer[l[n]]]
           parts == [n \in 1..a |-> buffer[c[n]].w]
           mess == [id |-> {buffer[c[n]].w.id : n \in 1..a}, concat |-> TRUE, parts |-> parts]
           first == IF a = 0 THEN <<>> ELSE <<mess>>
           rest == [n \in 1..b |-> Single(buffer[l[n]].w)]
           p == IF a = 0 THEN 0 ELSE 1
           where == [n \in 1..(p + b) |-> IF n <= p THEN {c[m] : m \in 1..a} ELSE {l[n - p]}]
<1>4. com \in Seq(Entries(S)) /\ Len(com) = a /\ left \in Seq(Entries(S)) /\ Len(left) = b
  <2>1. \A i \in D : buffer[i] \in Entries(S)
    BY <1>1, ElementOfSeq
  <2>2. \A n \in 1..a : c[n] \in D
    OBVIOUS
  <2>3. \A n \in 1..b : l[n] \in D
    OBVIOUS
  <2>4. com \in [1..a -> Entries(S)] /\ left \in [1..b -> Entries(S)]
    BY <2>1, <2>2, <2>3
  <2>5. QED
    BY <2>4, IsASeq, LenProperties
<1>5. parts \in Seq(Received(S)) /\ Len(parts) = a
  <2>1. \A n \in 1..a : c[n] \in D /\ buffer[c[n]].w \in Received(S)
    BY <1>1
  <2>2. parts \in [1..a -> Received(S)]
    BY <2>1
  <2>3. QED
    BY <2>2, IsASeq, LenProperties
<1>6. rest \in Seq(MessageSet(S)) /\ Len(rest) = b
  <2>1. \A n \in 1..b : l[n] \in D /\ buffer[l[n]].w \in Received(S)
    BY <1>1
  <2>2. \A n \in 1..b : Single(buffer[l[n]].w) \in MessageSet(S)
    BY <2>1, SingleMeaning
  <2>3. rest \in [1..b -> MessageSet(S)]
    BY <2>2
  <2>4. QED
    BY <2>3, IsASeq, LenProperties
<1>7. mess \in MessageSet(S) /\ MessageOf(S, mess)
  <2>1. \A n \in 1..a : c[n] \in D /\ buffer[c[n]].w \in Received(S)
    BY <1>1
  <2>2. \A w \in Received(S) : w.id \in {v.id : v \in S}
    <3> SUFFICES ASSUME NEW w \in Received(S)
                 PROVE  w.id \in {v.id : v \in S}
      OBVIOUS
    <3>1. PICK v \in S : w = Repaired(v)
      BY DEF Received
    <3>2. w.id = v.id
      BY <3>1, ReceivedMeaning
    <3>3. QED
      BY <3>2
  <2>3. {buffer[c[n]].w.id : n \in 1..a} \in SUBSET {v.id : v \in S}
    BY <2>1, <2>2
  <2>4. DOMAIN parts = 1..a /\ \A n \in 1..a : parts[n] = buffer[c[n]].w
    BY <1>5
  <2>5. {parts[n].id : n \in DOMAIN parts} = {buffer[c[n]].w.id : n \in 1..a}
    BY <2>4
  <2>6. ASSUME a = 2
        PROVE  looksLikeIncompletePart(parts[1].text) /\ parts[1].text # parts[2].text
    <3>1. 1 \in 1..a /\ 2 \in 1..a /\ 1 # 2 /\ 1 < 2
      BY <2>6
    <3>2. c[1] # c[2] /\ looksLikeIncompletePart(buffer[c[1]].text)
      BY <1>3, <3>1
    <3>3. c[1] \in D /\ c[2] \in D /\ parts[1] = buffer[c[1]].w /\ parts[2] = buffer[c[2]].w
      BY <2>1, <2>4, <3>1
    <3> HIDE DEF parts
    <3>4. QED
      BY <1>1, <3>2, <3>3
  <2> HIDE DEF parts
  <2>7. mess.parts = parts /\ mess.id = {buffer[c[n]].w.id : n \in 1..a}
    OBVIOUS
  <2>8. mess \in MessageSet(S)
    BY <1>5, <2>3 DEF MessageSet
  <2> HIDE DEF mess
  <2>9. QED
    BY <1>5, <2>5, <2>6, <2>7, <2>8 DEF MessageOf
<1>8. Messages(set) = first \o rest
  <2>1. set.combined = com /\ set.leftovers = left
    BY <1>3
  <2>2. com = <<>> <=> a = 0
    <3> HIDE DEF com
    <3>1. QED
      BY <1>4, EmptySeq
  <2>3. /\ DOMAIN com = 1..a /\ \A n \in 1..a : com[n] = buffer[c[n]]
        /\ DOMAIN left = 1..b /\ \A n \in 1..b : left[n] = buffer[l[n]]
    OBVIOUS
  <2> HIDE DEF set, com, left
  <2>4. {com[n].w.id : n \in DOMAIN com} = {buffer[c[n]].w.id : n \in 1..a}
    BY <2>3
  <2>5. [n \in DOMAIN com |-> com[n].w] = parts
    BY <2>3
  <2>6. [n \in DOMAIN left |-> Single(left[n].w)] = rest
    BY <2>3, Zenon
  <2>7. Messages(set) = (IF com = <<>> THEN <<>> ELSE <<[id |-> {com[n].w.id : n \in DOMAIN com}, concat |-> TRUE, parts |-> [n \in DOMAIN com |-> com[n].w]]>>) \o [n \in DOMAIN left |-> Single(left[n].w)]
    BY <2>1 DEF Messages
  <2> HIDE DEF parts, rest
  <2>8. QED
    BY <2>2, <2>4, <2>5, <2>6, <2>7
<1>9. p \in Nat /\ p + b \in Nat /\ first \in Seq(MessageSet(S)) /\ Len(first) = p /\ (p = 0 <=> a = 0) /\ (p # 0 => p = 1 /\ first[1] = mess)
  <2> HIDE DEF mess
  <2>1. QED
    BY <1>7
<1>10. /\ first \o rest \in Seq(MessageSet(S)) /\ Len(first \o rest) = p + b
       /\ \A n \in 1..(p + b) : (first \o rest)[n] = IF n <= p THEN first[n] ELSE rest[n - p]
  <2> HIDE DEF first, rest, p
  <2>1. QED
    BY <1>6, <1>9, ConcatProperties
<1>11. where \in [1..(p + b) -> SUBSET D]
  <2>1. \A n \in 1..(p + b) : (IF n <= p THEN {c[m] : m \in 1..a} ELSE {l[n - p]}) \in SUBSET D
    <3> SUFFICES ASSUME NEW n \in 1..(p + b)
                 PROVE  (IF n <= p THEN {c[m] : m \in 1..a} ELSE {l[n - p]}) \in SUBSET D
      OBVIOUS
    <3> HIDE DEF p
    <3>1. CASE n <= p
      BY <3>1
    <3>2. CASE ~(n <= p)
      <4>1. n - p \in 1..b
        BY <3>2, <1>9
      <4>2. QED
        BY <3>2, <4>1
    <3>3. QED
      BY <3>1, <3>2
  <2> HIDE DEF p
  <2>2. QED
    BY <2>1
<1>12. \A n \in 1..(p + b) :
         /\ n <= p => where[n] = {c[m] : m \in 1..a} /\ (first \o rest)[n] = mess
         /\ ~(n <= p) => /\ n - p \in 1..b /\ where[n] = {l[n - p]}
                         /\ (first \o rest)[n] = Single(buffer[l[n - p]].w)
  <2> SUFFICES ASSUME NEW n \in 1..(p + b)
               PROVE  /\ n <= p => where[n] = {c[m] : m \in 1..a} /\ (first \o rest)[n] = mess
                      /\ ~(n <= p) => /\ n - p \in 1..b /\ where[n] = {l[n - p]}
                                      /\ (first \o rest)[n] = Single(buffer[l[n - p]].w)
    OBVIOUS
  <2>1. n <= p => where[n] = {c[m] : m \in 1..a}
    <3> HIDE DEF p
    <3>1. QED
      OBVIOUS
  <2>2. ~(n <= p) => where[n] = {l[n - p]} /\ n - p \in 1..b
    <3> HIDE DEF p
    <3>1. QED
      BY <1>9
  <2>3. \A m \in 1..b : rest[m] = Single(buffer[l[m]].w)
    OBVIOUS
  <2> HIDE DEF where, first, rest, p, mess
  <2>4. n <= p => n = 1 /\ p # 0
    BY <1>9
  <2>5. QED
    BY <1>9, <1>10, <2>1, <2>2, <2>3, <2>4
<1>13. \A n \in 1..(p + b) : /\ MessageOf(S, (first \o rest)[n])
                            /\ (first \o rest)[n].id = {buffer[i].w.id : i \in where[n]}
  <2> SUFFICES ASSUME NEW n \in 1..(p + b)
               PROVE  /\ MessageOf(S, (first \o rest)[n])
                      /\ (first \o rest)[n].id = {buffer[i].w.id : i \in where[n]}
    OBVIOUS
  <2>1. mess.id = {buffer[c[m]].w.id : m \in 1..a}
    OBVIOUS
  <2>2. {buffer[c[m]].w.id : m \in 1..a} = {buffer[i].w.id : i \in {c[m] : m \in 1..a}}
    OBVIOUS
  <2> HIDE DEF where, first, rest, p, mess
  <2>3. CASE n <= p
    BY <1>7, <1>12, <2>1, <2>2, <2>3
  <2>4. CASE ~(n <= p)
    <3>1. l[n - p] \in D /\ buffer[l[n - p]].w \in Received(S)
      BY <1>1, <1>12, <2>4
    <3>2. /\ MessageOf(S, Single(buffer[l[n - p]].w))
          /\ Single(buffer[l[n - p]].w).id = {buffer[l[n - p]].w.id}
      BY <3>1, SingleMeaning
    <3>3. where[n] = {l[n - p]} /\ (first \o rest)[n] = Single(buffer[l[n - p]].w)
      BY <1>12, <2>4
    <3>4. {buffer[i].w.id : i \in where[n]} = {buffer[l[n - p]].w.id}
      BY <3>3
    <3>5. QED
      BY <3>2, <3>3, <3>4
  <2>5. QED
    BY <2>3, <2>4
<1>14. ASSUME NEW m \in 1..(p + b), NEW n \in 1..(p + b), m # n
       PROVE  where[m] \cap where[n] = {}
  <2>1. m \in Nat /\ n \in Nat /\ (p = 0 \/ p = 1)
    BY <1>9
  <2> HIDE DEF where, first, rest, p, mess
  <2>2. CASE m <= p
    <3>1. ~(n <= p)
      BY <1>14, <2>1, <2>2
    <3>2. where[m] = {c[k] : k \in 1..a} /\ where[n] = {l[n - p]} /\ n - p \in 1..b
      BY <1>12, <2>2, <3>1
    <3>3. QED
      BY <1>3, <3>2
  <2>3. CASE n <= p
    <3>1. ~(m <= p)
      BY <1>14, <2>1, <2>3
    <3>2. where[n] = {c[k] : k \in 1..a} /\ where[m] = {l[m - p]} /\ m - p \in 1..b
      BY <1>12, <2>3, <3>1
    <3>3. QED
      BY <1>3, <3>2
  <2>4. CASE ~(m <= p) /\ ~(n <= p)
    <3>1. /\ where[m] = {l[m - p]} /\ m - p \in 1..b
          /\ where[n] = {l[n - p]} /\ n - p \in 1..b
      BY <1>12, <2>4
    <3>2. m - p # n - p
      BY <1>14, <2>1
    <3>3. QED
      BY <1>3, <3>1, <3>2
  <2>5. QED
    BY <2>2, <2>3, <2>4
<1>15. ASSUME NEW i \in D
       PROVE  \E n \in 1..(p + b) : i \in where[n]
  <2>1. (\E n \in 1..a : c[n] = i) \/ (\E n \in 1..b : l[n] = i)
    BY <1>3
  <2>2. p = 0 \/ p = 1
    BY <1>9
  <2> HIDE DEF where, first, rest, p, mess
  <2>3. CASE \E n \in 1..a : c[n] = i
    <3>1. p = 1
      BY <1>9, <2>2, <2>3
    <3>2. 1 \in 1..(p + b) /\ 1 <= p
      BY <3>1
    <3>3. where[1] = {c[m] : m \in 1..a}
      BY <1>12, <3>2
    <3>4. i \in where[1]
      BY <2>3, <3>3
    <3>5. QED
      BY <3>2, <3>4
  <2>4. CASE \E n \in 1..b : l[n] = i
    <3>1. PICK n \in 1..b : l[n] = i
      BY <2>4
    <3>2. n + p \in 1..(p + b) /\ ~(n + p <= p) /\ (n + p) - p = n
      BY <2>2
    <3>3. where[n + p] = {l[n]}
      BY <1>12, <3>2
    <3>4. QED
      BY <3>1, <3>2, <3>3
  <2>5. QED
    BY <2>1, <2>3, <2>4
<1>16. QED
  <2> DEFINE count == p + b
             todo == Messages(assembleParts(buffer))
  <2>1. todo = first \o rest
    BY <1>8
  <2>2. count \in Nat /\ where \in [1..count -> SUBSET DOMAIN buffer]
    BY <1>9, <1>11
  <2>3. /\ todo \in Seq(MessageSet(S)) /\ Len(todo) = count
        /\ \A n \in 1..count : /\ MessageOf(S, todo[n])
                               /\ todo[n].id = {buffer[i].w.id : i \in where[n]}
    <3> HIDE DEF where, first, rest, p, mess, todo
    <3>1. QED
      BY <1>10, <1>13, <2>1
  <2>4. /\ \A m, n \in 1..count : m # n => where[m] \cap where[n] = {}
        /\ \A i \in DOMAIN buffer : \E n \in 1..count : i \in where[n]
    <3> HIDE DEF where, p
    <3>1. QED
      BY <1>14, <1>15
  <2> HIDE DEF where, count, first, rest, p, mess, todo
  <2>5. /\ todo \in Seq(MessageSet(S)) /\ Len(todo) = count
        /\ \A n \in 1..count : /\ MessageOf(S, todo[n])
                               /\ todo[n].id = {buffer[i].w.id : i \in where[n]}
        /\ \A m, n \in 1..count : m # n => where[m] \cap where[n] = {}
        /\ \A i \in DOMAIN buffer : \E n \in 1..count : i \in where[n]
    BY <2>3, <2>4
  <2>6. QED
    BY <2>2, <2>5 DEF todo

\* Deleting what was read leaves the rows that came after it, in their order.
LEMMA LeftMeaning ==
  ASSUME NEW S \in Scenes, BufferOK(S), NEW parts \in Seq(Entries(S)), Len(parts) <= Len(buffer),
         \A i \in DOMAIN parts : parts[i].row = buffer[i].row
  PROVE  \E count \in Nat :
         \E f \in [1..count -> {i \in DOMAIN buffer : i > Len(parts)}] :
           /\ Left(parts) = [n \in 1..count |-> buffer[f[n]]]
           /\ \A m, n \in 1..count : m < n => f[m] < f[n]
           /\ \A i \in DOMAIN buffer : i > Len(parts) => \E n \in 1..count : f[n] = i
<1> DEFINE P == {i \in DOMAIN buffer : \A j \in DOMAIN parts : parts[j].row # buffer[i].row}
<1>1. /\ buffer \in Seq(Entries(S)) /\ Len(buffer) \in Nat /\ DOMAIN buffer = 1..Len(buffer)
      /\ Len(parts) \in Nat /\ DOMAIN parts = 1..Len(parts)
      /\ \A i, j \in DOMAIN buffer : i < j => buffer[i].row < buffer[j].row
      /\ \A i \in DOMAIN buffer : buffer[i].row \in Nat
  <2>1. buffer \in Seq(Entries(S))
    BY DEF BufferOK
  <2>2. \A i \in DOMAIN buffer : buffer[i] \in Entries(S)
    BY <2>1, ElementOfSeq
  <2>3. \A i \in DOMAIN buffer : buffer[i].row \in Nat
    BY <2>2 DEF Entries
  <2>4. \A i, j \in DOMAIN buffer : i < j => buffer[i].row < buffer[j].row
    BY DEF BufferOK
  <2>5. QED
    BY <2>1, <2>3, <2>4, LenProperties
<1>2. P = {i \in DOMAIN buffer : i > Len(parts)}
  <2> SUFFICES ASSUME NEW i \in DOMAIN buffer
               PROVE  (\A j \in DOMAIN parts : parts[j].row # buffer[i].row) <=> i > Len(parts)
    OBVIOUS
  <2>1. ASSUME i > Len(parts), NEW j \in DOMAIN parts
        PROVE  parts[j].row # buffer[i].row
    <3>1. j \in DOMAIN buffer /\ j < i
      BY <1>1, <2>1
    <3>2. buffer[j].row < buffer[i].row /\ buffer[j].row \in Nat /\ buffer[i].row \in Nat
      BY <1>1, <3>1
    <3>3. QED
      BY <3>2
  <2>2. ASSUME ~(i > Len(parts))
        PROVE  \E j \in DOMAIN parts : parts[j].row = buffer[i].row
    <3>1. i \in DOMAIN parts
      BY <1>1, <2>2
    <3>2. QED
      BY <3>1
  <2>3. QED
    BY <2>1, <2>2
<1>3. IsFiniteSet(P) /\ DOMAIN buffer \subseteq Nat /\ P \subseteq DOMAIN buffer
  <2>1. IsFiniteSet(1..Len(buffer))
    BY <1>1, FS_Interval
  <2>2. P \in SUBSET (1..Len(buffer))
    BY <1>1
  <2>3. DOMAIN buffer \subseteq Nat /\ P \subseteq DOMAIN buffer
    BY <1>1
  <2> HIDE DEF P
  <2>4. IsFiniteSet(P)
    BY <2>1, <2>2, FS_Subset
  <2>5. QED
    BY <2>3, <2>4
<1>4. Left(parts) = At(buffer, P)
  BY DEF Left
<1>5. Cardinality(P) \in Nat
  BY <1>3, FS_CardinalityType
<1> HIDE DEF P
<1>6. PICK f \in [1..Cardinality(P) -> P] : Numbers(buffer, P, f)
  BY <1>3, AtMeaning
<1>7. /\ Left(parts) = [n \in 1..Cardinality(P) |-> buffer[f[n]]]
      /\ \A m, n \in 1..Cardinality(P) : m < n => f[m] < f[n]
      /\ \A i \in P : \E n \in 1..Cardinality(P) : f[n] = i
  BY <1>4, <1>6 DEF Numbers
<1>8. \A i \in DOMAIN buffer : i > Len(parts) => \E n \in 1..Cardinality(P) : f[n] = i
  BY <1>2, <1>7
<1>9. f \in [1..Cardinality(P) -> {i \in DOMAIN buffer : i > Len(parts)}]
  BY <1>2, <1>6
<1>10. QED
  BY <1>5, <1>7, <1>8, <1>9

\* Storing a message: it is stored if it was not, and nothing else is.
LEMMA PersistedMeaning ==
  ASSUME NEW S \in Scenes, RowsOK(S), NEW m \in MessageSet(S), MessageOf(S, m), rows' = Persisted(m)
  PROVE  /\ RowsOK(S)'
         /\ rows \subseteq rows' /\ rows' \subseteq rows \cup {m}
         /\ StoredIds' = StoredIds \cup m.id
<1>1. CASE \E r \in rows : r.id = m.id /\ r.concat = m.concat
  <2>1. rows' = rows
    BY <1>1 DEF Persisted
  <2>2. StoredIds' = StoredIds /\ RowsOK(S)'
    BY <2>1 DEF StoredIds, RowsOK
  <2>3. m.id \subseteq StoredIds
    BY <1>1 DEF StoredIds
  <2>4. QED
    BY <2>1, <2>2, <2>3
<1>2. CASE ~\E r \in rows : r.id = m.id /\ r.concat = m.concat
  <2>1. rows' = rows \cup {m}
    BY <1>2 DEF Persisted
  <2>2. StoredIds' = StoredIds \cup m.id
    BY <2>1 DEF StoredIds
  <2>3. RowsOK(S)'
    BY <1>2, <2>1 DEF RowsOK
  <2>4. QED
    BY <2>1, <2>2, <2>3
<1>3. QED
  BY <1>1, <1>2

\* What a step leaves alone stays in order.
LEMMA Frames ==
  ASSUME NEW S
  PROVE  /\ JobsOK(S) /\ UNCHANGED <<net, arriving, taken, buffer>> => JobsOK(S)'
         /\ BufferOK(S) /\ UNCHANGED <<serial, buffer>> => BufferOK(S)'
         /\ FlushOK(S) /\ UNCHANGED <<flush, running, buffer>> => FlushOK(S)'
         /\ RowsOK(S) /\ UNCHANGED rows => RowsOK(S)'
<1>1. JobsOK(S) /\ UNCHANGED <<net, arriving, taken, buffer>> => JobsOK(S)'
  BY DEF JobsOK, Waits
<1>2. BufferOK(S) /\ UNCHANGED <<serial, buffer>> => BufferOK(S)'
  BY DEF BufferOK
<1>3. FlushOK(S) /\ UNCHANGED <<flush, running, buffer>> => FlushOK(S)'
  BY DEF FlushOK
<1>4. RowsOK(S) /\ UNCHANGED rows => RowsOK(S)'
  BY DEF RowsOK
<1>5. QED
  BY <1>1, <1>2, <1>3, <1>4

\* A job that ends leaves the jobs in order.
LEMMA DoneJobs ==
  ASSUME NEW S, JobsOK(S), arriving.pc # "idle", Done(arriving.w), UNCHANGED net
  PROVE  JobsOK(S)'
<1>1. arriving' = NoJob /\ taken' \subseteq taken \cup {arriving.w} /\ arriving.w \in Received(S)
  BY DEF Done, JobsOK
<1>2. NoJob.pc = "idle" /\ NoJob \in [pc : {"idle", "read", "create", "store"}, w : Received(S) \cup {NoJob.w}]
  BY DEF NoJob
<1> HIDE DEF NoJob
<1>3. QED
  BY <1>1, <1>2 DEF JobsOK

\* No tick, no message in the making.
LEMMA NoFlushOK ==
  ASSUME NEW S
  PROVE  /\ NoFlush.pc = "idle"
         /\ NoFlush \in [pc : {"idle", "store", "delete"}, parts : Seq(Entries(S)), todo : Seq(MessageSet(S))]
BY EmptySeq DEF NoFlush

\* When its tick ends there is none.
LEMMA EndedFlush ==
  ASSUME NEW S, FlushOK(S), NEW f \in Flushes, flush[f].pc # "idle", EndFlush(f)
  PROVE  FlushOK(S)' /\ \A g \in Flushes : flush'[g].pc = "idle"
<1>1. flush' = [flush EXCEPT ![f] = NoFlush]
  BY DEF EndFlush
<1>2. \A g \in Flushes : flush[g].pc # "idle" => g = f
  BY DEF FlushOK
<1>3. DOMAIN flush = Flushes
  BY DEF FlushOK
<1>4. \A g \in Flushes : flush'[g].pc = "idle"
  BY <1>1, <1>2, <1>3, NoFlushOK
<1>5. flush' \in [Flushes -> [pc : {"idle", "store", "delete"}, parts : Seq(Entries(S)),
                              todo : Seq(MessageSet(S))]]
  BY <1>1, NoFlushOK DEF FlushOK
<1>6. QED
  BY <1>4, <1>5 DEF FlushOK

\* The initial states have the shape.
LEMMA InitShape ==
  ASSUME Init
  PROVE  ShapeOK(net)
<1>1. net \in Scenes /\ MaxFaults \in Nat
  BY ConcatAssumption DEF Init
<1>2. JobsOK(net)
  <2>1. arriving.pc = "idle" /\ arriving \in [pc : {"idle", "read", "create", "store"}, w : Received(net) \cup {NoJob.w}]
    BY DEF Init, NoJob
  <2>2. taken \subseteq Received(net)
    BY DEF Init
  <2>3. QED
    BY <2>1, <2>2 DEF JobsOK
<1>3. BufferOK(net)
  <2>1. buffer = <<>> /\ serial = 0
    BY DEF Init
  <2>2. buffer \in Seq(Entries(net)) /\ DOMAIN buffer = {}
    BY <2>1
  <2>3. QED
    BY <2>1, <2>2 DEF BufferOK
<1>4. FlushOK(net)
  <2>1. flush = [f \in Flushes |-> NoFlush]
    BY DEF Init
  <2>2. QED
    BY <2>1, NoFlushOK DEF FlushOK
<1>5. RowsOK(net)
  BY DEF Init, RowsOK
<1>6. {endpoint, running} \subseteq BOOLEAN /\ faults \in 0..MaxFaults
  <2>1. faults \in 0..MaxFaults
    BY <1>1 DEF Init
  <2>2. endpoint = TRUE /\ running = FALSE
    BY DEF Init
  <2>3. QED
    BY <2>1, <2>2
<1>7. QED
  BY <1>1, <1>2, <1>3, <1>4, <1>5, <1>6 DEF ShapeOK

\* Holding a segment back appends it to the buffer.
LEMMA HoldMeaning ==
  ASSUME NEW S, JobsOK(S), BufferOK(S), Hold
  PROVE  LET new == [row |-> serial + 1, text |-> arriving.w.text, w |-> arriving.w, age |-> "new"]
         IN  /\ arriving.pc = "create" /\ arriving.w \in Received(S)
             /\ new \in Entries(S) /\ \A i \in DOMAIN buffer : buffer[i].text # new.text
             /\ buffer' \in Seq(Entries(S)) /\ Len(buffer') = Len(buffer) + 1 /\ Len(buffer) \in Nat
             /\ DOMAIN buffer = 1..Len(buffer) /\ DOMAIN buffer' = 1..(Len(buffer) + 1)
             /\ \A i \in 1..Len(buffer) : buffer'[i] = buffer[i]
             /\ buffer'[Len(buffer) + 1] = new
             /\ Held' = Held \cup {arriving.w.id}
<1> DEFINE new == [row |-> serial + 1, text |-> arriving.w.text, w |-> arriving.w, age |-> "new"]
<1>1. arriving.pc = "create" /\ buffer' = Append(buffer, new)
  BY DEF Hold
<1>2. /\ serial \in Nat /\ buffer \in Seq(Entries(S))
      /\ ~Waits(arriving.w.text) /\ arriving.w \in Received(S)
  BY <1>1 DEF JobsOK, BufferOK
<1>3. new \in Entries(S) /\ new.text = arriving.w.text /\ new.w = arriving.w
  BY <1>2 DEF Entries
<1>4. \A i \in DOMAIN buffer : buffer[i].text # new.text
  BY <1>2, <1>3 DEF Waits
<1> HIDE DEF new
<1>5. /\ buffer' \in Seq(Entries(S)) /\ Len(buffer') = Len(buffer) + 1
      /\ \A i \in 1..Len(buffer) : buffer'[i] = buffer[i]
      /\ buffer'[Len(buffer) + 1] = new
  BY <1>1, <1>2, <1>3, AppendProperties
<1>6. Len(buffer) \in Nat /\ DOMAIN buffer = 1..Len(buffer) /\ DOMAIN buffer' = 1..(Len(buffer) + 1)
  BY <1>2, <1>5, LenProperties
<1>7. Held' = Held \cup {arriving.w.id}
  <2>1. \A i \in DOMAIN buffer : i \in DOMAIN buffer' /\ buffer'[i].w.id = buffer[i].w.id
    BY <1>5, <1>6
  <2>2. Len(buffer) + 1 \in DOMAIN buffer' /\ buffer'[Len(buffer) + 1].w.id = arriving.w.id
    BY <1>3, <1>5, <1>6
  <2>3. \A i \in DOMAIN buffer' : i \in DOMAIN buffer \/ i = Len(buffer) + 1
    BY <1>6
  <2>4. QED
    BY <2>1, <2>2, <2>3 DEF Held
<1>8. QED
  BY <1>1, <1>2, <1>3, <1>4, <1>5, <1>6, <1>7 DEF new

\* A tick starts alone, with all that waits; what it has to store is made of that,
\* and no row goes into two messages.
LEMMA FlushMeaning ==
  ASSUME NEW S, ShapeOK(S), NEW f \in Flushes, Flush(f)
  PROVE  LET todo == Messages(assembleParts(buffer))
         IN  /\ buffer \in Seq(Entries(S))
             /\ todo \in Seq(MessageSet(S)) /\ todo # <<>>
             /\ \A n \in DOMAIN todo : MessageOf(S, todo[n])
             /\ \E where \in [DOMAIN todo -> SUBSET DOMAIN buffer] :
                  /\ \A n \in DOMAIN todo : todo[n].id = {buffer[i].w.id : i \in where[n]}
                  /\ \A m, n \in DOMAIN todo : m # n => where[m] \cap where[n] = {}
                  /\ \A i \in DOMAIN buffer : \E n \in DOMAIN todo : i \in where[n]
             /\ flush' = [flush EXCEPT ![f] = [pc |-> IF endpoint THEN "store" ELSE "delete",
                                               parts |-> buffer, todo |-> todo]]
             /\ flush'[f] = [pc |-> IF endpoint THEN "store" ELSE "delete", parts |-> buffer, todo |-> todo]
             /\ \A g \in Flushes : g # f => flush'[g].pc = "idle"
<1> DEFINE todo == Messages(assembleParts(buffer))
<1>1. /\ ~running /\ buffer # <<>>
      /\ flush' = [flush EXCEPT ![f] = [pc |-> IF endpoint THEN "store" ELSE "delete",
                                        parts |-> buffer, todo |-> todo]]
  BY DEF Flush, MayStart, Ready
<1>2. S \in Scenes /\ BufferOK(S) /\ FlushOK(S)
  BY DEF ShapeOK
<1>3. PICK count \in Nat : \E where \in [1..count -> SUBSET DOMAIN buffer] :
        /\ todo \in Seq(MessageSet(S)) /\ Len(todo) = count
        /\ \A n \in 1..count : /\ MessageOf(S, todo[n])
                               /\ todo[n].id = {buffer[i].w.id : i \in where[n]}
        /\ \A m, n \in 1..count : m # n => where[m] \cap where[n] = {}
        /\ \A i \in DOMAIN buffer : \E n \in 1..count : i \in where[n]
  BY <1>2, MessagesMeaning
<1>4. PICK where \in [1..count -> SUBSET DOMAIN buffer] :
        /\ todo \in Seq(MessageSet(S)) /\ Len(todo) = count
        /\ \A n \in 1..count : /\ MessageOf(S, todo[n])
                               /\ todo[n].id = {buffer[i].w.id : i \in where[n]}
        /\ \A m, n \in 1..count : m # n => where[m] \cap where[n] = {}
        /\ \A i \in DOMAIN buffer : \E n \in 1..count : i \in where[n]
  BY <1>3
<1>5. buffer \in Seq(Entries(S))
  BY <1>2 DEF BufferOK
<1>6. 1 \in DOMAIN buffer
  <2>1. Len(buffer) \in Nat /\ DOMAIN buffer = 1..Len(buffer) /\ Len(buffer) # 0
    BY <1>1, <1>5, LenProperties, EmptySeq
  <2>2. QED
    BY <2>1
<1> HIDE DEF todo
<1>7. DOMAIN todo = 1..count
  BY <1>4, LenProperties
<1>8. todo # <<>>
  BY <1>4, <1>6, EmptySeq
<1>9. /\ flush'[f] = [pc |-> IF endpoint THEN "store" ELSE "delete", parts |-> buffer, todo |-> todo]
      /\ \A g \in Flushes : g # f => flush'[g].pc = "idle"
  <2>1. DOMAIN flush = Flushes /\ \A g \in Flushes : flush[g].pc = "idle"
    BY <1>1, <1>2 DEF FlushOK
  <2>2. QED
    BY <1>1, <2>1
<1>10. \E p \in [DOMAIN todo -> SUBSET DOMAIN buffer] :
        /\ \A n \in DOMAIN todo : todo[n].id = {buffer[i].w.id : i \in p[n]}
        /\ \A m, n \in DOMAIN todo : m # n => p[m] \cap p[n] = {}
        /\ \A i \in DOMAIN buffer : \E n \in DOMAIN todo : i \in p[n]
  <2>1. where \in [DOMAIN todo -> SUBSET DOMAIN buffer]
    BY <1>7
  <2>2. /\ \A n \in DOMAIN todo : todo[n].id = {buffer[i].w.id : i \in where[n]}
        /\ \A m, n \in DOMAIN todo : m # n => where[m] \cap where[n] = {}
        /\ \A i \in DOMAIN buffer : \E n \in DOMAIN todo : i \in where[n]
    BY <1>4, <1>7
  <2>3. QED
    BY <2>1, <2>2
<1>11. QED
  BY <1>1, <1>4, <1>5, <1>7, <1>8, <1>9, <1>10 DEF todo

\* A tick stores the first message it has left.
LEMMA StoreMeaning ==
  ASSUME NEW S \in Scenes, FlushOK(S), RowsOK(S), NEW f \in Flushes, flush[f].pc = "store",
         rows' = Persisted(Head(flush[f].todo)),
         flush' = [flush EXCEPT ![f].todo = Tail(@),
                                ![f].pc = IF Len(flush[f].todo) = 1 THEN "delete" ELSE "store"]
  PROVE  LET todo == flush[f].todo
             rest == Tail(todo)
         IN  /\ Len(todo) \in Nat \ {0} /\ DOMAIN todo = 1..Len(todo)
             /\ \A n \in DOMAIN todo : MessageOf(S, todo[n])
             /\ rest \in Seq(MessageSet(S)) /\ DOMAIN rest = 1..(Len(todo) - 1)
             /\ \A n \in 1..(Len(todo) - 1) : rest[n] = todo[n + 1]
             /\ (rest = <<>> <=> Len(todo) = 1)
             /\ RowsOK(S)' /\ rows \subseteq rows' /\ rows' \subseteq rows \cup {todo[1]}
             /\ StoredIds' = StoredIds \cup todo[1].id
             /\ flush' = [flush EXCEPT ![f] = [pc |-> IF Len(todo) = 1 THEN "delete" ELSE "store",
                                               parts |-> flush[f].parts, todo |-> rest]]
             /\ flush'[f] = [pc |-> IF Len(todo) = 1 THEN "delete" ELSE "store",
                             parts |-> flush[f].parts, todo |-> rest]
             /\ \A g \in Flushes : g # f => flush'[g].pc = "idle"
<1> DEFINE todo == flush[f].todo
           rest == Tail(todo)
           pc == IF Len(todo) = 1 THEN "delete" ELSE "store"
<1>1. /\ todo \in Seq(MessageSet(S)) /\ todo # <<>>
      /\ \A n \in DOMAIN todo : MessageOf(S, todo[n])
  BY DEF FlushOK
<1>2. /\ rest \in Seq(MessageSet(S)) /\ Len(rest) = Len(todo) - 1 /\ Len(todo) \in Nat \ {0}
      /\ \A n \in 1..Len(rest) : rest[n] = todo[n + 1]
      /\ Head(todo) = todo[1] /\ Head(todo) \in MessageSet(S)
  <2> HIDE DEF todo
  <2>1. QED
    BY <1>1, HeadTailProperties, LenProperties, EmptySeq
<1>3. DOMAIN rest = 1..Len(rest) /\ DOMAIN todo = 1..Len(todo) /\ (rest = <<>> <=> Len(todo) = 1)
  <2> HIDE DEF todo, rest
  <2>1. QED
    BY <1>1, <1>2, LenProperties, EmptySeq
<1>4. /\ RowsOK(S)' /\ rows \subseteq rows' /\ rows' \subseteq rows \cup {todo[1]}
      /\ StoredIds' = StoredIds \cup todo[1].id
  <2>1. 1 \in DOMAIN todo
    BY <1>2, <1>3
  <2>2. MessageOf(S, Head(todo)) /\ Head(todo) = todo[1] /\ Head(todo) \in MessageSet(S)
    BY <1>1, <1>2, <2>1
  <2>3. rows' = Persisted(Head(todo))
    OBVIOUS
  <2> HIDE DEF todo
  <2>4. QED
    BY <2>2, <2>3, PersistedMeaning
<1>5. flush' = [flush EXCEPT ![f] = [pc |-> pc, parts |-> flush[f].parts, todo |-> rest]]
  <2>1. flush' = [flush EXCEPT ![f].todo = rest, ![f].pc = pc]
    OBVIOUS
  <2>2. flush \in [Flushes -> [pc : {"idle", "store", "delete"}, parts : Seq(Entries(S)),
                               todo : Seq(MessageSet(S))]]
    BY DEF FlushOK
  <2> HIDE DEF todo, rest, pc
  <2>3. flush[f] = [pc |-> flush[f].pc, parts |-> flush[f].parts, todo |-> flush[f].todo]
    BY <2>2
  <2>4. [flush[f] EXCEPT !.todo = rest, !.pc = pc] = [pc |-> pc, parts |-> flush[f].parts, todo |-> rest]
    <3>1. PICK x, y, z : flush[f] = [pc |-> x, parts |-> y, todo |-> z]
      BY <2>3
    <3>2. [[pc |-> x, parts |-> y, todo |-> z] EXCEPT !.todo = rest, !.pc = pc]
            = [[[pc |-> x, parts |-> y, todo |-> z] EXCEPT !.todo = rest] EXCEPT !.pc = pc]
      OBVIOUS
    <3>3. [[pc |-> x, parts |-> y, todo |-> z] EXCEPT !.todo = rest] = [pc |-> x, parts |-> y, todo |-> rest]
      OBVIOUS
    <3>4. [[pc |-> x, parts |-> y, todo |-> rest] EXCEPT !.pc = pc] = [pc |-> pc, parts |-> y, todo |-> rest]
      OBVIOUS
    <3>5. QED
      BY <3>1, <3>2, <3>3, <3>4
  <2>5. DOMAIN flush = Flushes
    BY <2>2
  <2>6. [flush EXCEPT ![f].todo = rest, ![f].pc = pc]
          = [flush EXCEPT ![f] = [flush[f] EXCEPT !.todo = rest, !.pc = pc]]
    BY <2>5
  <2>7. QED
    BY <2>1, <2>4, <2>6
<1>6. /\ flush'[f] = [pc |-> pc, parts |-> flush[f].parts, todo |-> rest]
      /\ \A g \in Flushes : g # f => flush'[g].pc = "idle"
  <2>1. DOMAIN flush = Flushes /\ \A g \in Flushes : g # f => flush[g].pc = "idle"
    BY DEF FlushOK
  <2> HIDE DEF todo, rest, pc
  <2>2. QED
    BY <1>5, <2>1
<1>7. QED
  BY <1>1, <1>2, <1>3, <1>4, <1>5, <1>6

\* A tick deletes what it has read; what came since stays, in its order.
LEMMA DeleteMeaning ==
  ASSUME NEW S, ShapeOK(S), NEW f \in Flushes, DeleteParts(f)
  PROVE  \E count \in Nat : \E p \in [1..count -> {i \in DOMAIN buffer : i > Len(flush[f].parts)}] :
           /\ buffer' \in Seq(Entries(S)) /\ DOMAIN buffer' = 1..count
           /\ \A n \in 1..count : p[n] \in DOMAIN buffer /\ buffer'[n] = buffer[p[n]]
           /\ \A m, n \in 1..count : m < n => p[m] < p[n]
           /\ \A i \in DOMAIN buffer : i > Len(flush[f].parts) => \E n \in 1..count : p[n] = i
<1>1. S \in Scenes /\ BufferOK(S) /\ FlushOK(S)
  BY DEF ShapeOK
<1>2. /\ flush[f].parts \in Seq(Entries(S)) /\ Len(flush[f].parts) <= Len(buffer)
      /\ \A i \in DOMAIN flush[f].parts : flush[f].parts[i].row = buffer[i].row
  BY <1>1 DEF FlushOK, DeleteParts
<1>3. PICK count \in Nat : \E p \in [1..count -> {i \in DOMAIN buffer : i > Len(flush[f].parts)}] :
         /\ Left(flush[f].parts) = [n \in 1..count |-> buffer[p[n]]]
         /\ \A m, n \in 1..count : m < n => p[m] < p[n]
         /\ \A i \in DOMAIN buffer : i > Len(flush[f].parts) => \E n \in 1..count : p[n] = i
  BY <1>1, <1>2, LeftMeaning
<1>4. PICK p \in [1..count -> {i \in DOMAIN buffer : i > Len(flush[f].parts)}] :
         /\ Left(flush[f].parts) = [n \in 1..count |-> buffer[p[n]]]
         /\ \A m, n \in 1..count : m < n => p[m] < p[n]
         /\ \A i \in DOMAIN buffer : i > Len(flush[f].parts) => \E n \in 1..count : p[n] = i
  BY <1>3
<1>5. /\ buffer' = [n \in 1..count |-> buffer[p[n]]]
      /\ \A n \in 1..count : p[n] \in DOMAIN buffer
  BY <1>4 DEF DeleteParts
<1>6. \A i \in DOMAIN buffer : buffer[i] \in Entries(S)
  BY <1>1, ElementOfSeq DEF BufferOK
<1>7. buffer' \in Seq(Entries(S))
  <2>1. buffer' \in [1..count -> Entries(S)]
    BY <1>5, <1>6
  <2>2. QED
    BY <2>1, IsASeq
<1>8. DOMAIN buffer' = 1..count /\ \A n \in 1..count : p[n] \in DOMAIN buffer /\ buffer'[n] = buffer[p[n]]
  BY <1>5
<1>9. QED
  BY <1>4, <1>7, <1>8

\* Time changes the ages alone.
LEMMA TimeMeaning ==
  ASSUME NEW S, BufferOK(S), TimePasses
  PROVE  /\ buffer' \in Seq(Entries(S)) /\ DOMAIN buffer' = DOMAIN buffer /\ Len(buffer') = Len(buffer)
         /\ \A i \in DOMAIN buffer : /\ buffer'[i].row = buffer[i].row /\ buffer'[i].text = buffer[i].text
                                     /\ buffer'[i].w = buffer[i].w
         /\ Held' = Held
<1>1. PICK age \in {"quiet", "old"} :
         buffer' = [i \in DOMAIN buffer |->
                      [buffer[i] EXCEPT !.age = IF age = "old" \/ @ = "new" THEN age ELSE @]]
  BY DEF TimePasses
<1>2. buffer \in Seq(Entries(S)) /\ DOMAIN buffer = 1..Len(buffer) /\ Len(buffer) \in Nat
  BY LenProperties DEF BufferOK
<1>3. \A i \in DOMAIN buffer :
        /\ buffer'[i] \in Entries(S)
        /\ buffer'[i].row = buffer[i].row /\ buffer'[i].text = buffer[i].text /\ buffer'[i].w = buffer[i].w
  <2> SUFFICES ASSUME NEW i \in DOMAIN buffer
               PROVE  /\ buffer'[i] \in Entries(S)
                      /\ buffer'[i].row = buffer[i].row /\ buffer'[i].text = buffer[i].text
                      /\ buffer'[i].w = buffer[i].w
    OBVIOUS
  <2>1. buffer[i] \in Entries(S)
    BY <1>2, ElementOfSeq
  <2>2. buffer'[i] = [buffer[i] EXCEPT !.age = IF age = "old" \/ buffer[i].age = "new" THEN age ELSE buffer[i].age]
    BY <1>1
  <2>3. (IF age = "old" \/ buffer[i].age = "new" THEN age ELSE buffer[i].age) \in {"new", "quiet", "old"}
    BY <2>1 DEF Entries
  <2>4. QED
    BY <2>1, <2>2, <2>3 DEF Entries
<1>4. buffer' \in Seq(Entries(S)) /\ DOMAIN buffer' = DOMAIN buffer /\ Len(buffer') = Len(buffer)
  <2>1. DOMAIN buffer' = 1..Len(buffer)
    BY <1>1, <1>2
  <2>2. buffer' \in [1..Len(buffer) -> Entries(S)]
    BY <1>1, <1>2, <1>3, <2>1
  <2>3. buffer' \in Seq(Entries(S))
    BY <1>2, <2>2, IsASeq
  <2>4. QED
    BY <1>2, <2>1, <2>3, LenProperties
<1>5. Held' = Held
  BY <1>3, <1>4 DEF Held
<1>6. QED
  BY <1>3, <1>4, <1>5

\* Every step keeps the shape, whatever fails.
LEMMA ShapeStep ==
  ASSUME NEW S, ShapeOK(S), Next
  PROVE  ShapeOK(S)'
<1>1. /\ S \in Scenes /\ JobsOK(S) /\ BufferOK(S) /\ FlushOK(S) /\ RowsOK(S)
      /\ endpoint \in BOOLEAN /\ running \in BOOLEAN
      /\ faults \in Nat /\ faults <= MaxFaults /\ MaxFaults \in Nat
  BY ConcatAssumption DEF ShapeOK
<1>2. ASSUME JobsOK(S)', BufferOK(S)', FlushOK(S)', RowsOK(S)',
             endpoint' \in BOOLEAN, running' \in BOOLEAN,
             faults' = faults \/ (faults < MaxFaults /\ faults' = faults + 1)
      PROVE  ShapeOK(S)'
  <2>1. faults' \in 0..MaxFaults
    BY <1>1, <1>2
  <2>2. QED
    BY <1>1, <1>2, <2>1 DEF ShapeOK
<1>3. ASSUME NEW w \in net, Arrive(w)
      PROVE  ShapeOK(S)'
  <2>1. /\ net' \subseteq net /\ arriving' = [pc |-> "read", w |-> Repaired(w)]
        /\ UNCHANGED <<buffer, flush, running, rows, endpoint, serial, taken, faults>>
    BY <1>3 DEF Arrive
  <2>2. Repaired(w) \in Received(S)
    BY <1>1 DEF JobsOK, Received
  <2>3. JobsOK(S)'
    <3>1. arriving'.pc = "read" /\ arriving'.w = Repaired(w)
      BY <2>1
    <3>2. arriving' \in [pc : {"idle", "read", "create", "store"}, w : Received(S) \cup {NoJob.w}]
      BY <2>1, <2>2
    <3>3. QED
      BY <1>1, <2>1, <2>2, <3>1, <3>2 DEF JobsOK
  <2>4. BufferOK(S)' /\ FlushOK(S)' /\ RowsOK(S)'
    BY <1>1, <2>1, Frames
  <2>5. QED
    BY <1>1, <1>2, <2>1, <2>3, <2>4
<1>4. ASSUME ReadWaiting
      PROVE  ShapeOK(S)'
  <2>1. UNCHANGED <<net, buffer, flush, running, rows, endpoint, serial, repeated, faults>>
    BY <1>4 DEF ReadWaiting
  <2>2. arriving.pc = "read"
    BY <1>4 DEF ReadWaiting
  <2>3. CASE ~Waits(arriving.w.text) /\ UNCHANGED taken
             /\ arriving' = [arriving EXCEPT
                               !.pc = IF buffer = <<>> /\ ~looksLikeIncompletePart(arriving.w.text)
                                      THEN "store" ELSE "create"]
    <3>1. arriving' = [pc |-> IF buffer = <<>> /\ ~looksLikeIncompletePart(arriving.w.text)
                              THEN "store" ELSE "create", w |-> arriving.w]
      BY <1>1, <2>3 DEF JobsOK
    <3>2. arriving'.pc \in {"store", "create"} /\ arriving'.w = arriving.w
      BY <3>1
    <3>3. arriving' \in [pc : {"idle", "read", "create", "store"}, w : Received(S) \cup {NoJob.w}]
      BY <1>1, <3>1 DEF JobsOK
    <3>4. ~Waits(arriving.w.text)'
      BY <2>1, <2>3, <3>2 DEF Waits
    <3>5. JobsOK(S)'
      BY <1>1, <2>1, <2>2, <2>3, <3>2, <3>3, <3>4 DEF JobsOK
    <3>6. QED
      BY <1>1, <1>2, <2>1, <3>5, Frames
  <2>4. CASE Done(arriving.w)
    <3>1. JobsOK(S)'
      BY <1>1, <2>1, <2>2, <2>4, DoneJobs
    <3>2. QED
      BY <1>1, <1>2, <2>1, <3>1, Frames
  <2>5. QED
    BY <1>4, <2>3, <2>4 DEF ReadWaiting
<1>5. ASSUME Hold
      PROVE  ShapeOK(S)'
  <2> DEFINE new == [row |-> serial + 1, text |-> arriving.w.text, w |-> arriving.w, age |-> "new"]
  <2>1. /\ serial' = serial + 1 /\ Done(arriving.w)
        /\ UNCHANGED <<net, flush, running, rows, endpoint, repeated, faults>>
    BY <1>5 DEF Hold
  <2>2. new.row = serial + 1 /\ new.text = arriving.w.text /\ new.w = arriving.w /\ serial \in Nat
    BY <1>1 DEF BufferOK
  <2> HIDE DEF new
  <2>3. /\ arriving.pc = "create" /\ arriving.w \in Received(S)
        /\ new \in Entries(S) /\ \A i \in DOMAIN buffer : buffer[i].text # new.text
        /\ buffer' \in Seq(Entries(S)) /\ Len(buffer') = Len(buffer) + 1 /\ Len(buffer) \in Nat
        /\ DOMAIN buffer = 1..Len(buffer) /\ DOMAIN buffer' = 1..(Len(buffer) + 1)
        /\ \A i \in 1..Len(buffer) : buffer'[i] = buffer[i]
        /\ buffer'[Len(buffer) + 1] = new
    BY <1>1, <1>5, HoldMeaning DEF new
  <2>4. JobsOK(S)'
    BY <1>1, <2>1, <2>3, DoneJobs
  <2>5. BufferOK(S)'
    <3>1. /\ \A i \in DOMAIN buffer : /\ buffer[i].text = buffer[i].w.text
                                      /\ buffer[i].row \in 1..serial
          /\ \A i, j \in DOMAIN buffer : i < j => buffer[i].row < buffer[j].row
          /\ \A i, j \in DOMAIN buffer : buffer[i].text = buffer[j].text => i = j
      BY <1>1 DEF BufferOK
    <3>2. \A i \in DOMAIN buffer' : (i \in DOMAIN buffer /\ buffer'[i] = buffer[i])
                                    \/ (i = Len(buffer) + 1 /\ buffer'[i] = new)
      BY <2>3
    <3>3. ASSUME NEW i \in DOMAIN buffer'
          PROVE  /\ buffer'[i].text = buffer'[i].w.text
                 /\ buffer'[i].row \in 1..serial'
      <4>1. CASE i \in DOMAIN buffer /\ buffer'[i] = buffer[i]
        BY <2>1, <2>2, <3>1, <4>1
      <4>2. CASE buffer'[i] = new
        BY <2>1, <2>2, <4>2
      <4>3. QED
        BY <3>2, <4>1, <4>2
    <3>4. ASSUME NEW i \in DOMAIN buffer', NEW j \in DOMAIN buffer', i < j
          PROVE  buffer'[i].row < buffer'[j].row
      <4>1. i \in DOMAIN buffer /\ buffer'[i] = buffer[i]
        BY <2>3, <3>4
      <4>2. CASE j \in DOMAIN buffer /\ buffer'[j] = buffer[j]
        BY <3>1, <3>4, <4>1, <4>2
      <4>3. CASE buffer'[j] = new
        BY <2>2, <3>1, <4>1, <4>3
      <4>4. QED
        BY <3>2, <4>2, <4>3
    <3>5. ASSUME NEW i \in DOMAIN buffer', NEW j \in DOMAIN buffer', buffer'[i].text = buffer'[j].text
          PROVE  i = j
      BY <2>3, <3>1, <3>2, <3>5
    <3>6. serial' \in Nat
      BY <2>1, <2>2
    <3>7. QED
      BY <2>3, <3>3, <3>4, <3>5, <3>6 DEF BufferOK
  <2>6. FlushOK(S)'
    <3>1. \A f \in Flushes : flush[f].pc # "idle" =>
            /\ Len(flush[f].parts) \in Nat /\ DOMAIN flush[f].parts = 1..Len(flush[f].parts)
            /\ Len(flush[f].parts) <= Len(buffer)
      <4> SUFFICES ASSUME NEW f \in Flushes, flush[f].pc # "idle"
                   PROVE  /\ Len(flush[f].parts) \in Nat /\ DOMAIN flush[f].parts = 1..Len(flush[f].parts)
                          /\ Len(flush[f].parts) <= Len(buffer)
        OBVIOUS
      <4>1. flush[f].parts \in Seq(Entries(S)) /\ Len(flush[f].parts) <= Len(buffer)
        BY <1>1 DEF FlushOK
      <4>2. QED
        BY <4>1, LenProperties
    <3>2. \A f \in Flushes : flush[f].pc # "idle" =>
            /\ Len(flush[f].parts) <= Len(buffer')
            /\ \A i \in DOMAIN flush[f].parts : buffer'[i] = buffer[i]
      <4> SUFFICES ASSUME NEW f \in Flushes, flush[f].pc # "idle"
                   PROVE  /\ Len(flush[f].parts) <= Len(buffer')
                          /\ \A i \in DOMAIN flush[f].parts : buffer'[i] = buffer[i]
        OBVIOUS
      <4>1. \A i \in DOMAIN flush[f].parts : i \in 1..Len(buffer)
        BY <2>3, <3>1
      <4>2. QED
        BY <2>3, <3>1, <4>1
    <3>3. QED
      BY <1>1, <2>1, <3>2 DEF FlushOK
  <2>7. QED
    BY <1>1, <1>2, <2>1, <2>4, <2>5, <2>6, Frames
<1>6. ASSUME StoreAtOnce
      PROVE  ShapeOK(S)'
  <2>1. /\ arriving.pc = "store" /\ Done(arriving.w)
        /\ rows' = IF endpoint THEN Persisted(Single(arriving.w)) ELSE rows
        /\ UNCHANGED <<net, buffer, flush, running, endpoint, serial, repeated, faults>>
    BY <1>6 DEF StoreAtOnce
  <2>2. JobsOK(S)'
    BY <1>1, <2>1, DoneJobs
  <2>3. arriving.w \in Received(S)
    BY <1>1, <2>1 DEF JobsOK
  <2>4. RowsOK(S)'
    BY <1>1, <2>1, <2>3, SingleMeaning, PersistedMeaning, Frames
  <2>5. QED
    BY <1>1, <1>2, <2>1, <2>2, <2>4, Frames
<1>7. ASSUME NEW f \in Flushes, Flush(f)
      PROVE  ShapeOK(S)'
  <2> DEFINE todo == Messages(assembleParts(buffer))
  <2>1. running' = TRUE /\ UNCHANGED <<net, arriving, buffer, rows, endpoint, serial, taken, repeated, faults>>
    BY <1>7 DEF Flush
  <2> HIDE DEF todo
  <2>2. /\ buffer \in Seq(Entries(S))
        /\ todo \in Seq(MessageSet(S)) /\ todo # <<>>
        /\ \A n \in DOMAIN todo : MessageOf(S, todo[n])
        /\ flush' = [flush EXCEPT ![f] = [pc |-> IF endpoint THEN "store" ELSE "delete",
                                          parts |-> buffer, todo |-> todo]]
        /\ flush'[f] = [pc |-> IF endpoint THEN "store" ELSE "delete", parts |-> buffer, todo |-> todo]
        /\ \A g \in Flushes : g # f => flush'[g].pc = "idle"
    BY <1>7, FlushMeaning DEF todo
  <2>3. flush' \in [Flushes -> [pc : {"idle", "store", "delete"}, parts : Seq(Entries(S)),
                                todo : Seq(MessageSet(S))]]
    BY <1>1, <2>2 DEF FlushOK
  <2>4. /\ flush'[f].parts = buffer /\ flush'[f].todo = todo /\ Len(buffer) \in Nat
        /\ \A g \in Flushes : flush'[g].pc # "idle" => g = f
    BY <2>2, LenProperties
  <2>5. FlushOK(S)'
    BY <2>1, <2>2, <2>3, <2>4 DEF FlushOK
  <2>6. QED
    BY <1>1, <1>2, <2>1, <2>5, Frames
<1>8. ASSUME NEW f \in Flushes, StorePart(f)
      PROVE  ShapeOK(S)'
  <2>1. /\ flush[f].pc = "store"
        /\ UNCHANGED <<net, arriving, buffer, endpoint, serial, taken, repeated>>
    BY <1>8 DEF StorePart
  <2>2. JobsOK(S)' /\ BufferOK(S)'
    BY <1>1, <2>1, Frames
  <2>3. CASE /\ rows' = Persisted(Head(flush[f].todo))
             /\ flush' = [flush EXCEPT ![f].todo = Tail(@),
                                       ![f].pc = IF Len(flush[f].todo) = 1 THEN "delete" ELSE "store"]
             /\ UNCHANGED <<running, faults>>
    <3> DEFINE todo == flush[f].todo
               rest == Tail(todo)
               pc == IF Len(todo) = 1 THEN "delete" ELSE "store"
    <3>1. pc \in {"store", "delete"} /\ (pc = "store" => Len(todo) # 1)
      OBVIOUS
    <3>2. /\ Len(todo) \in Nat \ {0} /\ DOMAIN todo = 1..Len(todo)
          /\ \A n \in DOMAIN todo : MessageOf(S, todo[n])
          /\ rest \in Seq(MessageSet(S)) /\ DOMAIN rest = 1..(Len(todo) - 1)
          /\ \A n \in 1..(Len(todo) - 1) : rest[n] = todo[n + 1]
          /\ (rest = <<>> <=> Len(todo) = 1)
          /\ RowsOK(S)'
          /\ flush' = [flush EXCEPT ![f] = [pc |-> pc, parts |-> flush[f].parts, todo |-> rest]]
          /\ flush'[f] = [pc |-> pc, parts |-> flush[f].parts, todo |-> rest]
          /\ \A g \in Flushes : g # f => flush'[g].pc = "idle"
      BY <1>1, <2>1, <2>3, StoreMeaning
    <3> HIDE DEF todo, rest, pc
    <3>3. \A n \in DOMAIN rest : MessageOf(S, rest[n])
      <4> SUFFICES ASSUME NEW n \in DOMAIN rest
                   PROVE  MessageOf(S, rest[n])
        OBVIOUS
      <4>1. n + 1 \in DOMAIN todo /\ rest[n] = todo[n + 1]
        BY <3>2
      <4>2. QED
        BY <3>2, <4>1
    <3>4. flush' \in [Flushes -> [pc : {"idle", "store", "delete"}, parts : Seq(Entries(S)),
                                  todo : Seq(MessageSet(S))]]
      BY <1>1, <3>1, <3>2 DEF FlushOK
    <3>5. flush'[f].pc = pc /\ flush'[f].parts = flush[f].parts /\ flush'[f].todo = rest
      BY <3>2
    <3>6. FlushOK(S)'
      <4>1. ASSUME NEW g \in Flushes, flush'[g].pc # "idle"
            PROVE  /\ running' /\ \A h \in Flushes : flush'[h].pc # "idle" => h = g
                   /\ Len(flush'[g].parts) <= Len(buffer')
                   /\ \A i \in DOMAIN flush'[g].parts : /\ flush'[g].parts[i].row = buffer'[i].row
                                                        /\ flush'[g].parts[i].w = buffer'[i].w
        <5>1. g = f /\ flush[f].pc # "idle"
          BY <2>1, <3>2, <4>1
        <5>2. QED
          BY <1>1, <2>1, <2>3, <3>2, <3>5, <5>1 DEF FlushOK
      <4>2. ASSUME NEW g \in Flushes, flush'[g].pc = "store"
            PROVE  /\ flush'[g].todo # <<>>
                   /\ \A n \in DOMAIN flush'[g].todo : MessageOf(S, flush'[g].todo[n])
        <5>1. g = f
          BY <3>2, <4>2
        <5>2. QED
          BY <3>1, <3>2, <3>3, <3>5, <4>2, <5>1
      <4>3. QED
        BY <3>4, <4>1, <4>2 DEF FlushOK
    <3>7. QED
      BY <1>1, <1>2, <2>1, <2>2, <2>3, <3>2, <3>6
  <2>4. CASE EndFlush(f) /\ UNCHANGED rows /\ (UNCHANGED faults \/ Fault("persistFails"))
    <3>1. FlushOK(S)'
      BY <1>1, <2>1, <2>4, EndedFlush
    <3>2. running' \in BOOLEAN /\ (faults' = faults \/ (faults < MaxFaults /\ faults' = faults + 1))
      BY <2>4 DEF EndFlush, Fault
    <3>3. RowsOK(S)'
      BY <1>1, <2>4, Frames
    <3>4. QED
      BY <1>1, <1>2, <2>1, <2>2, <3>1, <3>2, <3>3
  <2>5. QED
    BY <1>8, <2>3, <2>4 DEF StorePart
<1>9. ASSUME NEW f \in Flushes, DeleteParts(f)
      PROVE  ShapeOK(S)'
  <2>1. /\ flush[f].pc # "idle" /\ EndFlush(f)
        /\ UNCHANGED <<net, arriving, rows, endpoint, serial, taken, repeated, faults>>
    BY <1>9 DEF DeleteParts
  <2>2. PICK count \in Nat : \E p \in [1..count -> {i \in DOMAIN buffer : i > Len(flush[f].parts)}] :
          /\ buffer' \in Seq(Entries(S)) /\ DOMAIN buffer' = 1..count
          /\ \A n \in 1..count : p[n] \in DOMAIN buffer /\ buffer'[n] = buffer[p[n]]
          /\ \A m, n \in 1..count : m < n => p[m] < p[n]
    BY <1>9, DeleteMeaning
  <2>3. PICK p \in [1..count -> {i \in DOMAIN buffer : i > Len(flush[f].parts)}] :
          /\ buffer' \in Seq(Entries(S)) /\ DOMAIN buffer' = 1..count
          /\ \A n \in 1..count : p[n] \in DOMAIN buffer /\ buffer'[n] = buffer[p[n]]
          /\ \A m, n \in 1..count : m < n => p[m] < p[n]
    BY <2>2
  <2>4. /\ buffer \in Seq(Entries(S)) /\ serial \in Nat
        /\ \A i \in DOMAIN buffer : buffer[i].text = buffer[i].w.text /\ buffer[i].row \in 1..serial
        /\ \A i, j \in DOMAIN buffer : i < j => buffer[i].row < buffer[j].row
        /\ \A i, j \in DOMAIN buffer : buffer[i].text = buffer[j].text => i = j
    BY <1>1 DEF BufferOK
  <2>5. \A i \in DOMAIN buffer : i \in Nat
    BY <2>4, LenProperties
  <2>6. BufferOK(S)'
    <3>1. \A i \in DOMAIN buffer' : buffer'[i].text = buffer'[i].w.text /\ buffer'[i].row \in 1..serial'
      BY <2>1, <2>3, <2>4
    <3>2. \A i, j \in DOMAIN buffer' : i < j => buffer'[i].row < buffer'[j].row
      BY <2>3, <2>4
    <3>3. ASSUME NEW i \in DOMAIN buffer', NEW j \in DOMAIN buffer', buffer'[i].text = buffer'[j].text
          PROVE  i = j
      <4>1. i \in 1..count /\ j \in 1..count /\ i \in Nat /\ j \in Nat
        BY <2>3
      <4>2. p[i] = p[j] /\ p[i] \in Nat
        BY <2>3, <2>4, <2>5, <3>3, <4>1
      <4>3. ~(i < j) /\ ~(j < i)
        BY <2>3, <4>1, <4>2
      <4>4. QED
        BY <4>1, <4>3
    <3>4. QED
      BY <2>1, <2>3, <2>4, <3>1, <3>2, <3>3 DEF BufferOK
  <2>7. JobsOK(S)'
    <3>1. \A text : Waits(text)' => Waits(text)
      BY <2>3 DEF Waits
    <3>2. QED
      BY <1>1, <2>1, <3>1 DEF JobsOK
  <2>8. FlushOK(S)' /\ running' \in BOOLEAN
    <3>1. FlushOK(S)'
      BY <1>1, <2>1, EndedFlush
    <3>2. QED
      BY <2>1, <3>1 DEF EndFlush
  <2>9. QED
    BY <1>1, <1>2, <2>1, <2>6, <2>7, <2>8, Frames
<1>10. ASSUME TimePasses
       PROVE  ShapeOK(S)'
  <2>1. UNCHANGED <<net, arriving, flush, running, rows, endpoint, serial, taken, repeated, faults>>
    BY <1>10 DEF TimePasses
  <2>2. /\ buffer' \in Seq(Entries(S)) /\ DOMAIN buffer' = DOMAIN buffer /\ Len(buffer') = Len(buffer)
        /\ \A i \in DOMAIN buffer : /\ buffer'[i].row = buffer[i].row /\ buffer'[i].text = buffer[i].text
                                    /\ buffer'[i].w = buffer[i].w
    BY <1>1, <1>10, TimeMeaning
  <2>3. DOMAIN buffer = 1..Len(buffer) /\ Len(buffer) \in Nat
    BY <1>1, LenProperties DEF BufferOK
  <2>4. BufferOK(S)'
    BY <1>1, <2>1, <2>2 DEF BufferOK
  <2>5. JobsOK(S)'
    <3>1. \A text : Waits(text)' => Waits(text)
      BY <2>2 DEF Waits
    <3>2. QED
      BY <1>1, <2>1, <3>1 DEF JobsOK
  <2>6. FlushOK(S)'
    <3>1. \A f \in Flushes : flush[f].pc # "idle" => \A i \in DOMAIN flush[f].parts : i \in DOMAIN buffer
      <4> SUFFICES ASSUME NEW f \in Flushes, flush[f].pc # "idle", NEW i \in DOMAIN flush[f].parts
                   PROVE  i \in DOMAIN buffer
        OBVIOUS
      <4>1. flush[f].parts \in Seq(Entries(S)) /\ Len(flush[f].parts) <= Len(buffer)
        BY <1>1 DEF FlushOK
      <4>2. i \in 1..Len(flush[f].parts) /\ Len(flush[f].parts) \in Nat
        BY <4>1, LenProperties
      <4>3. QED
        BY <2>3, <4>1, <4>2
    <3>2. QED
      BY <1>1, <2>1, <2>2, <3>1 DEF FlushOK
  <2>7. QED
    BY <1>1, <1>2, <2>1, <2>4, <2>5, <2>6, Frames
<1>11. ASSUME WorkerCrash
       PROVE  ShapeOK(S)'
  <2>1. /\ Fault("workerCrash")
        /\ net' = IF arriving.pc = "idle" THEN net
                  ELSE net \cup {[arriving.w EXCEPT !.text = arriving.w.came]}
        /\ arriving' = NoJob /\ flush' = [f \in Flushes |-> NoFlush] /\ running' = FALSE
        /\ UNCHANGED <<buffer, rows, endpoint, serial, taken, repeated>>
    BY <1>11 DEF WorkerCrash
  <2>2. net' \subseteq S
    <3>1. CASE arriving.pc = "idle"
      BY <1>1, <2>1, <3>1 DEF JobsOK
    <3>2. CASE arriving.pc # "idle"
      <4>1. PICK w \in S : arriving.w = Repaired(w)
        BY <1>1, <3>2 DEF JobsOK, Received
      <4>2. [arriving.w EXCEPT !.text = arriving.w.came] = w
        BY <1>1, <4>1, ReceivedMeaning
      <4>3. QED
        BY <1>1, <2>1, <3>2, <4>2 DEF JobsOK
    <3>3. QED
      BY <3>1, <3>2
  <2>3. JobsOK(S)'
    <3>1. NoJob.pc = "idle" /\ NoJob \in [pc : {"idle", "read", "create", "store"}, w : Received(S) \cup {NoJob.w}]
      BY DEF NoJob
    <3> HIDE DEF NoJob
    <3>2. QED
      BY <1>1, <2>1, <2>2, <3>1 DEF JobsOK
  <2>4. FlushOK(S)'
    BY <2>1, NoFlushOK DEF FlushOK
  <2>5. faults < MaxFaults /\ faults' = faults + 1
    BY <2>1 DEF Fault
  <2>6. QED
    BY <1>1, <1>2, <2>1, <2>3, <2>4, <2>5, Frames
<1>12. ASSUME DeleteEndpoint
       PROVE  ShapeOK(S)'
  <2>1. /\ Fault("endpointGone") /\ endpoint' = FALSE /\ rows' = {}
        /\ UNCHANGED <<net, arriving, buffer, flush, running, serial, taken, repeated>>
    BY <1>12 DEF DeleteEndpoint
  <2>2. RowsOK(S)'
    BY <2>1 DEF RowsOK
  <2>3. faults < MaxFaults /\ faults' = faults + 1
    BY <2>1 DEF Fault
  <2>4. QED
    BY <1>1, <1>2, <2>1, <2>2, <2>3, Frames
<1>13. QED
  BY <1>3, <1>4, <1>5, <1>6, <1>7, <1>8, <1>9, <1>10, <1>11, <1>12 DEF Next

-----------------------------------------------------------------------------
(* Every reachable state has the shape; what was written is what is read.    *)

LEMMA ShapeInductive == Spec => []ShapeInv
<1>1. Init => ShapeInv
  <2> SUFFICES ASSUME Init
               PROVE  ShapeInv
    OBVIOUS
  <2>1. ShapeOK(net) /\ net \in Scenes
    BY InitShape DEF Init
  <2>2. QED
    BY <2>1 DEF ShapeInv
<1>2. ShapeInv /\ [Next]_vars => ShapeInv'
  <2> SUFFICES ASSUME ShapeInv, [Next]_vars
               PROVE  ShapeInv'
    OBVIOUS
  <2>1. PICK S \in Scenes : ShapeOK(S)
    BY DEF ShapeInv
  <2>2. ShapeOK(S)'
    <3>1. CASE Next
      BY <2>1, <3>1, ShapeStep
    <3>2. CASE UNCHANGED vars
      <4>1. UNCHANGED <<net, arriving, taken, buffer>> /\ UNCHANGED <<serial, buffer>>
            /\ UNCHANGED <<flush, running, buffer>> /\ UNCHANGED rows /\ UNCHANGED <<endpoint, faults>>
        BY <3>2 DEF vars
      <4>2. JobsOK(S)' /\ BufferOK(S)' /\ FlushOK(S)' /\ RowsOK(S)'
        BY <2>1, <4>1, Frames DEF ShapeOK
      <4>3. QED
        BY <2>1, <4>1, <4>2 DEF ShapeOK
    <3>3. QED
      BY <3>1, <3>2
  <2>3. QED
    BY <2>2 DEF ShapeInv
<1>3. QED
  BY <1>1, <1>2, PTL DEF Spec

\* The variables have their types; the rows of the buffer are in order and no text
\* waits twice, though texts are looked for and rows created in two steps
\* (bufferIfPart), and an external id is stored once.
THEOREM TypeCorrect == Spec => []TypeOK
<1>1. ShapeInv => TypeOK
  <2> SUFFICES ASSUME NEW S \in Scenes, ShapeOK(S)
               PROVE  TypeOK
    BY DEF ShapeInv
  <2>1. JobsOK(S) /\ BufferOK(S) /\ FlushOK(S) /\ RowsOK(S)
    BY DEF ShapeOK
  <2>2. arriving.pc \in {"idle", "read", "create", "store"}
    BY <2>1 DEF JobsOK
  <2>3. \A i \in DOMAIN buffer : buffer[i].age \in {"new", "quiet", "old"} /\ buffer[i].row \in 1..serial
    <3>1. \A i \in DOMAIN buffer : buffer[i] \in Entries(S)
      BY <2>1, ElementOfSeq DEF BufferOK
    <3>2. QED
      BY <2>1, <3>1 DEF BufferOK, Entries
  <2>4. /\ \A i, j \in DOMAIN buffer : i < j => buffer[i].row < buffer[j].row
        /\ \A i, j \in DOMAIN buffer : buffer[i].text = buffer[j].text => i = j
    BY <2>1 DEF BufferOK
  <2>5. \A f \in Flushes : flush[f].pc \in {"idle", "store", "delete"}
    BY <2>1 DEF FlushOK
  <2>6. \A r, q \in rows : r.id = q.id /\ r.concat = q.concat => r = q
    BY <2>1 DEF RowsOK
  <2>7. {endpoint, running} \subseteq BOOLEAN /\ faults \in 0..MaxFaults
    BY DEF ShapeOK
  <2>8. QED
    BY <2>2, <2>3, <2>4, <2>5, <2>6, <2>7 DEF TypeOK
<1>2. QED
  BY <1>1, ShapeInductive, PTL

\* Two segments that make up an SMS are put together as it was written, whichever came
\* first, whatever repeats and failures there are; and an SMS glued by the gateway
\* reads as written or as it came (assembleParts, repairGluedParts).
THEOREM TextsAreRight ==
  ASSUME SplitInTwo, GluedInSlots
  PROVE  Spec => []ReadsAsWritten
<1>1. ASSUME ShapeInv
      PROVE  ReadsAsWritten
  <2>1. PICK S \in Scenes : ShapeOK(S)
    BY <1>1 DEF ShapeInv
  <2> SUFFICES ASSUME NEW r \in rows
               PROVE  /\ Len(r.parts) = 2 /\ r.parts[1].of = r.parts[2].of =>
                           LET text == r.parts[1].text \o r.parts[2].text
                           IN  Len(text) = Len(r.parts[1].of) => text = r.parts[1].of
                      /\ \A i \in DOMAIN r.parts :
                           LET w == r.parts[i]
                           IN  Len(w.came) = Len(w.of) /\ Clean(w.of) /\ ~SlashesMeet(w.came)
                                 => w.text \in {w.of, w.came}
    BY DEF ReadsAsWritten
  <2>2. MessageOf(S, r)
    BY <2>1 DEF ShapeOK, RowsOK
  <2>3. r.parts \in Seq(Received(S)) /\ \A i \in DOMAIN r.parts : r.parts[i] \in Received(S)
    BY <2>2, ElementOfSeq DEF MessageOf
  <2>4. ASSUME Len(r.parts) = 2, r.parts[1].of = r.parts[2].of,
               Len(r.parts[1].text \o r.parts[2].text) = Len(r.parts[1].of)
        PROVE  r.parts[1].text \o r.parts[2].text = r.parts[1].of
    <3>1. 1 \in DOMAIN r.parts /\ 2 \in DOMAIN r.parts
      BY <2>3, <2>4, LenProperties
    <3>2. r.parts[1] \in {Repaired(u) : u \in S} /\ r.parts[2] \in {Repaired(u) : u \in S}
      BY <2>3, <3>1 DEF Received
    <3>3. looksLikeIncompletePart(r.parts[1].text) /\ r.parts[1].text # r.parts[2].text
      BY <2>2, <2>4 DEF MessageOf
    <3>4. \/ r.parts[1].of = r.parts[1].text \o r.parts[2].text
          \/ r.parts[1].of = r.parts[2].text \o r.parts[1].text /\ ~looksLikeIncompletePart(r.parts[1].text)
      BY <2>4, <3>2, <3>3 DEF SplitInTwo
    <3>5. QED
      BY <3>3, <3>4
  <2>5. ASSUME NEW i \in DOMAIN r.parts, Len(r.parts[i].came) = Len(r.parts[i].of),
               Clean(r.parts[i].of), ~SlashesMeet(r.parts[i].came)
        PROVE  r.parts[i].text \in {r.parts[i].of, r.parts[i].came}
    <3>1. PICK u \in S : r.parts[i] = Repaired(u)
      BY <2>3 DEF Received
    <3>2. /\ r.parts[i].text = repairGluedParts(u.came) /\ r.parts[i].came = u.came
          /\ r.parts[i].of = u.of /\ u.came \in Seq(Characters)
      BY <3>1, ReceivedMeaning
    <3>3. Slotted(u.came, u.of)
      BY <2>5, <3>2 DEF GluedInSlots
    <3>4. QED
      BY <2>5, <3>2, <3>3, RepairIsRight
  <2>6. QED
    BY <2>4, <2>5
<1>2. QED
  BY <1>1, ShapeInductive, PTL

-----------------------------------------------------------------------------
(* Nothing that was acknowledged is lost.                                    *)

LEMMA KeptFrame ==
  ASSUME KeptOK, UNCHANGED <<taken, buffer, rows, flush, endpoint>>
  PROVE  KeptOK'
<1>1. Held' = Held
  BY DEF Held
<1>2. StoredIds' = StoredIds
  BY DEF StoredIds
<1>3. \A f \in Flushes : ReadIds(f)' = ReadIds(f) /\ TodoIds(f)' = TodoIds(f)
  BY DEF ReadIds, TodoIds
<1>4. QED
  BY <1>1, <1>2, <1>3 DEF KeptOK

\* A step keeps what was acknowledged, as long as the endpoint exists.
LEMMA KeptStep ==
  ASSUME TextsDiffer, NEW S, ShapeOK(S), KeptOK, Next
  PROVE  KeptOK'
<1> SUFFICES ASSUME endpoint'
             PROVE  /\ \A w \in taken' : w.id \in Held' \cup StoredIds'
                    /\ \A f \in Flushes : flush'[f].pc # "idle" => ReadIds(f)' \subseteq StoredIds' \cup TodoIds(f)'
  BY DEF KeptOK
<1>1. S \in Scenes /\ JobsOK(S) /\ BufferOK(S) /\ FlushOK(S) /\ RowsOK(S)
  BY DEF ShapeOK
<1>2. ASSUME endpoint
      PROVE  /\ \A w \in taken : w.id \in Held \cup StoredIds
             /\ \A f \in Flushes : flush[f].pc # "idle" => ReadIds(f) \subseteq StoredIds \cup TodoIds(f)
  BY <1>2 DEF KeptOK
<1>3. ASSUME NEW w \in net, Arrive(w)
      PROVE  KeptOK'
  BY <1>3, KeptFrame DEF Arrive
<1>4. ASSUME ReadWaiting
      PROVE  KeptOK'
  <2>1. UNCHANGED <<net, buffer, flush, running, rows, endpoint, serial, repeated, faults>>
    BY <1>4 DEF ReadWaiting
  <2>2. Held' = Held /\ StoredIds' = StoredIds
    BY <2>1 DEF Held, StoredIds
  <2>3. \A w \in taken' : w.id \in Held' \cup StoredIds'
    <3>1. CASE UNCHANGED taken
      BY <1>2, <2>1, <2>2, <3>1
    <3>2. CASE arriving.pc = "read" /\ Waits(arriving.w.text) /\ taken' \subseteq taken \cup {arriving.w}
      <4>1. PICK i \in DOMAIN buffer : buffer[i].text = arriving.w.text
        BY <3>2 DEF Waits
      <4>2. buffer[i] \in Entries(S) /\ buffer[i].text = buffer[i].w.text
        BY <1>1, ElementOfSeq DEF BufferOK
      <4>3. PICK u \in S : buffer[i].w = Repaired(u)
        BY <4>2 DEF Entries, Received
      <4>4. PICK v \in S : arriving.w = Repaired(v)
        BY <1>1, <3>2 DEF JobsOK, Received
      <4>5. u.id = v.id
        <5>1. Repaired(u).text = Repaired(v).text
          BY <4>1, <4>2, <4>3, <4>4
        <5>2. \A x, y \in S : Repaired(x).text = Repaired(y).text => x.id = y.id
          BY <1>1 DEF TextsDiffer
        <5>3. QED
          BY <5>1, <5>2
      <4>6. arriving.w.id = buffer[i].w.id
        BY <1>1, <4>3, <4>4, <4>5, ReceivedMeaning
      <4>7. arriving.w.id \in Held
        BY <4>6 DEF Held
      <4>8. QED
        BY <1>2, <2>1, <2>2, <3>2, <4>7
    <3>3. QED
      BY <1>4, <2>1, <3>1, <3>2 DEF ReadWaiting, Done
  <2>4. QED
    BY <1>2, <2>1, <2>2, <2>3 DEF KeptOK, ReadIds, TodoIds
<1>5. ASSUME Hold
      PROVE  KeptOK'
  <2>1. UNCHANGED <<net, flush, running, rows, endpoint, repeated, faults>> /\ taken' \subseteq taken \cup {arriving.w}
    BY <1>5 DEF Hold, Done
  <2>2. Held' = Held \cup {arriving.w.id}
    BY <1>1, <1>5, HoldMeaning
  <2>3. StoredIds' = StoredIds
    BY <2>1 DEF StoredIds
  <2>4. QED
    BY <1>2, <2>1, <2>2, <2>3 DEF KeptOK, ReadIds, TodoIds
<1>6. ASSUME StoreAtOnce
      PROVE  KeptOK'
  <2>1. /\ arriving.pc = "store" /\ taken' \subseteq taken \cup {arriving.w}
        /\ rows' = IF endpoint THEN Persisted(Single(arriving.w)) ELSE rows
        /\ UNCHANGED <<net, buffer, flush, running, endpoint, serial, repeated, faults>>
    BY <1>6 DEF StoreAtOnce, Done
  <2>2. arriving.w \in Received(S)
    BY <1>1, <2>1 DEF JobsOK
  <2>3. /\ Single(arriving.w) \in MessageSet(S) /\ MessageOf(S, Single(arriving.w))
        /\ Single(arriving.w).id = {arriving.w.id}
    BY <1>1, <2>2, SingleMeaning
  <2>4. rows' = Persisted(Single(arriving.w))
    BY <2>1
  <2>5. StoredIds' = StoredIds \cup {arriving.w.id}
    BY <1>1, <2>3, <2>4, PersistedMeaning
  <2>6. Held' = Held
    BY <2>1 DEF Held
  <2>7. QED
    BY <1>2, <2>1, <2>5, <2>6 DEF KeptOK, ReadIds, TodoIds
<1>7. ASSUME NEW f \in Flushes, Flush(f)
      PROVE  KeptOK'
  <2> DEFINE todo == Messages(assembleParts(buffer))
  <2>1. UNCHANGED <<net, arriving, buffer, rows, endpoint, serial, taken, repeated, faults>>
    BY <1>7 DEF Flush
  <2>2. Held' = Held /\ StoredIds' = StoredIds
    BY <2>1 DEF Held, StoredIds
  <2> HIDE DEF todo
  <2>3. /\ flush'[f] = [pc |-> IF endpoint THEN "store" ELSE "delete", parts |-> buffer, todo |-> todo]
        /\ \A g \in Flushes : g # f => flush'[g].pc = "idle"
        /\ \E where \in [DOMAIN todo -> SUBSET DOMAIN buffer] :
             /\ \A n \in DOMAIN todo : todo[n].id = {buffer[i].w.id : i \in where[n]}
             /\ \A m, n \in DOMAIN todo : m # n => where[m] \cap where[n] = {}
             /\ \A i \in DOMAIN buffer : \E n \in DOMAIN todo : i \in where[n]
    BY <1>7, FlushMeaning DEF todo
  <2>4. flush'[f].pc = "store" /\ flush'[f].parts = buffer /\ flush'[f].todo = todo
    BY <2>1, <2>3
  <2>5. ASSUME NEW i \in DOMAIN buffer
        PROVE  buffer[i].w.id \in TodoIds(f)'
    <3>1. PICK n \in DOMAIN todo : buffer[i].w.id \in todo[n].id
      BY <2>3
    <3>2. QED
      BY <2>4, <3>1 DEF TodoIds
  <2>6. ReadIds(f)' \subseteq TodoIds(f)'
    BY <2>4, <2>5 DEF ReadIds
  <2>7. QED
    BY <1>2, <2>1, <2>2, <2>3, <2>6 DEF KeptOK
<1>8. ASSUME NEW f \in Flushes, StorePart(f)
      PROVE  KeptOK'
  <2>1. flush[f].pc = "store" /\ UNCHANGED <<net, arriving, buffer, endpoint, serial, taken, repeated>>
    BY <1>8 DEF StorePart
  <2>2. Held' = Held
    BY <2>1 DEF Held
  <2>3. CASE /\ rows' = Persisted(Head(flush[f].todo))
             /\ flush' = [flush EXCEPT ![f].todo = Tail(@),
                                       ![f].pc = IF Len(flush[f].todo) = 1 THEN "delete" ELSE "store"]
    <3> DEFINE todo == flush[f].todo
               rest == Tail(todo)
    <3>1. /\ Len(todo) \in Nat \ {0} /\ DOMAIN todo = 1..Len(todo)
          /\ DOMAIN rest = 1..(Len(todo) - 1)
          /\ \A n \in 1..(Len(todo) - 1) : rest[n] = todo[n + 1]
          /\ StoredIds' = StoredIds \cup todo[1].id
          /\ flush'[f] = [pc |-> IF Len(todo) = 1 THEN "delete" ELSE "store",
                          parts |-> flush[f].parts, todo |-> rest]
          /\ \A g \in Flushes : g # f => flush'[g].pc = "idle"
      BY <1>1, <2>1, <2>3, StoreMeaning
    <3>2. TodoIds(f) = UNION {todo[n].id : n \in DOMAIN todo}
      BY <2>1 DEF TodoIds
    <3> HIDE DEF todo, rest
    <3>3. /\ flush'[f].pc = (IF Len(todo) = 1 THEN "delete" ELSE "store")
          /\ flush'[f].parts = flush[f].parts /\ flush'[f].todo = rest
      BY <3>1
    <3>4. TodoIds(f) \subseteq todo[1].id \cup TodoIds(f)'
      <4> SUFFICES ASSUME NEW n \in DOMAIN todo, n # 1
                   PROVE  todo[n].id \subseteq TodoIds(f)'
        BY <3>2
      <4>1. n - 1 \in DOMAIN rest /\ rest[n - 1] = todo[n] /\ Len(todo) # 1
        BY <3>1
      <4>2. TodoIds(f)' = UNION {rest[k].id : k \in DOMAIN rest}
        BY <3>3, <4>1 DEF TodoIds
      <4>3. QED
        BY <4>1, <4>2
    <3>5. ReadIds(f)' = ReadIds(f)
      BY <3>3 DEF ReadIds
    <3>6. ReadIds(f) \subseteq StoredIds \cup TodoIds(f)
      BY <1>2, <2>1
    <3>7. QED
      BY <1>2, <2>1, <2>2, <3>1, <3>4, <3>5, <3>6 DEF KeptOK
  <2>4. CASE EndFlush(f) /\ UNCHANGED rows
    <3>1. \A g \in Flushes : flush'[g].pc = "idle"
      BY <1>1, <2>1, <2>4, EndedFlush
    <3>2. StoredIds' = StoredIds
      BY <2>4 DEF StoredIds
    <3>3. QED
      BY <1>2, <2>1, <2>2, <3>1, <3>2 DEF KeptOK
  <2>5. QED
    BY <1>8, <2>3, <2>4 DEF StorePart
<1>9. ASSUME NEW f \in Flushes, DeleteParts(f)
      PROVE  KeptOK'
  <2>1. /\ flush[f].pc = "delete" /\ EndFlush(f)
        /\ UNCHANGED <<net, arriving, rows, endpoint, serial, taken, repeated, faults>>
    BY <1>9 DEF DeleteParts
  <2>2. \A g \in Flushes : flush'[g].pc = "idle"
    BY <1>1, <2>1, EndedFlush
  <2>3. StoredIds' = StoredIds
    BY <2>1 DEF StoredIds
  <2>4. ReadIds(f) \subseteq StoredIds
    <3>1. TodoIds(f) = {}
      BY <2>1 DEF TodoIds
    <3>2. QED
      BY <1>2, <2>1, <3>1
  <2>5. ASSUME NEW i \in DOMAIN buffer
        PROVE  buffer[i].w.id \in Held' \cup ReadIds(f)
    <3>1. CASE i > Len(flush[f].parts)
      <4>1. \E j \in DOMAIN buffer' : buffer'[j] = buffer[i]
        BY <1>9, <3>1, DeleteMeaning
      <4>2. QED
        BY <4>1 DEF Held
    <3>2. CASE ~(i > Len(flush[f].parts))
      <4>1. /\ flush[f].parts \in Seq(Entries(S)) /\ buffer \in Seq(Entries(S))
            /\ \A j \in DOMAIN flush[f].parts : flush[f].parts[j].w = buffer[j].w
        BY <1>1, <2>1 DEF FlushOK, BufferOK
      <4>2. i \in DOMAIN flush[f].parts
        BY <3>2, <4>1, LenProperties
      <4>3. QED
        BY <4>1, <4>2 DEF ReadIds
    <3>3. QED
      BY <3>1, <3>2
  <2>6. Held \subseteq Held' \cup StoredIds
    BY <2>4, <2>5 DEF Held
  <2>7. QED
    BY <1>2, <2>1, <2>2, <2>3, <2>6 DEF KeptOK
<1>10. ASSUME TimePasses
       PROVE  KeptOK'
  <2>1. UNCHANGED <<net, arriving, flush, running, rows, endpoint, serial, taken, repeated, faults>>
    BY <1>10 DEF TimePasses
  <2>2. Held' = Held
    BY <1>1, <1>10, TimeMeaning
  <2>3. QED
    BY <1>2, <2>1, <2>2 DEF KeptOK, StoredIds, ReadIds, TodoIds
<1>11. ASSUME WorkerCrash
       PROVE  KeptOK'
  <2>1. /\ flush' = [f \in Flushes |-> NoFlush]
        /\ UNCHANGED <<buffer, rows, endpoint, serial, taken, repeated>>
    BY <1>11 DEF WorkerCrash
  <2>2. \A g \in Flushes : flush'[g].pc = "idle"
    BY <2>1, NoFlushOK
  <2>3. QED
    BY <1>2, <2>1, <2>2 DEF KeptOK, Held, StoredIds
<1>12. ASSUME DeleteEndpoint
       PROVE  KeptOK'
  BY <1>12 DEF DeleteEndpoint
<1>13. KeptOK'
  BY <1>3, <1>4, <1>5, <1>6, <1>7, <1>8, <1>9, <1>10, <1>11, <1>12 DEF Next
<1>14. QED
  BY <1>13 DEF KeptOK

\* A text the gateway has acknowledged is in the buffer or in a message, whatever
\* arrives between the read of a set and its deletion, whichever ticks fail half way
\* and whenever the worker dies, for any number of segments (bufferIfPart, storeParts).
\* It takes texts that differ: of two webhooks with the same text one is dropped.
THEOREM AcknowledgedIsKept ==
  ASSUME TextsDiffer
  PROVE  Spec => []NothingLost
<1>1. Init => KeptInv
  <2>1. Init => ShapeInv
    BY InitShape DEF Init, ShapeInv
  <2>2. Init => KeptOK
    BY NoFlushOK DEF Init, KeptOK
  <2>3. QED
    BY <2>1, <2>2 DEF KeptInv
<1>2. KeptInv /\ ShapeInv' /\ [Next]_vars => KeptInv'
  <2> SUFFICES ASSUME KeptInv, ShapeInv', [Next]_vars
               PROVE  KeptInv'
    OBVIOUS
  <2>1. PICK S \in Scenes : ShapeOK(S)
    BY DEF KeptInv, ShapeInv
  <2>2. CASE Next
    BY <2>1, <2>2, KeptStep DEF KeptInv
  <2>3. CASE UNCHANGED vars
    BY <2>3, KeptFrame DEF vars, KeptInv
  <2>4. QED
    BY <2>2, <2>3
<1>3. KeptInv => NothingLost
  BY DEF KeptInv, KeptOK, NothingLost
<1>4. QED
  BY <1>1, <1>2, <1>3, ShapeInductive, PTL DEF Spec

-----------------------------------------------------------------------------
(* Nothing is stored twice.                                                  *)

\* What a tick has read waits in the buffer until it is deleted.
LEMMA ReadIsHeld ==
  ASSUME NEW S, BufferOK(S), FlushOK(S), NEW f \in Flushes, flush[f].pc # "idle"
  PROVE  /\ \A i \in DOMAIN flush[f].parts : /\ i \in DOMAIN buffer /\ i \in Nat /\ i <= Len(flush[f].parts)
                                             /\ flush[f].parts[i].w = buffer[i].w
         /\ Len(flush[f].parts) \in Nat
         /\ ReadIds(f) \subseteq Held
<1>1. /\ flush[f].parts \in Seq(Entries(S)) /\ buffer \in Seq(Entries(S))
      /\ Len(flush[f].parts) <= Len(buffer)
      /\ \A i \in DOMAIN flush[f].parts : flush[f].parts[i].w = buffer[i].w
  BY DEF FlushOK, BufferOK
<1>2. Len(flush[f].parts) \in Nat /\ DOMAIN flush[f].parts = 1..Len(flush[f].parts)
      /\ Len(buffer) \in Nat /\ DOMAIN buffer = 1..Len(buffer)
  BY <1>1, LenProperties
<1>3. \A i \in DOMAIN flush[f].parts : i \in DOMAIN buffer /\ i \in Nat /\ i <= Len(flush[f].parts)
  BY <1>1, <1>2
<1>4. ReadIds(f) \subseteq Held
  BY <1>1, <1>3 DEF ReadIds, Held
<1>5. QED
  BY <1>1, <1>2, <1>3, <1>4

\* What a tick holds does not change with the rest.
LEMMA TodoFrame ==
  ASSUME TodoOnce, UNCHANGED <<flush, rows, repeated>>
  PROVE  TodoOnce'
<1>1. StoredIds' = StoredIds /\ flush' = flush /\ repeated' = repeated
  BY DEF StoredIds
<1>2. \A f \in Flushes : TodoIds(f)' = TodoIds(f) /\ ReadIds(f)' = ReadIds(f)
  BY <1>1 DEF TodoIds, ReadIds
<1>3. QED
  BY <1>1, <1>2 DEF TodoOnce

LEMMA OnceFrame ==
  ASSUME HeldOnce, TodoOnce, InOneRow, UNCHANGED <<buffer, flush, rows, endpoint, repeated>>
  PROVE  HeldOnce' /\ TodoOnce' /\ InOneRow'
<1>1. StoredIds' = StoredIds
  BY DEF StoredIds
<1>2. \A i : Unread(i)' => Unread(i)
  BY DEF Unread
<1>3. HeldOnce'
  BY <1>1, <1>2 DEF HeldOnce
<1>4. QED
  BY <1>3, TodoFrame DEF InOneRow

\* A step without a fault puts nothing in a second place, unless it was posted again.
LEMMA OnceStep ==
  ASSUME NEW S, ShapeOK(S), faults = 0 => OnceOK, Next, faults' = 0
  PROVE  OnceOK'
<1>1. /\ S \in Scenes /\ JobsOK(S) /\ BufferOK(S) /\ FlushOK(S) /\ RowsOK(S)
      /\ faults \in Nat
  BY ConcatAssumption DEF ShapeOK
<1>2. ASSUME faults' = faults
      PROVE  endpoint /\ ToComeOnce /\ HeldOnce /\ TodoOnce /\ InOneRow
  BY <1>2 DEF OnceOK
<1>3. ASSUME NEW kind, Fault(kind)
      PROVE  FALSE
  BY <1>1, <1>3 DEF Fault
<1>4. ASSUME NEW w \in net, Arrive(w)
      PROVE  OnceOK'
  <2>1. /\ arriving' = [pc |-> "read", w |-> Repaired(w)]
        /\ \/ net' = net \ {w} /\ UNCHANGED repeated
           \/ repeated' = repeated \cup {w.id} /\ UNCHANGED net
        /\ UNCHANGED <<buffer, flush, running, rows, endpoint, serial, taken, faults>>
    BY <1>4 DEF Arrive
  <2>2. arriving'.w.id = w.id /\ net \subseteq S /\ \A v \in net : v.id = w.id => v = w
    <3>1. net \subseteq S
      BY <1>1 DEF JobsOK
    <3>2. Repaired(w).id = w.id /\ \A v \in S : v.id = w.id => v = w
      BY <1>1, <3>1, ReceivedMeaning
    <3>3. QED
      BY <2>1, <3>1, <3>2
  <2>3. Held' = Held /\ StoredIds' = StoredIds /\ repeated \subseteq repeated'
    BY <2>1 DEF Held, StoredIds
  <2>4. endpoint /\ ToComeOnce /\ HeldOnce /\ TodoOnce /\ InOneRow
    BY <1>2, <2>1
  <2>5. ToComeOnce'
    <3>1. CASE net' = net \ {w} /\ repeated' = repeated
      BY <2>2, <2>3, <2>4, <3>1 DEF ToComeOnce
    <3>2. CASE repeated' = repeated \cup {w.id} /\ net' = net
      BY <2>2, <2>3, <2>4, <3>2 DEF ToComeOnce
    <3>3. QED
      BY <2>1, <3>1, <3>2
  <2>6. HeldOnce'
    <3>1. \A i : Unread(i)' => Unread(i)
      BY <2>1 DEF Unread
    <3>2. QED
      BY <2>1, <2>3, <2>4, <3>1 DEF HeldOnce
  <2>7. TodoOnce'
    <3>1. \A f \in Flushes : TodoIds(f)' = TodoIds(f) /\ ReadIds(f)' = ReadIds(f)
      BY <2>1 DEF TodoIds, ReadIds
    <3>2. flush' = flush
      BY <2>1
    <3>3. QED
      BY <2>3, <2>4, <3>1, <3>2 DEF TodoOnce
  <2>8. InOneRow'
    BY <2>1, <2>3, <2>4 DEF InOneRow
  <2>9. QED
    BY <2>1, <2>4, <2>5, <2>6, <2>7, <2>8 DEF OnceOK
<1>5. ASSUME ReadWaiting
      PROVE  OnceOK'
  <2>1. UNCHANGED <<net, buffer, flush, running, rows, endpoint, serial, repeated, faults>>
    BY <1>5 DEF ReadWaiting
  <2>2. endpoint /\ ToComeOnce /\ HeldOnce /\ TodoOnce /\ InOneRow
    BY <1>2, <2>1
  <2>3. Held' = Held /\ StoredIds' = StoredIds
    BY <2>1 DEF Held, StoredIds
  <2>4. arriving.pc # "idle" /\ (arriving'.pc # "idle" => arriving'.w = arriving.w)
    <3>1. CASE arriving' = NoJob
      BY <1>5, <3>1 DEF ReadWaiting, NoJob
    <3>2. CASE arriving' = [arriving EXCEPT
                              !.pc = IF buffer = <<>> /\ ~looksLikeIncompletePart(arriving.w.text)
                                     THEN "store" ELSE "create"]
      <4>1. arriving' = [pc |-> IF buffer = <<>> /\ ~looksLikeIncompletePart(arriving.w.text)
                                THEN "store" ELSE "create", w |-> arriving.w]
        BY <1>1, <3>2 DEF JobsOK
      <4>2. QED
        BY <1>5, <4>1 DEF ReadWaiting
    <3>3. QED
      BY <1>5, <3>1, <3>2 DEF ReadWaiting, Done
  <2>5. ToComeOnce'
    BY <2>1, <2>2, <2>3, <2>4 DEF ToComeOnce
  <2>6. QED
    BY <2>1, <2>2, <2>5, OnceFrame DEF OnceOK
<1>6. ASSUME Hold
      PROVE  OnceOK'
  <2>1. arriving' = NoJob /\ UNCHANGED <<net, flush, running, rows, endpoint, repeated, faults>>
    BY <1>6 DEF Hold, Done
  <2>2. endpoint /\ ToComeOnce /\ HeldOnce /\ TodoOnce /\ InOneRow
    BY <1>2, <2>1
  <2> DEFINE new == [row |-> serial + 1, text |-> arriving.w.text, w |-> arriving.w, age |-> "new"]
  <2>3. new.w = arriving.w
    OBVIOUS
  <2> HIDE DEF new
  <2>4. /\ arriving.pc = "create"
        /\ Len(buffer) \in Nat /\ DOMAIN buffer = 1..Len(buffer) /\ DOMAIN buffer' = 1..(Len(buffer) + 1)
        /\ \A i \in 1..Len(buffer) : buffer'[i] = buffer[i]
        /\ buffer'[Len(buffer) + 1] = new
        /\ Held' = Held \cup {arriving.w.id}
    BY <1>1, <1>6, HoldMeaning DEF new
  <2>5. StoredIds' = StoredIds /\ arriving'.pc = "idle"
    BY <2>1 DEF StoredIds, NoJob
  <2>6. /\ arriving.w.id \notin repeated => arriving.w.id \notin Held \cup StoredIds
        /\ \A w \in net : w.id \notin repeated => w.id \notin Held \cup StoredIds /\ arriving.w.id # w.id
    BY <2>2, <2>4 DEF ToComeOnce
  <2>7. ToComeOnce'
    BY <2>1, <2>4, <2>5, <2>6 DEF ToComeOnce
  <2>8. HeldOnce'
    <3>1. \A i \in DOMAIN buffer' : (i \in DOMAIN buffer /\ buffer'[i] = buffer[i])
                                    \/ (i = Len(buffer) + 1 /\ buffer'[i].w = arriving.w)
      BY <2>3, <2>4
    <3>2. \A i \in DOMAIN buffer : buffer[i].w.id \in Held
      BY DEF Held
    <3>3. \A i : Unread(i)' => Unread(i)
      BY <2>1 DEF Unread
    <3>4. /\ \A i, j \in DOMAIN buffer : i # j /\ buffer[i].w.id = buffer[j].w.id => buffer[i].w.id \in repeated
          /\ \A i \in DOMAIN buffer : Unread(i) => buffer[i].w.id \notin StoredIds \ repeated
      BY <2>2 DEF HeldOnce
    <3>5. ASSUME NEW i \in DOMAIN buffer', NEW j \in DOMAIN buffer', i # j, buffer'[i].w.id = buffer'[j].w.id
          PROVE  buffer'[i].w.id \in repeated'
      BY <2>1, <2>6, <3>1, <3>2, <3>4, <3>5
    <3>6. ASSUME NEW i \in DOMAIN buffer', Unread(i)'
          PROVE  buffer'[i].w.id \notin StoredIds' \ repeated'
      BY <2>1, <2>5, <2>6, <3>1, <3>3, <3>4, <3>6
    <3>7. QED
      BY <3>5, <3>6 DEF HeldOnce
  <2>9. TodoOnce' /\ InOneRow'
    BY <2>1, <2>2, TodoFrame DEF InOneRow
  <2>10. QED
    BY <2>1, <2>2, <2>7, <2>8, <2>9 DEF OnceOK
<1>7. ASSUME StoreAtOnce
      PROVE  OnceOK'
  <2>1. /\ arriving.pc = "store" /\ arriving' = NoJob
        /\ rows' = IF endpoint THEN Persisted(Single(arriving.w)) ELSE rows
        /\ UNCHANGED <<net, buffer, flush, running, endpoint, serial, repeated, faults>>
    BY <1>7 DEF StoreAtOnce, Done
  <2>2. endpoint /\ ToComeOnce /\ HeldOnce /\ TodoOnce /\ InOneRow
    BY <1>2, <2>1
  <2>3. arriving.w \in Received(S)
    BY <1>1, <2>1 DEF JobsOK
  <2>4. /\ Single(arriving.w) \in MessageSet(S) /\ MessageOf(S, Single(arriving.w))
        /\ Single(arriving.w).id = {arriving.w.id}
    BY <1>1, <2>3, SingleMeaning
  <2>5. /\ rows' \subseteq rows \cup {Single(arriving.w)}
        /\ StoredIds' = StoredIds \cup {arriving.w.id}
    BY <1>1, <2>1, <2>2, <2>4, PersistedMeaning
  <2>6. /\ arriving.w.id \notin repeated => arriving.w.id \notin Held \cup StoredIds
        /\ \A w \in net : w.id \notin repeated => w.id \notin Held \cup StoredIds /\ arriving.w.id # w.id
    BY <2>1, <2>2 DEF ToComeOnce
  <2>7. Held' = Held /\ arriving'.pc = "idle"
    BY <2>1 DEF Held, NoJob
  <2>8. ToComeOnce'
    BY <2>1, <2>5, <2>6, <2>7 DEF ToComeOnce
  <2>9. HeldOnce'
    <3>1. \A i : Unread(i)' => Unread(i)
      BY <2>1 DEF Unread
    <3>2. \A i \in DOMAIN buffer : buffer[i].w.id \in Held
      BY DEF Held
    <3>3. QED
      BY <2>1, <2>2, <2>5, <2>6, <3>1, <3>2 DEF HeldOnce
  <2>10. TodoOnce'
    <3>1. \A f \in Flushes : flush[f].pc = "store" => TodoIds(f) \subseteq Held
      BY <1>1, <2>2, ReadIsHeld DEF TodoOnce
    <3>2. \A f \in Flushes : TodoIds(f)' = TodoIds(f) /\ ReadIds(f)' = ReadIds(f)
      BY <2>1 DEF TodoIds, ReadIds
    <3>3. flush' = flush /\ repeated' = repeated
      BY <2>1
    <3>4. QED
      BY <2>2, <2>5, <2>6, <3>1, <3>2, <3>3 DEF TodoOnce
  <2>11. InOneRow'
    <3>1. \A r \in rows : r.id \subseteq StoredIds
      BY DEF StoredIds
    <3> SUFFICES ASSUME NEW r \in rows', NEW q \in rows', r # q
                 PROVE  r.id \cap q.id \subseteq repeated
      BY <2>1 DEF InOneRow
    <3>2. CASE r \in rows /\ q \in rows
      BY <2>2, <3>2 DEF InOneRow
    <3>3. CASE r = Single(arriving.w) /\ q \in rows
      BY <2>4, <2>6, <3>1, <3>3
    <3>4. CASE q = Single(arriving.w) /\ r \in rows
      BY <2>4, <2>6, <3>1, <3>4
    <3>5. QED
      BY <2>5, <3>2, <3>3, <3>4
  <2>12. QED
    BY <2>1, <2>2, <2>8, <2>9, <2>10, <2>11 DEF OnceOK
<1>8. ASSUME NEW f \in Flushes, Flush(f)
      PROVE  OnceOK'
  <2> DEFINE todo == Messages(assembleParts(buffer))
  <2>1. ~running /\ UNCHANGED <<net, arriving, buffer, rows, endpoint, serial, taken, repeated, faults>>
    BY <1>8 DEF Flush, MayStart
  <2>2. endpoint /\ ToComeOnce /\ HeldOnce /\ TodoOnce /\ InOneRow
    BY <1>2, <2>1
  <2>3. Held' = Held /\ StoredIds' = StoredIds
    BY <2>1 DEF Held, StoredIds
  <2> HIDE DEF todo
  <2>4. /\ buffer \in Seq(Entries(S))
        /\ flush'[f] = [pc |-> IF endpoint THEN "store" ELSE "delete", parts |-> buffer, todo |-> todo]
        /\ \A g \in Flushes : g # f => flush'[g].pc = "idle"
        /\ \E where \in [DOMAIN todo -> SUBSET DOMAIN buffer] :
             /\ \A n \in DOMAIN todo : todo[n].id = {buffer[i].w.id : i \in where[n]}
             /\ \A m, n \in DOMAIN todo : m # n => where[m] \cap where[n] = {}
             /\ \A i \in DOMAIN buffer : \E n \in DOMAIN todo : i \in where[n]
    BY <1>8, FlushMeaning DEF todo
  <2>5. PICK where \in [DOMAIN todo -> SUBSET DOMAIN buffer] :
             /\ \A n \in DOMAIN todo : todo[n].id = {buffer[i].w.id : i \in where[n]}
             /\ \A m, n \in DOMAIN todo : m # n => where[m] \cap where[n] = {}
    BY <2>4
  <2>6. flush'[f].pc = "store" /\ flush'[f].parts = buffer /\ flush'[f].todo = todo
    BY <2>2, <2>4
  <2>7. \A i \in DOMAIN buffer : Unread(i)
    <3>1. \A g \in Flushes : flush[g].pc = "idle"
      BY <1>1, <2>1 DEF FlushOK
    <3>2. QED
      BY <3>1 DEF Unread
  <2>8. HeldOnce'
    <3>1. \A i \in DOMAIN buffer : ~Unread(i)'
      <4>1. \A i \in DOMAIN buffer : ~(Len(buffer) < i)
        BY <2>4, LenProperties
      <4>2. QED
        BY <2>6, <4>1 DEF Unread
    <3>2. QED
      BY <2>1, <2>2, <3>1 DEF HeldOnce
  <2>9. TodoOnce'
    <3>1. TodoIds(f)' = UNION {todo[n].id : n \in DOMAIN todo}
      BY <2>6 DEF TodoIds
    <3>2. ReadIds(f)' = {buffer[i].w.id : i \in DOMAIN buffer}
      BY <2>6 DEF ReadIds
    <3>3. \A n \in DOMAIN todo : where[n] \subseteq DOMAIN buffer
      BY <2>5
    <3>4. TodoIds(f)' \subseteq ReadIds(f)'
      BY <2>5, <3>1, <3>2, <3>3
    <3>5. ReadIds(f)' \cap StoredIds \subseteq repeated
      BY <2>2, <2>7, <3>2 DEF HeldOnce
    <3>6. ASSUME NEW m \in DOMAIN todo, NEW n \in DOMAIN todo, m # n, NEW x \in todo[m].id \cap todo[n].id
          PROVE  x \in repeated
      <4>1. PICK i \in where[m] : x = buffer[i].w.id
        BY <2>5, <3>6
      <4>2. PICK j \in where[n] : x = buffer[j].w.id
        BY <2>5, <3>6
      <4>3. i \in DOMAIN buffer /\ j \in DOMAIN buffer /\ i # j
        BY <2>5, <3>3, <3>6, <4>1, <4>2
      <4>4. QED
        BY <2>2, <4>1, <4>2, <4>3 DEF HeldOnce
    <3>7. repeated' = repeated
      BY <2>1
    <3>8. ASSUME NEW g \in Flushes, flush'[g].pc = "store"
          PROVE  g = f
      BY <2>4, <3>8
    <3>9. \A m, n \in DOMAIN todo : m # n => todo[m].id \cap todo[n].id \subseteq repeated
      BY <3>6
    <3>10. QED
      BY <2>3, <2>6, <3>4, <3>5, <3>7, <3>8, <3>9 DEF TodoOnce
  <2>10. ToComeOnce' /\ InOneRow'
    BY <2>1, <2>2, <2>3 DEF ToComeOnce, InOneRow
  <2>11. QED
    BY <2>1, <2>2, <2>8, <2>9, <2>10 DEF OnceOK
<1>9. ASSUME NEW f \in Flushes, StorePart(f)
      PROVE  OnceOK'
  <2>1. flush[f].pc = "store" /\ UNCHANGED <<net, arriving, buffer, endpoint, serial, taken, repeated>>
    BY <1>9 DEF StorePart
  <2>2. CASE /\ rows' = Persisted(Head(flush[f].todo))
             /\ flush' = [flush EXCEPT ![f].todo = Tail(@),
                                       ![f].pc = IF Len(flush[f].todo) = 1 THEN "delete" ELSE "store"]
             /\ UNCHANGED faults
    <3> DEFINE todo == flush[f].todo
               rest == Tail(todo)
    <3>1. /\ Len(todo) \in Nat \ {0} /\ DOMAIN todo = 1..Len(todo)
          /\ DOMAIN rest = 1..(Len(todo) - 1)
          /\ \A n \in 1..(Len(todo) - 1) : rest[n] = todo[n + 1]
          /\ rows' \subseteq rows \cup {todo[1]}
          /\ StoredIds' = StoredIds \cup todo[1].id
          /\ flush'[f] = [pc |-> IF Len(todo) = 1 THEN "delete" ELSE "store",
                          parts |-> flush[f].parts, todo |-> rest]
          /\ \A g \in Flushes : g # f => flush'[g].pc = "idle"
      BY <1>1, <2>1, <2>2, StoreMeaning
    <3>2. endpoint /\ ToComeOnce /\ HeldOnce /\ TodoOnce /\ InOneRow
      BY <1>2, <2>2
    <3>3. TodoIds(f) = UNION {todo[n].id : n \in DOMAIN todo}
      BY <2>1 DEF TodoIds
    <3>4. /\ TodoIds(f) \subseteq ReadIds(f) /\ TodoIds(f) \cap StoredIds \subseteq repeated
          /\ \A m, n \in DOMAIN todo : m # n => todo[m].id \cap todo[n].id \subseteq repeated
      BY <2>1, <3>2 DEF TodoOnce
    <3> HIDE DEF todo, rest
    <3>5. 1 \in DOMAIN todo /\ todo[1].id \subseteq TodoIds(f)
      BY <3>1, <3>3
    <3>6. /\ \A i \in DOMAIN flush[f].parts : /\ i \in DOMAIN buffer /\ i \in Nat /\ i <= Len(flush[f].parts)
                                              /\ flush[f].parts[i].w = buffer[i].w
          /\ Len(flush[f].parts) \in Nat /\ ReadIds(f) \subseteq Held
      BY <1>1, <2>1, ReadIsHeld
    <3>7. Held' = Held
      BY <2>1 DEF Held
    <3>8. /\ flush'[f].pc = (IF Len(todo) = 1 THEN "delete" ELSE "store")
          /\ flush'[f].parts = flush[f].parts /\ flush'[f].todo = rest
      BY <3>1
    <3>9. ToComeOnce'
      BY <2>1, <3>1, <3>2, <3>4, <3>5, <3>6, <3>7 DEF ToComeOnce
    <3>10. HeldOnce'
      <4>1. ASSUME NEW i \in DOMAIN buffer, Unread(i)'
            PROVE  Unread(i) /\ (buffer[i].w.id \in todo[1].id => buffer[i].w.id \in repeated)
        <5>1. Len(flush[f].parts) < i
          BY <3>8, <4>1 DEF Unread
        <5>2. Unread(i)
          BY <1>1, <2>1, <5>1 DEF FlushOK, Unread
        <5>3. ASSUME buffer[i].w.id \in todo[1].id
              PROVE  buffer[i].w.id \in repeated
          <6>1. PICK j \in DOMAIN flush[f].parts : flush[f].parts[j].w.id = buffer[i].w.id
            BY <3>4, <3>5, <5>3 DEF ReadIds
          <6>2. j \in DOMAIN buffer /\ buffer[j].w.id = buffer[i].w.id /\ j # i
            BY <3>6, <5>1, <6>1
          <6>3. QED
            BY <3>2, <6>2 DEF HeldOnce
        <5>4. QED
          BY <5>2, <5>3
      <4>2. QED
        BY <2>1, <3>1, <3>2, <4>1 DEF HeldOnce
    <3>11. TodoOnce'
      <4> SUFFICES ASSUME NEW g \in Flushes, flush'[g].pc = "store"
                   PROVE  /\ TodoIds(g)' \subseteq ReadIds(g)'
                          /\ TodoIds(g)' \cap StoredIds' \subseteq repeated
                          /\ \A m, n \in DOMAIN flush'[g].todo :
                               m # n => flush'[g].todo[m].id \cap flush'[g].todo[n].id \subseteq repeated
        BY <2>1 DEF TodoOnce
      <4>1. g = f
        BY <3>1
      <4>2. TodoIds(f)' = UNION {rest[n].id : n \in DOMAIN rest} /\ ReadIds(f)' = ReadIds(f)
        BY <3>8, <4>1 DEF TodoIds, ReadIds
      <4>3. \A n \in DOMAIN rest : n \in Nat /\ n + 1 \in DOMAIN todo /\ n + 1 # 1 /\ rest[n] = todo[n + 1]
        BY <3>1
      <4>4. TodoIds(f)' \subseteq TodoIds(f)
        BY <3>3, <4>2, <4>3
      <4>5. TodoIds(f)' \cap todo[1].id \subseteq repeated
        BY <3>4, <3>5, <4>2, <4>3
      <4>6. ASSUME NEW m \in DOMAIN rest, NEW n \in DOMAIN rest, m # n
            PROVE  rest[m].id \cap rest[n].id \subseteq repeated
        <5>1. m + 1 # n + 1
          BY <4>3, <4>6
        <5>2. QED
          BY <3>4, <4>3, <5>1
      <4>7. TodoIds(f)' \subseteq ReadIds(f)'
        BY <3>4, <4>2, <4>4
      <4>8. TodoIds(f)' \cap StoredIds' \subseteq repeated
        BY <3>1, <3>4, <4>4, <4>5
      <4>9. flush'[f].todo = rest
        BY <3>8
      <4>10. QED
        BY <4>1, <4>6, <4>7, <4>8, <4>9
    <3>12. InOneRow'
      <4>1. \A r \in rows : r.id \subseteq StoredIds
        BY DEF StoredIds
      <4> SUFFICES ASSUME NEW r \in rows', NEW q \in rows', r # q
                   PROVE  r.id \cap q.id \subseteq repeated
        BY <2>1 DEF InOneRow
      <4>2. CASE r \in rows /\ q \in rows
        BY <3>2, <4>2 DEF InOneRow
      <4>3. CASE r = todo[1] /\ q \in rows
        BY <3>4, <3>5, <4>1, <4>3
      <4>4. CASE q = todo[1] /\ r \in rows
        BY <3>4, <3>5, <4>1, <4>4
      <4>5. QED
        BY <3>1, <4>2, <4>3, <4>4
    <3>13. QED
      BY <2>1, <3>2, <3>9, <3>10, <3>11, <3>12 DEF OnceOK
  <2>3. CASE Fault("persistFails")
    BY <1>3, <2>3
  <2>4. CASE ~endpoint /\ UNCHANGED faults
    BY <1>2, <2>4
  <2>5. QED
    BY <1>9, <2>2, <2>3, <2>4 DEF StorePart
<1>10. ASSUME NEW f \in Flushes, DeleteParts(f)
       PROVE  OnceOK'
  <2>1. /\ flush[f].pc = "delete" /\ EndFlush(f)
        /\ UNCHANGED <<net, arriving, rows, endpoint, serial, taken, repeated, faults>>
    BY <1>10 DEF DeleteParts
  <2>2. endpoint /\ ToComeOnce /\ HeldOnce /\ TodoOnce /\ InOneRow
    BY <1>2, <2>1
  <2>3. \A g \in Flushes : flush'[g].pc = "idle"
    BY <1>1, <2>1, EndedFlush
  <2>4. PICK count \in Nat : \E p \in [1..count -> {i \in DOMAIN buffer : i > Len(flush[f].parts)}] :
           /\ DOMAIN buffer' = 1..count
           /\ \A n \in 1..count : p[n] \in DOMAIN buffer /\ buffer'[n] = buffer[p[n]]
           /\ \A m, n \in 1..count : m < n => p[m] < p[n]
    BY <1>10, DeleteMeaning
  <2>5. PICK p \in [1..count -> {i \in DOMAIN buffer : i > Len(flush[f].parts)}] :
           /\ DOMAIN buffer' = 1..count
           /\ \A n \in 1..count : p[n] \in DOMAIN buffer /\ buffer'[n] = buffer[p[n]]
           /\ \A m, n \in 1..count : m < n => p[m] < p[n]
    BY <2>4
  <2>6. StoredIds' = StoredIds /\ Held' \subseteq Held
    BY <2>1, <2>5 DEF StoredIds, Held
  <2>7. ASSUME NEW n \in 1..count
        PROVE  Unread(p[n])
    <3>1. p[n] > Len(flush[f].parts) /\ p[n] \in DOMAIN buffer
      BY <2>5
    <3>2. p[n] \in Nat /\ Len(flush[f].parts) \in Nat
      <4>1. buffer \in Seq(Entries(S)) /\ flush[f].parts \in Seq(Entries(S))
        BY <1>1 DEF BufferOK, FlushOK
      <4>2. QED
        BY <3>1, <4>1, LenProperties
    <3>3. \A g \in Flushes : flush[g].pc # "idle" => g = f
      BY <1>1, <2>1 DEF FlushOK
    <3>4. QED
      BY <3>1, <3>2, <3>3 DEF Unread
  <2>8. HeldOnce'
    <3>1. ASSUME NEW i \in DOMAIN buffer', NEW j \in DOMAIN buffer', i # j, buffer'[i].w.id = buffer'[j].w.id
          PROVE  buffer'[i].w.id \in repeated'
      <4>1. i \in 1..count /\ j \in 1..count /\ (i < j \/ j < i)
        BY <2>5, <3>1
      <4>2. p[i] < p[j] \/ p[j] < p[i]
        BY <2>5, <4>1
      <4>3. p[i] \in DOMAIN buffer /\ p[j] \in DOMAIN buffer /\ p[i] \in Nat /\ p[j] \in Nat
        <5>1. buffer \in Seq(Entries(S))
          BY <1>1 DEF BufferOK
        <5>2. QED
          BY <2>5, <4>1, <5>1, LenProperties
      <4>4. p[i] # p[j]
        BY <4>2, <4>3
      <4>5. QED
        BY <2>1, <2>2, <2>5, <3>1, <4>1, <4>3, <4>4 DEF HeldOnce
    <3>2. ASSUME NEW i \in DOMAIN buffer'
          PROVE  buffer'[i].w.id \notin StoredIds' \ repeated'
      <4>1. i \in 1..count /\ Unread(p[i]) /\ p[i] \in DOMAIN buffer /\ buffer'[i] = buffer[p[i]]
        BY <2>5, <2>7
      <4>2. QED
        BY <2>1, <2>2, <2>6, <4>1 DEF HeldOnce
    <3>3. QED
      BY <3>1, <3>2 DEF HeldOnce
  <2>9. TodoOnce'
    BY <2>3 DEF TodoOnce
  <2>10. ToComeOnce' /\ InOneRow'
    BY <2>1, <2>2, <2>6 DEF ToComeOnce, InOneRow
  <2>11. QED
    BY <2>1, <2>2, <2>8, <2>9, <2>10 DEF OnceOK
<1>11. ASSUME TimePasses
       PROVE  OnceOK'
  <2>1. UNCHANGED <<net, arriving, flush, running, rows, endpoint, serial, taken, repeated, faults>>
    BY <1>11 DEF TimePasses
  <2>2. endpoint /\ ToComeOnce /\ HeldOnce /\ TodoOnce /\ InOneRow
    BY <1>2, <2>1
  <2>3. /\ DOMAIN buffer' = DOMAIN buffer /\ \A i \in DOMAIN buffer : buffer'[i].w = buffer[i].w
        /\ Held' = Held
    BY <1>1, <1>11, TimeMeaning
  <2>4. StoredIds' = StoredIds
    BY <2>1 DEF StoredIds
  <2>5. HeldOnce'
    <3>1. \A i : Unread(i)' => Unread(i)
      BY <2>1 DEF Unread
    <3>2. QED
      BY <2>1, <2>2, <2>3, <2>4, <3>1 DEF HeldOnce
  <2>6. TodoOnce'
    BY <2>1, <2>2, TodoFrame
  <2>7. ToComeOnce' /\ InOneRow'
    BY <2>1, <2>2, <2>3, <2>4 DEF ToComeOnce, InOneRow
  <2>8. QED
    BY <2>1, <2>2, <2>5, <2>6, <2>7 DEF OnceOK
<1>12. ASSUME WorkerCrash \/ DeleteEndpoint
       PROVE  FALSE
  BY <1>3, <1>12 DEF WorkerCrash, DeleteEndpoint
<1>13. QED
  BY <1>4, <1>5, <1>6, <1>7, <1>8, <1>9, <1>10, <1>11, <1>12 DEF Next

\* Without failures no segment ends up in two messages, unless the vendor posted it
\* again, though segments arrive while a tick stores and deletes what it has read: ticks
\* do not overlap, and only the rows that were read are deleted
\* (SmsConcatScheduler.flush, storeParts).
THEOREM NothingStoredTwice == Spec => []StoredOnce
<1>1. Init => OnceInv
  <2> SUFFICES ASSUME Init
               PROVE  OnceInv
    OBVIOUS
  <2>1. ShapeInv
    BY InitShape DEF Init, ShapeInv
  <2>2. /\ endpoint /\ net \in Scenes /\ arriving.pc = "idle" /\ DOMAIN buffer = {} /\ rows = {}
        /\ \A f \in Flushes : flush[f].pc = "idle"
    BY NoFlushOK DEF Init, NoJob
  <2>3. Held = {} /\ StoredIds = {}
    BY <2>2 DEF Held, StoredIds
  <2>4. OnceOK
    BY <2>2, <2>3 DEF OnceOK, ToComeOnce, HeldOnce, TodoOnce, InOneRow
  <2>5. QED
    BY <2>1, <2>4 DEF OnceInv
<1>2. OnceInv /\ ShapeInv' /\ [Next]_vars => OnceInv'
  <2> SUFFICES ASSUME OnceInv, ShapeInv', [Next]_vars
               PROVE  OnceInv'
    OBVIOUS
  <2>1. PICK S \in Scenes : ShapeOK(S)
    BY DEF OnceInv, ShapeInv
  <2>2. CASE Next
    BY <2>1, <2>2, OnceStep DEF OnceInv
  <2>3. CASE UNCHANGED vars
    <3>1. /\ UNCHANGED <<buffer, flush, rows, endpoint, repeated>>
          /\ UNCHANGED <<net, arriving>> /\ UNCHANGED faults
      BY <2>3 DEF vars
    <3>2. Held' = Held /\ StoredIds' = StoredIds
      BY <3>1 DEF Held, StoredIds
    <3>3. ToComeOnce => ToComeOnce'
      BY <3>1, <3>2 DEF ToComeOnce
    <3>4. (faults = 0 => OnceOK) => (faults' = 0 => OnceOK')
      BY <3>1, <3>3, OnceFrame DEF OnceOK
    <3>5. QED
      BY <3>4 DEF OnceInv
  <2>4. QED
    BY <2>2, <2>3
<1>3. OnceInv => StoredOnce
  BY DEF OnceInv, OnceOK, InOneRow, StoredOnce
<1>4. QED
  BY <1>1, <1>2, <1>3, ShapeInductive, PTL DEF Spec
====
