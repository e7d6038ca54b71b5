----------------------------- MODULE ListProofs -----------------------------
(***************************************************************************)
(* Facts about lists and numbers that the proofs about several modules     *)
(* need: what inserting into and removing from a list gives, and that a    *)
(* set of naturals has a least member, which is what takes the place of    *)
(* induction in them.                                                      *)
(***************************************************************************)
EXTENDS Integers, SequencesExt, SequenceTheorems, WellFoundedInduction, TLAPS

\* A non-empty set of naturals has a least member.
LEMMA NatHasLeast ==
    ASSUME NEW S \in SUBSET Nat, S # {}
    PROVE  \E k \in S : \A j \in S : k <= j
    <1> DEFINE R == {p \in Nat \X Nat : p[1] < p[2]}
    <1>1. IsWellFoundedOn(R, Nat)
        BY NatLessThanWellFounded DEF OpToRel
    <1>2. PICK k \in S : \A j \in S : ~(<<j, k>> \in R)
        <2> HIDE DEF R
        <2> QED  BY <1>1, WFMin
    <1>3. ASSUME NEW j \in S  PROVE k <= j
        <2>1. <<j, k>> \in Nat \X Nat /\ ~(<<j, k>> \in R)
            BY <1>2
        <2>2. ~(<<j, k>>[1] < <<j, k>>[2])
            BY <2>1
        <2> QED  BY <2>2
    <1> QED
        BY <1>3

\* What inserting into a list gives, position by position.
LEMMA InsertAtFacts ==
    ASSUME NEW S, NEW list \in Seq(S), NEW i \in 1..(Len(list) + 1), NEW s \in S
    PROVE  LET new == InsertAt(list, i, s)
           IN /\ new \in Seq(S) /\ Len(new) = Len(list) + 1
              /\ \A j \in 1..(Len(list) + 1) :
                    new[j] = IF j < i THEN list[j] ELSE IF j = i THEN s ELSE list[j - 1]
    <1> DEFINE a == SubSeq(list, 1, i - 1)
               b == SubSeq(list, i, Len(list))
               c == a \o <<s>>
    <1>1. /\ a \in Seq(S) /\ Len(a) = i - 1
          /\ \A j \in 1..(i - 1) : a[j] = list[j]
        BY SubSeqProperties
    <1>2. /\ b \in Seq(S) /\ Len(b) = Len(list) - i + 1
          /\ \A j \in 1..(Len(list) - i + 1) : b[j] = list[i + j - 1]
        BY SubSeqProperties
    <1> HIDE DEF a, b
    <1>3. /\ c \in Seq(S) /\ Len(c) = i
          /\ \A j \in 1..i : c[j] = IF j < i THEN list[j] ELSE s
        BY <1>1, ConcatProperties
    <1> HIDE DEF c
    <1>4. /\ c \o b \in Seq(S) /\ Len(c \o b) = Len(list) + 1
          /\ \A j \in 1..(Len(list) + 1) :
                (c \o b)[j] = IF j <= i THEN c[j] ELSE b[j - i]
        BY <1>2, <1>3, ConcatProperties
    <1>5. ASSUME NEW j \in 1..(Len(list) + 1), j > i
          PROVE  b[j - i] = list[j - 1]
        <2>1. j - i \in 1..(Len(list) - i + 1) /\ i + (j - i) - 1 = j - 1
            BY <1>5
        <2> QED
            BY <2>1, <1>2
    <1>6. InsertAt(list, i, s) = c \o b
        BY DEF InsertAt, a, b, c
    <1> QED
        BY <1>3, <1>4, <1>5, <1>6

\* What removing from a list gives, position by position.
LEMMA RemoveAtFacts ==
    ASSUME NEW S, NEW list \in Seq(S), NEW i \in 1..Len(list)
    PROVE  LET new == RemoveAt(list, i)
           IN /\ new \in Seq(S) /\ Len(new) = Len(list) - 1
              /\ \A j \in 1..(Len(list) - 1) :
                    new[j] = IF j < i THEN list[j] ELSE list[j + 1]
    <1> DEFINE a == SubSeq(list, 1, i - 1)
               b == SubSeq(list, i + 1, Len(list))
    <1>1. /\ a \in Seq(S) /\ Len(a) = i - 1
          /\ \A j \in 1..(i - 1) : a[j] = list[j]
        BY SubSeqProperties
    <1>2. /\ b \in Seq(S) /\ Len(b) = Len(list) - i
          /\ \A j \in 1..(Len(list) - i) : b[j] = list[i + j]
        BY SubSeqProperties
    <1> HIDE DEF a, b
    <1>3. /\ a \o b \in Seq(S) /\ Len(a \o b) = Len(list) - 1
          /\ \A j \in 1..(Len(list) - 1) :
                (a \o b)[j] = IF j <= i - 1 THEN a[j] ELSE b[j - (i - 1)]
        <2>1. /\ a \o b \in Seq(S) /\ Len(a \o b) = Len(a) + Len(b)
              /\ \A j \in 1..(Len(a) + Len(b)) :
                    (a \o b)[j] = IF j <= Len(a) THEN a[j] ELSE b[j - Len(a)]
            BY <1>1, <1>2, ConcatProperties
        <2>2. Len(a) + Len(b) = Len(list) - 1
            BY <1>1, <1>2
        <2> QED
            BY <2>1, <2>2, <1>1, Zenon
    <1>4. ASSUME NEW j \in 1..(Len(list) - 1), ~(j < i)
          PROVE  b[j - (i - 1)] = list[j + 1]
        <2>1. j - (i - 1) \in 1..(Len(list) - i) /\ i + (j - (i - 1)) = j + 1
            BY <1>4
        <2> QED
            BY <2>1, <1>2
    <1>5. RemoveAt(list, i) = a \o b
        BY DEF RemoveAt, a, b
    <1> QED
        BY <1>1, <1>3, <1>4, <1>5

\* Inserting a new member adds just this one, once.
LEMMA InsertAtRange ==
    ASSUME NEW S, NEW list \in Seq(S), NEW i \in 1..(Len(list) + 1), NEW s \in S,
           IsInjective(list), s \notin Range(list)
    PROVE  LET new == InsertAt(list, i, s)
           IN Range(new) = Range(list) \cup {s} /\ IsInjective(new)
    <1> DEFINE new == InsertAt(list, i, s)
    <1>1. /\ new \in Seq(S) /\ Len(new) = Len(list) + 1
          /\ \A j \in 1..(Len(list) + 1) :
                new[j] = IF j < i THEN list[j] ELSE IF j = i THEN s ELSE list[j - 1]
        <2> DEFINE L == list
        <2>1. L \in Seq(S) /\ s \in S /\ i \in 1..(Len(L) + 1)
            OBVIOUS
        <2> HIDE DEF L
        <2>2. LET n == InsertAt(L, i, s)
              IN /\ n \in Seq(S) /\ Len(n) = Len(L) + 1
                 /\ \A j \in 1..(Len(L) + 1) :
                       n[j] = IF j < i THEN L[j] ELSE IF j = i THEN s ELSE L[j - 1]
            BY <2>1, InsertAtFacts
        <2> QED
            BY <2>2 DEF L
    <1> HIDE DEF new
    <1>2. DOMAIN new = 1..(Len(list) + 1) /\ DOMAIN list = 1..Len(list)
        BY <1>1
    <1>3. Range(new) \subseteq Range(list) \cup {s}
        <2>1. \A j \in 1..(Len(list) + 1) : j < i => j \in DOMAIN list
            BY <1>2
        <2>2. \A j \in 1..(Len(list) + 1) : j > i => j - 1 \in DOMAIN list
            BY <1>2
        <2>3. \A j \in 1..(Len(list) + 1) : new[j] \in Range(list) \cup {s}
            BY <1>1, <2>1, <2>2 DEF Range
        <2> QED
            BY <1>2, <2>3 DEF Range
    <1>4. s \in Range(new)
        BY <1>1, <1>2 DEF Range
    <1>5. ASSUME NEW k \in 1..Len(list)
          PROVE  list[k] \in Range(new)
        <2>1. CASE k < i
            BY <2>1, <1>1, <1>2 DEF Range
        <2>2. CASE k >= i
            <3>1. k + 1 \in DOMAIN new /\ new[k + 1] = list[k]
                BY <2>2, <1>1, <1>2
            <3> QED
                BY <3>1 DEF Range
        <2> QED
            BY <2>1, <2>2
    <1>6. Range(list) \subseteq Range(new)
        BY <1>2, <1>5 DEF Range
    <1>7. IsInjective(new)
        <2>1. \A j \in 1..Len(list) : list[j] # s
            BY <1>2 DEF Range
        <2>2. \A j, k \in 1..Len(list) : list[j] = list[k] => j = k
            BY <1>2 DEF IsInjective
        <2>3. ASSUME NEW j \in 1..(Len(list) + 1), NEW k \in 1..(Len(list) + 1), new[j] = new[k]
              PROVE  j = k
            <3> DEFINE p(x) == IF x < i THEN x ELSE x - 1
            <3>1. \A x \in 1..(Len(list) + 1) : x # i => p(x) \in 1..Len(list) /\ new[x] = list[p(x)]
                BY <1>1
            <3>2. new[i] = s
                BY <1>1
            <3>3. j = i <=> k = i
                BY <2>1, <2>3, <3>1, <3>2
            <3>4. j # i => p(j) = p(k)
                BY <2>2, <2>3, <3>1, <3>3
            <3> QED
                BY <3>3, <3>4
        <2> QED
            BY <2>3, <1>2 DEF IsInjective
    <1> QED
        BY <1>3, <1>4, <1>6, <1>7 DEF new

\* Removing an entry removes just its member.
LEMMA RemoveAtRange ==
    ASSUME NEW S, NEW list \in Seq(S), NEW i \in 1..Len(list), IsInjective(list)
    PROVE  LET new == RemoveAt(list, i)
           IN Range(new) = Range(list) \ {list[i]} /\ IsInjective(new)
    <1> DEFINE new == RemoveAt(list, i)
    <1>1. /\ new \in Seq(S) /\ Len(new) = Len(list) - 1
          /\ \A j \in 1..(Len(list) - 1) : new[j] = IF j < i THEN list[j] ELSE list[j + 1]
        BY RemoveAtFacts
    <1> HIDE DEF new
    <1>2. DOMAIN new = 1..(Len(list) - 1) /\ DOMAIN list = 1..Len(list)
        BY <1>1
    <1>3. \A j, k \in 1..Len(list) : list[j] = list[k] => j = k
        BY <1>2 DEF IsInjective
    <1>4. ASSUME NEW j \in 1..(Len(list) - 1)
          PROVE  new[j] \in Range(list) /\ new[j] # list[i]
        <2>1. CASE j < i
            <3>1. new[j] = list[j] /\ j \in 1..Len(list)
                BY <2>1, <1>1
            <3>2. list[j] # list[i]
                BY <2>1, <3>1, <1>3
            <3> QED
                BY <3>1, <3>2, <1>2 DEF Range
        <2>2. CASE j >= i
            <3>1. new[j] = list[j + 1] /\ j + 1 \in 1..Len(list) /\ j + 1 # i
                BY <2>2, <1>1
            <3> QED
                BY <3>1, <1>2, <1>3 DEF Range
        <2> QED
            BY <2>1, <2>2
    <1>5. Range(new) \subseteq Range(list) \ {list[i]}
        BY <1>2, <1>4 DEF Range
    <1>6. ASSUME NEW k \in 1..Len(list), k # i
          PROVE  list[k] \in Range(new)
        <2>1. CASE k < i
            <3>1. k \in DOMAIN new /\ new[k] = list[k]
                BY <2>1, <1>1, <1>2
            <3> QED
                BY <3>1 DEF Range
        <2>2. CASE k > i
            <3>1. k - 1 \in DOMAIN new /\ new[k - 1] = list[k]
                BY <2>2, <1>1, <1>2
            <3> QED
                BY <3>1 DEF Range
        <2> QED
            BY <2>1, <2>2, <1>6
    <1>7. Range(list) \ {list[i]} \subseteq Range(new)
        BY <1>2, <1>6 DEF Range
    <1>8. ASSUME NEW j \in 1..(Len(list) - 1), NEW k \in 1..(Len(list) - 1), new[j] = new[k]
          PROVE  j = k
        BY <1>8, <1>1, <1>3
    <1>9. IsInjective(new)
        BY <1>2, <1>8 DEF IsInjective
    <1> QED
        BY <1>5, <1>7, <1>9 DEF new

\* Appending a new member adds just this one, once.
LEMMA AppendRange ==
    ASSUME NEW S, NEW list \in Seq(S), NEW s \in S, IsInjective(list), s \notin Range(list)
    PROVE  LET new == Append(list, s)
           IN /\ new \in Seq(S) /\ new # <<>>
              /\ Range(new) = Range(list) \cup {s} /\ IsInjective(new)
    <1> DEFINE new == Append(list, s)
    <1>1. /\ new \in Seq(S) /\ Len(new) = Len(list) + 1
          /\ \A j \in 1..Len(list) : new[j] = list[j]
          /\ new[Len(list) + 1] = s /\ new # <<>>
        OBVIOUS
    <1> HIDE DEF new
    <1>2. DOMAIN new = 1..(Len(list) + 1) /\ DOMAIN list = 1..Len(list)
        BY <1>1
    <1>3. Range(new) = Range(list) \cup {s}
        BY <1>1, <1>2 DEF Range
    <1>4. \A j \in 1..Len(list) : list[j] # s
        BY <1>2 DEF Range
    <1>5. \A j, k \in 1..Len(list) : list[j] = list[k] => j = k
        BY <1>2 DEF IsInjective
    <1>6. ASSUME NEW j \in 1..(Len(list) + 1), NEW k \in 1..(Len(list) + 1), new[j] = new[k]
          PROVE  j = k
        BY <1>1, <1>4, <1>5, <1>6
    <1>7. IsInjective(new)
        BY <1>2, <1>6 DEF IsInjective
    <1> QED
        BY <1>1, <1>3, <1>7 DEF new

\* A list is its head and its tail.
LEMMA HeadTailRange ==
    ASSUME NEW S, NEW list \in Seq(S), list # <<>>
    PROVE  /\ Range(list) = {Head(list)} \cup Range(Tail(list))
           /\ Len(list) <= 1 => Range(list) = {Head(list)}
    <1>1. Len(list) \in Nat \ {0} /\ Len(Tail(list)) = Len(list) - 1 /\ Head(list) = list[1]
        OBVIOUS
    <1>2. \A i \in 1..(Len(list) - 1) : Tail(list)[i] = list[i + 1]
        BY <1>1
    <1>3. DOMAIN list = 1..Len(list) /\ DOMAIN Tail(list) = 1..(Len(list) - 1)
        BY <1>1
    <1>4. \A i \in 1..Len(list) : i = 1 \/ (i - 1 \in 1..(Len(list) - 1) /\ (i - 1) + 1 = i)
        BY <1>1
    <1>5. Range(list) \subseteq {Head(list)} \cup Range(Tail(list))
        <2>1. ASSUME NEW i \in 1..Len(list)
              PROVE  list[i] \in {Head(list)} \cup Range(Tail(list))
            <3>1. CASE i = 1
                BY <3>1, <1>1
            <3>2. CASE i # 1
                <4>1. Tail(list)[i - 1] = list[i] /\ i - 1 \in DOMAIN Tail(list)
                    BY <3>2, <1>2, <1>3, <1>4
                <4> QED
                    BY <4>1 DEF Range
            <3> QED
                BY <3>1, <3>2
        <2> QED
            BY <2>1, <1>3 DEF Range
    <1>6. {Head(list)} \cup Range(Tail(list)) \subseteq Range(list)
        <2>1. Head(list) \in Range(list)
            BY <1>1, <1>3 DEF Range
        <2>2. \A i \in 1..(Len(list) - 1) : i + 1 \in DOMAIN list
            BY <1>1, <1>3
        <2> QED
            BY <2>1, <2>2, <1>2, <1>3 DEF Range
    <1>7. ASSUME Len(list) <= 1  PROVE Range(Tail(list)) = {}
        <2>1. DOMAIN Tail(list) = {}
            BY <1>1, <1>3, <1>7
        <2> QED
            BY <2>1 DEF Range
    <1> QED
        BY <1>5, <1>6, <1>7

\* Adding to a remainder and to the number leaves the same remainder.
LEMMA ModOfMod ==
  ASSUME NEW F \in Nat \ {0}, NEW a \in Int, NEW b \in Int
  PROVE  ((a % F) + b) % F = (a + b) % F
    <1> DEFINE p == a \div F
             q == ((a % F) + b) \div F
             r == (a + b) \div F
             k == p + q - r
             x == ((a % F) + b) % F
             y == (a + b) % F
    <1>1. a = F * p + (a % F) /\ a % F \in 0..F - 1 /\ p \in Int
    OBVIOUS
    <1>2. (a % F) + b = F * q + x /\ x \in 0..F - 1 /\ q \in Int
    BY <1>1
    <1>3. a + b = F * r + y /\ y \in 0..F - 1 /\ r \in Int
    OBVIOUS
    <1> HIDE DEF p, q, r, x, y
    <1>4. k \in Int /\ F * k = F * p + F * q - F * r
    BY <1>1, <1>2, <1>3
    <1>5. y - x = F * k
    BY <1>1, <1>2, <1>3, <1>4
    <1> HIDE DEF k
    <1>6. k <= 0
    <2> SUFFICES ASSUME k >= 1 PROVE FALSE BY <1>4
    <2>1. F * k >= F BY <1>4
    <2> QED BY <2>1, <1>2, <1>3, <1>5
    <1>7. k >= 0
    <2> SUFFICES ASSUME k <= -1 PROVE FALSE BY <1>4
    <2>1. F * k <= -F BY <1>4
    <2> QED BY <2>1, <1>2, <1>3, <1>5
    <1>8. F * k = 0 BY <1>4, <1>6, <1>7
    <1> QED BY <1>2, <1>3, <1>5, <1>8 DEF x, y

\* Induction up to n, by the first number it fails for.
LEMMA UpTo ==
    ASSUME NEW n \in Nat, NEW S, 0 \in S, \A k \in 1..n : k - 1 \in S => k \in S
    PROVE  \A k \in 0..n : k \in S
    <1> DEFINE Bad == {k \in 0..n : k \notin S}
    <1> SUFFICES ASSUME Bad # {} PROVE FALSE
        OBVIOUS
    <1>1. PICK m \in Bad : \A j \in Bad : m <= j
        <2>1. Bad \in SUBSET Nat
            OBVIOUS
        <2> HIDE DEF Bad
        <2> QED  BY <2>1, NatHasLeast
    <1>2. m \in 1..n /\ m - 1 \in 0..n /\ m - 1 \notin Bad
        BY <1>1
    <1> QED
        BY <1>2

\* f is a run of m rounds of a loop over X that begins with x0; round k takes x
\* to G[<<k, x>>].
LoopRun(f, m, X, x0, G) ==
    /\ f \in [0..m -> X] /\ f[0] = x0
    /\ \A k \in 1..m : f[k] = G[<<k, f[k - 1]>>]

\* A loop over 1..n whose rounds keep to a set can be run.
LEMMA LoopRuns ==
    ASSUME NEW n \in Nat, NEW X, NEW x0 \in X, NEW G,
           \A k \in 1..n : \A x \in X : G[<<k, x>>] \in X
    PROVE  \E f : LoopRun(f, n, X, x0, G)
    <1> DEFINE Runs(f, m) == LoopRun(f, m, X, x0, G)
               S == {m \in 0..n : \E f : Runs(f, m)}
    <1>1. 0 \in S
        <2> DEFINE f == [k \in 0..0 |-> x0]
        <2>1. f \in [0..0 -> X] /\ f[0] = x0 /\ \A k \in 1..0 : FALSE
            OBVIOUS
        <2> HIDE DEF f
        <2>2. Runs(f, 0)
            BY <2>1 DEF LoopRun
        <2>3. \E g : Runs(g, 0)
            BY <2>2
        <2> HIDE DEF Runs
        <2> QED  BY <2>3
    <1>2. ASSUME NEW m \in 1..n, m - 1 \in S  PROVE m \in S
        <2>1. PICK f : Runs(f, m - 1)
            BY <1>2
        <2> DEFINE y == G[<<m, f[m - 1]>>]
                   g == [k \in 0..m |-> IF k < m THEN f[k] ELSE y]
        <2>2. /\ f \in [0..(m - 1) -> X] /\ f[0] = x0
              /\ \A k \in 1..(m - 1) : f[k] = G[<<k, f[k - 1]>>]
            BY <2>1 DEF LoopRun
        <2>3. m - 1 \in 0..(m - 1) /\ 0 < m /\ 0 \in 0..m
            OBVIOUS
        <2>4. f[m - 1] \in X
            BY <2>2, <2>3
        <2>5. y \in X
            BY <2>4
        <2>6. \A k \in 0..m : k < m => k \in 0..(m - 1) /\ g[k] = f[k]
            OBVIOUS
        <2>7. g[m] = y /\ g[m - 1] = f[m - 1]
            BY <2>3
        <2> HIDE DEF g
        <2>8. g \in [0..m -> X]
            <3>1. \A k \in 0..m : g[k] \in X
                <4> TAKE k \in 0..m
                <4>1. CASE k < m  BY <4>1, <2>2, <2>6
                <4>2. CASE k = m  BY <4>2, <2>5, <2>7
                <4> QED  BY <4>1, <4>2
            <3> QED  BY <3>1 DEF g
        <2>9. ASSUME NEW k \in 1..m  PROVE g[k] = G[<<k, g[k - 1]>>]
            <3>1. CASE k = m  BY <3>1, <2>7 DEF y
            <3>2. CASE k # m
                <4>1. k \in 0..m /\ k < m /\ k - 1 \in 0..m /\ k - 1 < m /\ k \in 1..(m - 1)
                    BY <3>2
                <4>2. g[k] = f[k] /\ g[k - 1] = f[k - 1]
                    BY <4>1, <2>6
                <4> QED  BY <4>1, <4>2, <2>2
            <3> QED  BY <3>1, <3>2
        <2>10. g[0] = x0
            BY <2>2, <2>3, <2>6
        <2>11. Runs(g, m)
            BY <2>8, <2>9, <2>10 DEF LoopRun
        <2> QED  BY <2>11
    <1> HIDE DEF Runs
    <1>3. \A k \in 0..n : k \in S
        <2> HIDE DEF S
        <2> QED  BY <1>1, <1>2, UpTo
    <1>4. n \in S
        BY <1>3
    <1>5. PICK f : Runs(f, n)
        BY <1>4
    <1> QED  BY <1>5 DEF Runs

\* Removing the entry of a member removes just this member.
LEMMA RemoveMember ==
    ASSUME NEW S, NEW list \in Seq(S), IsInjective(list), NEW x \in Range(list)
    PROVE  LET new == RemoveAt(list, CHOOSE i \in DOMAIN list : list[i] = x)
           IN new \in Seq(S) /\ IsInjective(new) /\ Range(new) = Range(list) \ {x}
    <1> DEFINE i == CHOOSE i \in DOMAIN list : list[i] = x
    <1>1. DOMAIN list = 1..Len(list)
        OBVIOUS
    <1>2. \E k \in DOMAIN list : list[k] = x
        BY DEF Range
    <1>3. i \in 1..Len(list) /\ list[i] = x
        BY <1>1, <1>2
    <1> HIDE DEF i
    <1>4. RemoveAt(list, i) \in Seq(S)
        BY <1>3, RemoveAtFacts
    <1>5. Range(RemoveAt(list, i)) = Range(list) \ {list[i]} /\ IsInjective(RemoveAt(list, i))
        BY <1>3, RemoveAtRange
    <1> QED  BY <1>3, <1>4, <1>5 DEF i
=============================================================================
