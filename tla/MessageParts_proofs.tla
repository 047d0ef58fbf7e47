------------------------ MODULE MessageParts_proofs ------------------------
(***************************************************************************)
(* What the two walks of a message compute, for every tree of parts.  A    *)
(* recursive function is a CHOOSE among the functions that satisfy its     *)
(* equation, so that each is dealt with in the same way: a closed form of  *)
(* it satisfies the equation, therefore the function does; and whatever    *)
(* satisfies the equation agrees with the closed form, because there can   *)
(* be no least (or no greatest) part at which it does not.                 *)
(***************************************************************************)
EXTENDS MessageParts, FiniteSetTheorems, WellFoundedInduction, TLAPS

(***************************************************************************)
(* Least and greatest elements                                             *)
(***************************************************************************)

\* A set of natural numbers that is not empty has a least element.
LEMMA LeastNat ==
    ASSUME NEW T \in SUBSET Nat, T # {}
    PROVE  \E x \in T : \A y \in T : x <= y
  <1> DEFINE R == OpToRel(<, Nat)
  <1>1. IsWellFoundedOn(R, Nat)
    BY NatLessThanWellFounded
  <1>2. \A x, y \in Nat : y < x => <<y, x>> \in R
    BY DEF OpToRel
  <1> HIDE DEF R
  <1>3. \E x \in T : \A y \in T : <<y, x>> \notin R
    BY <1>1, WFMin
  <1>4. T \subseteq Nat /\ \A x, y \in Nat : ~(y < x) => x <= y
    OBVIOUS
  <1>5. QED
    BY <1>2, <1>3, <1>4

\* It is what Min returns.
LEMMA MinIsLeast ==
    ASSUME NEW T \in SUBSET Nat, T # {}
    PROVE  Min(T) \in T /\ \A y \in T : Min(T) <= y
  BY LeastNat DEF Min

\* Among the parts of a message there is a greatest one.
LEMMA GreatestPart ==
    ASSUME NEW n \in Nat, NEW T \in SUBSET (1..n), T # {}
    PROVE  \E x \in T : \A y \in T : y <= x
  <1> DEFINE U == {n - x : x \in T}
  <1>1. U \in SUBSET Nat /\ U # {}
    <2>1. PICK x \in T : TRUE
      OBVIOUS
    <2>2. n - x \in U
      BY <2>1
    <2>3. \A y \in T : n - y \in Nat
      OBVIOUS
    <2>4. QED
      BY <2>2, <2>3
  <1>2. PICK u \in U : \A v \in U : u <= v
    <2> HIDE DEF U
    <2> QED
      BY <1>1, LeastNat
  <1>3. PICK x \in T : u = n - x
    OBVIOUS
  <1>4. ASSUME NEW y \in T PROVE y <= x
    <2>1. n - x <= n - y
      BY <1>2, <1>3
    <2>2. QED
      BY <2>1
  <1>5. QED
    BY <1>4

(***************************************************************************)
(* Trees of parts                                                          *)
(***************************************************************************)

Tree(p, n) ==
    /\ p \in [part : [1..n -> MessagePart], holder : [2..n -> 1..n]]
    /\ Preorder(p.holder, n)

LEMMA TreeShape ==
    ASSUME NEW p, NEW n \in Nat \ {0}, Tree(p, n)
    PROVE  /\ All(p) = 1..n
           /\ DOMAIN p.holder = 2..n
           /\ \A i \in 2..n : p.holder[i] \in 1..n /\ p.holder[i] < i
           /\ \A i \in 1..n : p.part[i] \in MessagePart
           /\ \A i \in 1..n : Parts(p, i) \subseteq 2..n
           /\ \A i \in 1..n, j \in 1..n : j \in Parts(p, i) <=> j # 1 /\ p.holder[j] = i
           /\ \A i \in 1..n : \A j \in Parts(p, i) : i < j
  BY DEF Tree, Preorder, All, Parts

\* The equation of the function in Holders.
UpEq(p, u) ==
    u = [n \in All(p) |-> IF n = 1 THEN {} ELSE {n} \union u[p.holder[n]]]

\* What every set has that has i and, with a part, what holds it.
Closed(p, n, S) == \A k \in S : p.holder[k] # 1 => p.holder[k] \in S
Above(p, n, i) ==
    IF i = 1 THEN {}
    ELSE {j \in 2..n : \A S \in SUBSET (2..n) : i \in S /\ Closed(p, n, S) => j \in S}

LEMMA AboveStep ==
    ASSUME NEW p, NEW n \in Nat \ {0}, Tree(p, n), NEW i \in 2..n
    PROVE  Above(p, n, i) = {i} \union Above(p, n, p.holder[i])
  <1> DEFINE h == p.holder[i]
             A == Above(p, n, h)
             B == Above(p, n, i)
  <1>0. h \in 1..n /\ i # 1 /\ \A k \in 2..n : p.holder[k] \in 1..n
    BY TreeShape
  <1>1. i \in B
    BY <1>0 DEF Above
  <1>2. A \subseteq B
    <2>1. SUFFICES ASSUME NEW j \in A, NEW S \in SUBSET (2..n), i \in S, Closed(p, n, S)
                   PROVE  j \in S
      BY <1>0 DEF Above
    <2>2. h # 1 /\ h \in S
      BY <2>1 DEF Closed, Above
    <2>3. QED
      BY <2>1, <2>2 DEF Above
  <1>3. ASSUME NEW j \in B PROVE j \in {i} \union A
    <2> DEFINE S == {i} \union A
    <2>1. S \in SUBSET (2..n)
      BY DEF Above
    <2>2. ASSUME NEW k \in S, p.holder[k] # 1 PROVE p.holder[k] \in S
      <3>1. CASE k = i
        BY <3>1, <2>2, <1>0 DEF Above
      <3>2. CASE k \in A
        <4>1. h # 1
          BY <3>2 DEF Above
        <4>2. p.holder[k] \in 2..n
          BY <3>2, <2>2, <1>0 DEF Above
        <4>3. ASSUME NEW Q \in SUBSET (2..n), h \in Q, Closed(p, n, Q)
              PROVE  p.holder[k] \in Q
          BY <4>3, <3>2, <4>1, <2>2 DEF Above, Closed
        <4>4. QED
          BY <4>1, <4>2, <4>3 DEF Above
      <3>3. QED
        BY <3>1, <3>2
    <2>3. Closed(p, n, S)
      BY <2>2 DEF Closed
    <2>4. i \in S
      OBVIOUS
    <2> HIDE DEF S
    <2>5. j \in S
      BY <2>1, <2>3, <2>4, <1>0 DEF Above
    <2>6. QED
      BY <2>5 DEF S
  <1>4. QED
    BY <1>1, <1>2, <1>3

\* Holders satisfies its equation.
LEMMA HoldersEq ==
    ASSUME NEW p, NEW n \in Nat \ {0}, Tree(p, n)
    PROVE  /\ Holders(p)[1] = {}
           /\ \A i \in 2..n : Holders(p)[i] = {i} \union Holders(p)[p.holder[i]]
  <1> DEFINE w == [i \in 1..n |-> Above(p, n, i)]
  <1>1. UpEq(p, w)
    <2>1. ASSUME NEW i \in 1..n
          PROVE  w[i] = IF i = 1 THEN {} ELSE {i} \union w[p.holder[i]]
      <3>1. CASE i = 1
        BY <3>1 DEF Above
      <3>2. CASE i # 1
        <4>1. i \in 2..n
          BY <3>2
        <4>2. p.holder[i] \in 1..n
          BY <4>1, TreeShape
        <4>3. QED
          BY <3>2, <4>1, <4>2, AboveStep
      <3>3. QED
        BY <3>1, <3>2
    <2>2. All(p) = 1..n
      BY TreeShape
    <2>3. QED
      BY <2>1, <2>2 DEF UpEq
  <1> HIDE DEF w
  <1>2. Holders(p) = CHOOSE u : UpEq(p, u)
    BY DEF UpEq, Holders
  <1>3. UpEq(p, Holders(p))
    BY <1>1, <1>2
  <1>4. All(p) = 1..n /\ 1 \in 1..n /\ \A i \in 2..n : i \in 1..n /\ i # 1
    BY TreeShape
  <1>5. QED
    BY <1>3, <1>4 DEF UpEq

\* A part is not above its holders, and what holds a part's holder holds it.
LEMMA HoldersRange ==
    ASSUME NEW p, NEW n \in Nat \ {0}, Tree(p, n)
    PROVE  \A i \in 1..n : Holders(p)[i] \subseteq 2..i
  <1> DEFINE Bad == {i \in 1..n : ~(Holders(p)[i] \subseteq 2..i)}
  <1>1. SUFFICES ASSUME Bad # {} PROVE FALSE
    OBVIOUS
  <1>2. Bad \in SUBSET Nat
    OBVIOUS
  <1>3. PICK i \in Bad : \A j \in Bad : i <= j
    <2> HIDE DEF Bad
    <2> QED
      BY <1>1, <1>2, LeastNat
  <1>4. i \in 2..n
    BY HoldersEq
  <1>5. p.holder[i] \in 1..n /\ p.holder[i] < i
    BY <1>4, TreeShape
  <1>6. Holders(p)[p.holder[i]] \subseteq 2..p.holder[i]
    BY <1>3, <1>5
  <1>7. Holders(p)[i] = {i} \union Holders(p)[p.holder[i]]
    BY <1>4, HoldersEq
  <1>8. QED
    BY <1>4, <1>5, <1>6, <1>7

LEMMA HoldersTransitive ==
    ASSUME NEW p, NEW n \in Nat \ {0}, Tree(p, n)
    PROVE  \A i \in 1..n : \A j \in Holders(p)[i] : Holders(p)[j] \subseteq Holders(p)[i]
  <1> DEFINE Bad == {i \in 1..n : \E j \in Holders(p)[i] : ~(Holders(p)[j] \subseteq Holders(p)[i])}
  <1>1. SUFFICES ASSUME Bad # {} PROVE FALSE
    OBVIOUS
  <1>2. Bad \in SUBSET Nat
    OBVIOUS
  <1>3. PICK i \in Bad : \A j \in Bad : i <= j
    <2> HIDE DEF Bad
    <2> QED
      BY <1>1, <1>2, LeastNat
  <1>4. i \in 2..n
    BY HoldersEq
  <1>5. p.holder[i] \in 1..n /\ p.holder[i] < i
    BY <1>4, TreeShape
  <1>6. \A j \in Holders(p)[p.holder[i]] : Holders(p)[j] \subseteq Holders(p)[p.holder[i]]
    BY <1>3, <1>4, <1>5
  <1>7. Holders(p)[i] = {i} \union Holders(p)[p.holder[i]]
    BY <1>4, HoldersEq
  <1>8. QED
    BY <1>3, <1>6, <1>7

\* The parts that i holds at any depth, and i itself.
Under(p, i) == {d \in All(p) : i = 1 \/ i \in Holders(p)[d]}

LEMMA UnderRange ==
    ASSUME NEW p, NEW n \in Nat \ {0}, Tree(p, n), NEW i \in 1..n
    PROVE  i \in Under(p, i) /\ \A d \in Under(p, i) : d \in 1..n /\ i <= d
  <1>1. i \in Under(p, i)
    <2>1. i = 1 \/ i \in Holders(p)[i]
      BY HoldersEq
    <2>2. QED
      BY <2>1, TreeShape DEF Under
  <1>2. ASSUME NEW d \in Under(p, i) PROVE d \in 1..n /\ i <= d
    <2>1. d \in 1..n /\ (i = 1 \/ i \in Holders(p)[d])
      BY TreeShape DEF Under
    <2>2. Holders(p)[d] \subseteq 2..d
      BY <2>1, HoldersRange
    <2>3. QED
      BY <2>1, <2>2
  <1>3. QED
    BY <1>1, <1>2

\* What a part holds is what is under the parts it holds directly ...
LEMMA UnderParts ==
    ASSUME NEW p, NEW n \in Nat \ {0}, Tree(p, n), NEW i \in 1..n
    PROVE  Under(p, i) = {i} \union UNION {Under(p, c) : c \in Parts(p, i)}
  <1> DEFINE Down == UNION {Under(p, c) : c \in Parts(p, i)}
  <1>1. ASSUME NEW c \in Parts(p, i), NEW d \in Under(p, c) PROVE d \in Under(p, i)
    <2>1. c \in 2..n /\ p.holder[c] = i
      BY TreeShape
    <2>2. d \in 1..n /\ c \in Holders(p)[d]
      BY <2>1, TreeShape DEF Under
    <2>3. i = 1 \/ i \in Holders(p)[c]
      BY <2>1, HoldersEq
    <2>4. i = 1 \/ i \in Holders(p)[d]
      BY <2>2, <2>3, <2>1, HoldersTransitive
    <2>5. QED
      BY <2>2, <2>4, TreeShape DEF Under
  <1>2. ASSUME NEW x \in Under(p, i), x # i, x \notin Down PROVE FALSE
    <2> DEFINE Bad == {d \in Under(p, i) : d # i /\ d \notin Down}
    <2>1. Bad # {} /\ Bad \in SUBSET Nat
      BY <1>2, UnderRange
    <2>2. PICK d \in Bad : \A e \in Bad : d <= e
      <3> HIDE DEF Bad
      <3> QED
        BY <2>1, LeastNat
    <2>3. d \in 1..n /\ i <= d /\ d # i
      BY UnderRange
    <2>4. d \in 2..n
      BY <2>3
    <2> DEFINE h == p.holder[d]
    <2>5. h \in 1..n /\ h < d
      BY <2>4, TreeShape
    <2>6. Holders(p)[d] = {d} \union Holders(p)[h]
      BY <2>4, HoldersEq
    <2>7. h \in Under(p, i)
      BY <2>3, <2>5, <2>6, TreeShape DEF Under
    <2>8. CASE h = i
      <3>1. d \in Parts(p, i)
        BY <2>8, <2>4, <2>3, TreeShape
      <3>2. d \in Under(p, d)
        BY <2>3, UnderRange
      <3>3. QED
        BY <3>1, <3>2
    <2>9. CASE h # i
      <3>1. h \in Down
        <4>1. ~(d <= h)
          BY <2>4, <2>5
        <4>2. QED
          BY <2>7, <2>9, <4>1, <2>2
      <3>2. PICK c \in Parts(p, i) : h \in Under(p, c)
        BY <3>1
      <3>3. c # 1 /\ c \in Holders(p)[h]
        BY <3>2, TreeShape DEF Under
      <3>4. d \in Under(p, c)
        BY <3>3, <2>6, <2>3, TreeShape DEF Under
      <3>5. QED
        BY <3>4
    <2>10. QED
      BY <2>8, <2>9
  <1>3. i \in Under(p, i)
    BY UnderRange
  <1>4. QED
    BY <1>1, <1>2, <1>3

\* ... of which the earlier ends before the later begins.
LEMMA UnderOrder ==
    ASSUME NEW p, NEW n \in Nat \ {0}, Tree(p, n), NEW i \in 1..n,
           NEW b \in Parts(p, i), NEW c \in Parts(p, i), b < c
    PROVE  \A d \in Under(p, b) : d < c
  <1> DEFINE Bad == {d \in Under(p, b) : ~(d < c)}
  <1>1. SUFFICES ASSUME Bad # {} PROVE FALSE
    OBVIOUS
  <1>2. b \in 2..n /\ c \in 2..n /\ p.holder[b] = i /\ p.holder[c] = i /\ i < b
    BY TreeShape
  <1>3. Bad \in SUBSET Nat
    BY <1>2, UnderRange
  <1>4. PICK d \in Bad : \A e \in Bad : d <= e
    <2> HIDE DEF Bad
    <2> QED
      BY <1>1, <1>3, LeastNat
  <1>5. d \in 1..n /\ c <= d
    BY <1>2, UnderRange
  <1>6. d \in 2..n /\ d # b /\ b \in Holders(p)[d]
    BY <1>2, <1>5 DEF Under
  <1> DEFINE h == p.holder[d]
  <1>7. h \in 1..n /\ h < d
    BY <1>6, TreeShape
  <1>8. b \in Holders(p)[h]
    BY <1>6, HoldersEq
  <1>9. h \in Under(p, b) /\ b <= h
    <2>1. h \in Under(p, b)
      BY <1>7, <1>8, TreeShape DEF Under
    <2>2. QED
      BY <2>1, <1>2, UnderRange
  <1>10. h < c
    BY <1>9, <1>4, <1>5, <1>7
  <1>11. d # c
    BY <1>2, <1>9
  <1>12. h <= p.holder[c]
    <2>1. \A j \in h+1 .. d-1 : h <= p.holder[j]
      BY <1>6 DEF Tree, Preorder
    <2>2. c \in h+1 .. d-1
      BY <1>2, <1>5, <1>7, <1>10, <1>11
    <2>3. QED
      BY <2>1, <2>2
  <1>13. QED
    BY <1>2, <1>7, <1>9, <1>12

(***************************************************************************)
(* ExtractMessageBody                                                      *)
(***************************************************************************)

\* The equation of the function in ExtractMessageBody.
OfPart(p, b, i) ==
    IF p.part[i].body = "text/plain" THEN i ELSE IF p.part[i].body = "text/html" THEN i ELSE b[i]
Found(p, b, n) == {i \in NotSkipped(p, n) : OfPart(p, b, i) # 0}
BodyAt(p, b, n) ==
    IF Decodes(p, n) THEN n
    ELSE IF Found(p, b, n) = {} THEN 0 ELSE OfPart(p, b, Min(Found(p, b, n)))
BodyEq(p, b) == b = [n \in All(p) |-> BodyAt(p, b, n)]

LEMMA BodyIsChosen ==
    ASSUME NEW p, NEW w, BodyEq(p, w)
    PROVE  \E b : BodyEq(p, b) /\ ExtractMessageBody(p) = b[1]
  <1> DEFINE b == CHOOSE u : BodyEq(p, u)
  <1>1. ExtractMessageBody(p) = b[1]
    BY DEF BodyEq, BodyAt, Found, OfPart, ExtractMessageBody
  <1>2. BodyEq(p, b)
    OBVIOUS
  <1>3. QED
    BY <1>1, <1>2

\* There is one such function: where it holds a part's parts, it holds the part.
LEMMA BodyUnique ==
    ASSUME NEW p, NEW n \in Nat \ {0}, Tree(p, n),
           NEW b, BodyEq(p, b), NEW w, BodyEq(p, w)
    PROVE  \A i \in 1..n : b[i] = w[i]
  <1> DEFINE Bad == {i \in 1..n : b[i] # w[i]}
  <1>1. SUFFICES ASSUME Bad # {} PROVE FALSE
    OBVIOUS
  <1>2. PICK i \in Bad : \A j \in Bad : j <= i
    <2>1. Bad \in SUBSET (1..n)
      OBVIOUS
    <2> HIDE DEF Bad
    <2> QED
      BY <1>1, <2>1, GreatestPart
  <1>3. \A j \in Parts(p, i) : j \in 1..n /\ i < j
    BY TreeShape
  <1>4. \A j \in Parts(p, i) : b[j] = w[j]
    BY <1>2, <1>3
  <1>5. \A j \in NotSkipped(p, i) : OfPart(p, b, j) = OfPart(p, w, j)
    BY <1>4 DEF OfPart, NotSkipped
  <1>6. Found(p, b, i) = Found(p, w, i) /\ Found(p, b, i) \subseteq NotSkipped(p, i)
    BY <1>5 DEF Found
  <1>7. Found(p, b, i) \in SUBSET Nat
    <2>1. NotSkipped(p, i) \subseteq 2..n
      BY TreeShape DEF NotSkipped
    <2>2. QED
      BY <2>1, <1>6
  <1>8. Found(p, b, i) # {} => Min(Found(p, b, i)) \in NotSkipped(p, i)
    BY <1>6, <1>7, MinIsLeast
  <1>9. BodyAt(p, b, i) = BodyAt(p, w, i)
    BY <1>5, <1>6, <1>8 DEF BodyAt
  <1>10. b[i] = BodyAt(p, b, i) /\ w[i] = BodyAt(p, w, i)
    <2>1. i \in All(p)
      BY TreeShape
    <2>2. QED
      BY <2>1 DEF BodyEq
  <1>11. QED
    BY <1>9, <1>10

\* The texts under a part that no file below it holds, and the first of them.
TextsUnder(p, i) ==
    {m \in Under(p, i) :
        Decodes(p, m) /\ \A j \in Holders(p)[m] \ Holders(p)[i] : ~p.part[j].file}
FirstText(p, i) == IF TextsUnder(p, i) = {} THEN 0 ELSE Min(TextsUnder(p, i))

LEMMA TextsRange ==
    ASSUME NEW p, NEW n \in Nat \ {0}, Tree(p, n), NEW i \in 1..n
    PROVE  /\ TextsUnder(p, i) \in SUBSET (1..n)
           /\ TextsUnder(p, i) \in SUBSET Nat
           /\ \A m \in TextsUnder(p, i) : m \in Under(p, i) /\ i <= m
  <1>1. \A m \in TextsUnder(p, i) : m \in Under(p, i)
    BY DEF TextsUnder
  <1>2. \A m \in TextsUnder(p, i) : m \in 1..n /\ i <= m
    BY <1>1, UnderRange
  <1>3. QED
    BY <1>1, <1>2

LEMMA FirstTextOwn ==
    ASSUME NEW p, NEW n \in Nat \ {0}, Tree(p, n), NEW i \in 1..n, Decodes(p, i)
    PROVE  FirstText(p, i) = i
  <1>1. i \in TextsUnder(p, i)
    BY UnderRange DEF TextsUnder
  <1>2. Min(TextsUnder(p, i)) \in TextsUnder(p, i) /\ Min(TextsUnder(p, i)) <= i
    BY <1>1, TextsRange, MinIsLeast
  <1>3. Min(TextsUnder(p, i)) \in 1..n /\ i <= Min(TextsUnder(p, i))
    BY <1>2, TextsRange
  <1>4. Min(TextsUnder(p, i)) = i
    BY <1>2, <1>3
  <1>5. QED
    BY <1>1, <1>4 DEF FirstText

\* Without a text of its own, a part has those of its parts that name no file.
LEMMA TextsOfParts ==
    ASSUME NEW p, NEW n \in Nat \ {0}, Tree(p, n), NEW i \in 1..n, ~Decodes(p, i)
    PROVE  TextsUnder(p, i) = UNION {TextsUnder(p, c) : c \in NotSkipped(p, i)}
  <1> DEFINE H(m) == Holders(p)[m]
  <1>1. ASSUME NEW c \in Parts(p, i)
        PROVE  /\ c \in 2..n /\ c \in 1..n
               /\ H(c) = {c} \union H(i)
               /\ c \notin H(i)
    <2>1. c \in 2..n /\ p.holder[c] = i /\ i < c
      BY TreeShape
    <2>2. H(c) = {c} \union H(i)
      BY <2>1, HoldersEq
    <2>3. H(i) \subseteq 2..i
      BY HoldersRange
    <2>4. QED
      BY <2>1, <2>2, <2>3
  <1>2. ASSUME NEW m \in TextsUnder(p, i)
        PROVE  \E c \in NotSkipped(p, i) : m \in TextsUnder(p, c)
    <2>1. m \in Under(p, i) /\ m # i
      BY DEF TextsUnder
    <2>2. PICK c \in Parts(p, i) : m \in Under(p, c)
      BY <2>1, UnderParts
    <2>3. c \in H(m)
      BY <2>2, <1>1 DEF Under
    <2>4. ~p.part[c].file
      BY <2>3, <1>1 DEF TextsUnder
    <2>5. \A j \in H(m) \ H(c) : ~p.part[j].file
      BY <1>1 DEF TextsUnder
    <2>6. QED
      BY <2>2, <2>4, <2>5 DEF TextsUnder, NotSkipped
  <1>3. ASSUME NEW c \in NotSkipped(p, i), NEW m \in TextsUnder(p, c)
        PROVE  m \in TextsUnder(p, i)
    <2>1. c \in Parts(p, i) /\ ~p.part[c].file
      BY DEF NotSkipped
    <2>2. m \in Under(p, i)
      <3>1. m \in Under(p, c)
        BY DEF TextsUnder
      <3>2. QED
        BY <2>1, <3>1, UnderParts
    <2>3. \A j \in H(m) \ H(i) : ~p.part[j].file
      BY <2>1, <1>1 DEF TextsUnder
    <2>4. QED
      BY <2>2, <2>3 DEF TextsUnder
  <1>4. QED
    BY <1>2, <1>3

\* FirstText satisfies the equation at every part.
LEMMA FirstTextAt ==
    ASSUME NEW p, NEW n \in Nat \ {0}, Tree(p, n), NEW i \in 1..n,
           NEW w, \A j \in 1..n : w[j] = FirstText(p, j)
    PROVE  FirstText(p, i) = BodyAt(p, w, i)
  <1>1. CASE Decodes(p, i)
    BY <1>1, FirstTextOwn DEF BodyAt
  <1>2. CASE ~Decodes(p, i)
    <2> DEFINE F == Found(p, w, i)
               T(c) == TextsUnder(p, c)
    <2>1. \A c \in NotSkipped(p, i) : c \in Parts(p, i) /\ c \in 1..n
      BY TreeShape DEF NotSkipped
    <2>2. \A c \in NotSkipped(p, i) : OfPart(p, w, c) = FirstText(p, c)
      BY <2>1, FirstTextOwn DEF OfPart, Decodes, Readable
    <2>3. \A c \in NotSkipped(p, i) : T(c) \in SUBSET Nat /\ \A m \in T(c) : m # 0
      BY <2>1, TextsRange
    <2>4. \A c \in NotSkipped(p, i) : FirstText(p, c) # 0 <=> T(c) # {}
      BY <2>3, MinIsLeast DEF FirstText
    <2>5. F = {c \in NotSkipped(p, i) : T(c) # {}}
      BY <2>2, <2>4 DEF Found
    <2>6. T(i) = UNION {T(c) : c \in NotSkipped(p, i)}
      BY <1>2, TextsOfParts
    <2>7. CASE F = {}
      <3>1. T(i) = {}
        BY <2>5, <2>6, <2>7
      <3>2. QED
        BY <3>1, <1>2, <2>7 DEF FirstText, BodyAt
    <2>8. CASE F # {}
      <3> DEFINE f == Min(F)
      <3>1. F \in SUBSET Nat
        BY <2>1, <2>5
      <3>2. f \in F /\ \A c \in F : f <= c
        <4> HIDE DEF F
        <4> QED
          BY <2>8, <3>1, MinIsLeast
      <3>3. f \in NotSkipped(p, i) /\ f \in Parts(p, i) /\ f \in 1..n /\ T(f) # {}
        BY <3>2, <2>5, <2>1
      <3> DEFINE x == Min(T(f))
      <3>4. x \in T(f) /\ \A m \in T(f) : x <= m
        BY <3>3, <2>3, MinIsLeast
      <3>5. x \in T(i)
        BY <3>3, <3>4, <2>6
      <3>6. ASSUME NEW m \in T(i) PROVE x <= m
        <4>1. PICK c \in NotSkipped(p, i) : m \in T(c)
          BY <2>6
        <4>2. c \in F /\ c \in Parts(p, i) /\ c \in 1..n
          BY <4>1, <2>5, <2>1
        <4>3. c = f \/ f < c
          BY <4>2, <3>2, <3>1
        <4>4. CASE c = f
          BY <4>1, <4>4, <3>4
        <4>5. CASE f < c
          <5>1. x < c
            BY <4>5, <4>2, <3>3, <3>4, UnderOrder, TextsRange
          <5>2. c <= m /\ m \in 1..n /\ x \in 1..n
            BY <4>1, <4>2, <3>3, <3>4, TextsRange
          <5>3. QED
            BY <5>1, <5>2, <4>2
        <4>6. QED
          BY <4>3, <4>4, <4>5
      <3>7. T(i) \in SUBSET Nat
        BY TextsRange
      <3>8. Min(T(i)) \in T(i) /\ \A m \in T(i) : Min(T(i)) <= m
        BY <3>5, <3>7, MinIsLeast
      <3>9. Min(T(i)) = x
        <4>1. Min(T(i)) <= x /\ x <= Min(T(i))
          BY <3>5, <3>6, <3>8
        <4>2. Min(T(i)) \in Nat /\ x \in Nat
          BY <3>7, <3>8, <3>5
        <4> HIDE DEF x
        <4>3. QED
          BY <4>1, <4>2
      <3>10. FirstText(p, i) = FirstText(p, f)
        BY <3>3, <3>5, <3>9 DEF FirstText
      <3>11. QED
        BY <3>10, <3>3, <2>2, <2>8, <1>2 DEF BodyAt
    <2>9. QED
      BY <2>7, <2>8
  <1>3. QED
    BY <1>1, <1>2

\* What ExtractMessageBody finds is the first part that decodes and that no file
\* holds, in every tree.
Shown(p) == {n \in All(p) : Decodes(p, n) /\ ~Attached(p, n)}

LEMMA BodyIsFirst ==
    ASSUME NEW p, NEW n \in Nat \ {0}, Tree(p, n)
    PROVE  ExtractMessageBody(p) = IF Shown(p) = {} THEN 0 ELSE Min(Shown(p))
  <1> DEFINE w == [i \in 1..n |-> FirstText(p, i)]
  <1>1. All(p) = 1..n /\ 1 \in 1..n
    BY TreeShape
  <1>2. BodyEq(p, w)
    <2>1. \A j \in 1..n : w[j] = FirstText(p, j)
      OBVIOUS
    <2>2. w = [i \in 1..n |-> w[i]]
      OBVIOUS
    <2> HIDE DEF w
    <2>3. \A i \in 1..n : w[i] = BodyAt(p, w, i)
      BY <2>1, FirstTextAt
    <2>4. QED
      BY <2>2, <2>3, <1>1 DEF BodyEq
  <1>3. ExtractMessageBody(p) = w[1]
    <2> HIDE DEF w
    <2>1. PICK b : BodyEq(p, b) /\ ExtractMessageBody(p) = b[1]
      BY <1>2, BodyIsChosen
    <2>2. QED
      BY <2>1, <1>1, <1>2, BodyUnique
  <1>4. TextsUnder(p, 1) = Shown(p)
    <2>1. Under(p, 1) = All(p)
      BY DEF Under
    <2>2. Holders(p)[1] = {}
      BY HoldersEq
    <2>3. QED
      BY <2>1, <2>2 DEF TextsUnder, Shown, Attached
  <1>5. QED
    BY <1>1, <1>3, <1>4 DEF FirstText

LEMMA BodyRange ==
    ASSUME NEW p, NEW n \in Nat \ {0}, Tree(p, n)
    PROVE  ExtractMessageBody(p) \in 0..n
  <1>1. Shown(p) \in SUBSET Nat /\ Shown(p) \subseteq 1..n
    BY TreeShape DEF Shown
  <1>2. Shown(p) # {} => Min(Shown(p)) \in 1..n
    BY <1>1, MinIsLeast
  <1>3. QED
    BY <1>2, BodyIsFirst

(***************************************************************************)
(* CountAttachments                                                        *)
(***************************************************************************)

\* The equation of the function in MapThenSumSet.
SumEq(c, T, g) ==
    g = [s \in SUBSET T |-> IF s = {} THEN 0
                            ELSE LET x == CHOOSE x \in s : TRUE IN c[x] + g[s \ {x}]]

SumOver(c, T) == MapThenSumSet(LAMBDA i : c[i], T)

LEMMA SumIsChosen ==
    ASSUME NEW c, NEW T, NEW w, SumEq(c, T, w)
    PROVE  \E g : SumEq(c, T, g) /\ SumOver(c, T) = g[T]
  <1> DEFINE g == CHOOSE u : SumEq(c, T, u)
  <1>1. SumOver(c, T) = g[T]
    BY DEF SumOver, SumEq, MapThenSumSet, MapThenFoldSet
  <1>2. SumEq(c, T, g)
    OBVIOUS
  <1>3. QED
    BY <1>1, <1>2

LEMMA SumUnique ==
    ASSUME NEW c, NEW T, IsFiniteSet(T), NEW g, SumEq(c, T, g), NEW w, SumEq(c, T, w)
    PROVE  g[T] = w[T]
  <1> DEFINE Bad == {s \in SUBSET T : g[s] # w[s]}
             Sizes == {Cardinality(s) : s \in Bad}
  <1>1. SUFFICES ASSUME Bad # {} PROVE FALSE
    OBVIOUS
  <1>2. \A s \in SUBSET T : IsFiniteSet(s) /\ Cardinality(s) \in Nat
    BY FS_Subset, FS_CardinalityType
  <1>3. Sizes \in SUBSET Nat /\ Sizes # {}
    BY <1>1, <1>2
  <1>4. PICK k \in Sizes : \A l \in Sizes : k <= l
    <2> HIDE DEF Sizes
    <2> QED
      BY <1>3, LeastNat
  <1>5. PICK s \in Bad : Cardinality(s) = k
    BY <1>4
  <1>6. g[s] = (IF s = {} THEN 0 ELSE LET x == CHOOSE x \in s : TRUE IN c[x] + g[s \ {x}])
    BY DEF SumEq
  <1>7. w[s] = (IF s = {} THEN 0 ELSE LET x == CHOOSE x \in s : TRUE IN c[x] + w[s \ {x}])
    BY DEF SumEq
  <1>8. s # {}
    BY <1>6, <1>7
  <1> DEFINE x == CHOOSE x \in s : TRUE
             r == s \ {x}
  <1>9. x \in s
    BY <1>8
  <1>10. Cardinality(r) = Cardinality(s) - 1
    BY <1>9, <1>2, FS_RemoveElement
  <1>11. r \in SUBSET T
    OBVIOUS
  <1>12. r \notin Bad
    <2>1. Cardinality(s) \in Nat /\ Cardinality(r) \in Nat
      BY <1>2, <1>11
    <2>2. ~(Cardinality(s) <= Cardinality(r))
      BY <1>10, <2>1
    <2>3. QED
      BY <1>4, <1>5, <2>2
  <1>13. g[r] = w[r]
    BY <1>11, <1>12
  <1>14. QED
    BY <1>6, <1>7, <1>8, <1>13

\* Summed over disjoint sets of numbers up to n, their cardinalities make that
\* of their union.
LEMMA SumOfCardinalities ==
    ASSUME NEW n \in Nat, NEW T, IsFiniteSet(T), NEW F,
           \A i \in T : F[i] \subseteq 1..n,
           \A i, j \in T : i # j => F[i] \cap F[j] = {},
           NEW c, \A i \in T : c[i] = Cardinality(F[i])
    PROVE  SumOver(c, T) = Cardinality(UNION {F[i] : i \in T})
  <1> DEFINE U(s) == UNION {F[i] : i \in s}
             w == [s \in SUBSET T |-> Cardinality(U(s))]
  <1>1. ASSUME NEW s \in SUBSET T
        PROVE  w[s] = IF s = {} THEN 0
                      ELSE LET x == CHOOSE x \in s : TRUE IN c[x] + w[s \ {x}]
    <2>1. CASE s = {}
      <3>1. U(s) = {}
        BY <2>1
      <3>2. QED
        BY <2>1, <3>1, FS_EmptySet
    <2>2. CASE s # {}
      <3> DEFINE x == CHOOSE x \in s : TRUE
                 r == s \ {x}
      <3>1. x \in s /\ x \in T
        BY <2>2
      <3> HIDE DEF x
      <3>2. U(s) = F[x] \union U(r) /\ F[x] \cap U(r) = {}
        BY <3>1
      <3>3. F[x] \subseteq 1..n /\ U(r) \subseteq 1..n
        BY <3>1
      <3>4. IsFiniteSet(1..n)
        BY FS_Interval
      <3>5. IsFiniteSet(F[x]) /\ IsFiniteSet(U(r))
        BY <3>3, <3>4, FS_Subset
      <3>6. /\ Cardinality(F[x]) \in Nat /\ Cardinality(U(r)) \in Nat
            /\ Cardinality(F[x] \union U(r))
                  = Cardinality(F[x]) + Cardinality(U(r)) - Cardinality(F[x] \cap U(r))
        BY <3>5, FS_Union, FS_CardinalityType
      <3>7. Cardinality(F[x] \cap U(r)) = 0
        BY <3>2, FS_EmptySet
      <3>8. Cardinality(U(s)) = c[x] + Cardinality(U(r))
        <4> HIDE DEF U, r
        <4> QED
          BY <3>1, <3>2, <3>6, <3>7
      <3>9. w[s] = c[x] + w[r]
        BY <3>8
      <3> USE DEF x
      <3>10. QED
        BY <2>2, <3>9
    <2>3. QED
      BY <2>1, <2>2
  <1>2. SumEq(c, T, w)
    BY <1>1 DEF SumEq
  <1>3. w[T] = Cardinality(U(T))
    OBVIOUS
  <1> HIDE DEF w
  <1>4. PICK g : SumEq(c, T, g) /\ SumOver(c, T) = g[T]
    BY <1>2, SumIsChosen
  <1>5. g[T] = w[T]
    BY <1>2, <1>4, SumUnique
  <1>6. QED
    BY <1>3, <1>4, <1>5

\* The equation of the function in CountAttachments.
CountAt(p, b, n) == (IF p.part[n].file THEN 1 ELSE 0) + SumOver(b, Parts(p, n))
CountEq(p, b) == b = [n \in All(p) |-> CountAt(p, b, n)]

LEMMA CountIsChosen ==
    ASSUME NEW p, NEW w, CountEq(p, w)
    PROVE  \E b : CountEq(p, b) /\ CountAttachments(p) = b[1]
  <1> DEFINE b == CHOOSE u : CountEq(p, u)
  <1>1. CountAttachments(p) = b[1]
    BY DEF CountEq, CountAt, SumOver, CountAttachments
  <1>2. CountEq(p, b)
    OBVIOUS
  <1>3. QED
    BY <1>1, <1>2

\* The parts under i that name a file.
FilesUnder(p, i) == {m \in Under(p, i) : p.part[m].file}

\* Those of a part are itself, if it is one, and those of its parts, of which
\* no two have a file in common.
LEMMA FilesOfParts ==
    ASSUME NEW p, NEW n \in Nat \ {0}, Tree(p, n), NEW i \in 1..n
    PROVE  /\ FilesUnder(p, i) = (IF p.part[i].file THEN {i} ELSE {})
                                     \union UNION {FilesUnder(p, c) : c \in Parts(p, i)}
           /\ i \notin UNION {FilesUnder(p, c) : c \in Parts(p, i)}
           /\ \A c \in Parts(p, i) : FilesUnder(p, c) \subseteq 1..n
           /\ \A b, c \in Parts(p, i) : b # c => FilesUnder(p, b) \cap FilesUnder(p, c) = {}
  <1>1. FilesUnder(p, i) = (IF p.part[i].file THEN {i} ELSE {})
                               \union UNION {FilesUnder(p, c) : c \in Parts(p, i)}
    BY UnderParts DEF FilesUnder
  <1>2. \A c \in Parts(p, i) : c \in 1..n /\ i < c
    BY TreeShape
  <1>3. \A c \in Parts(p, i) : \A d \in FilesUnder(p, c) : d \in Under(p, c) /\ d \in 1..n /\ c <= d
    BY <1>2, UnderRange DEF FilesUnder
  <1>4. \A c \in Parts(p, i) : i \notin FilesUnder(p, c)
    BY <1>2, <1>3
  <1>5. ASSUME NEW b \in Parts(p, i), NEW c \in Parts(p, i), b < c
        PROVE  FilesUnder(p, b) \cap FilesUnder(p, c) = {}
    BY <1>2, <1>3, <1>5, UnderOrder
  <1>6. \A b, c \in Parts(p, i) : b # c => FilesUnder(p, b) \cap FilesUnder(p, c) = {}
    BY <1>2, <1>5
  <1>7. QED
    BY <1>1, <1>3, <1>4, <1>6

\* Where a function counts the files under the parts of i, the equation makes
\* it count those under i.
LEMMA FilesAt ==
    ASSUME NEW p, NEW n \in Nat \ {0}, Tree(p, n), NEW i \in 1..n,
           NEW w, \A c \in Parts(p, i) : w[c] = Cardinality(FilesUnder(p, c))
    PROVE  CountAt(p, w, i) = Cardinality(FilesUnder(p, i))
  <1> DEFINE T == Parts(p, i)
             F == [c \in T |-> FilesUnder(p, c)]
             Own == IF p.part[i].file THEN {i} ELSE {}
             Below == UNION {FilesUnder(p, c) : c \in T}
  <1>1. IsFiniteSet(1..n)
    BY FS_Interval
  <1>2. IsFiniteSet(T)
    <2>1. T \subseteq 1..n
      BY TreeShape
    <2>2. QED
      BY <1>1, <2>1, FS_Subset
  <1>3. SumOver(w, T) = Cardinality(Below)
    <2>1. \A c \in T : F[c] \subseteq 1..n
      BY FilesOfParts
    <2>2. \A b, c \in T : b # c => F[b] \cap F[c] = {}
      BY FilesOfParts
    <2>3. \A c \in T : w[c] = Cardinality(F[c])
      OBVIOUS
    <2>4. UNION {F[c] : c \in T} = Below
      OBVIOUS
    <2> HIDE DEF T, F, Below
    <2>5. SumOver(w, T) = Cardinality(UNION {F[c] : c \in T})
      BY <1>2, <2>1, <2>2, <2>3, SumOfCardinalities
    <2>6. QED
      BY <2>4, <2>5
  <1>4. FilesUnder(p, i) = Own \union Below /\ i \notin Below /\ Below \subseteq 1..n
    BY FilesOfParts
  <1>5. IsFiniteSet(Below) /\ Cardinality(Below) \in Nat
    BY <1>1, <1>4, FS_Subset, FS_CardinalityType
  <1> HIDE DEF T, Below
  <1>6. CASE p.part[i].file
    <2>1. FilesUnder(p, i) = Below \union {i}
      BY <1>4, <1>6
    <2>2. i \notin Below
      BY <1>4
    <2>3. Cardinality(Below \union {i}) = Cardinality(Below) + 1
      BY ONLY <1>5, <2>2, FS_AddElement
    <2>4. CountAt(p, w, i) = 1 + Cardinality(Below)
      BY <1>3, <1>6 DEF CountAt, T
    <2>5. QED
      BY <1>5, <2>1, <2>3, <2>4
  <1>7. CASE ~p.part[i].file
    BY <1>3, <1>4, <1>5, <1>7 DEF CountAt, T
  <1>8. QED
    BY <1>6, <1>7

\* CountAttachments counts each file of the tree once.
LEMMA CountIsCardinality ==
    ASSUME NEW p, NEW n \in Nat \ {0}, Tree(p, n)
    PROVE  CountAttachments(p) = Cardinality(Files(p))
  <1> DEFINE w == [i \in 1..n |-> Cardinality(FilesUnder(p, i))]
  <1>1. All(p) = 1..n /\ 1 \in 1..n
    BY TreeShape
  <1>2. CountEq(p, w)
    <2>1. ASSUME NEW i \in 1..n PROVE w[i] = CountAt(p, w, i)
      <3>1. \A c \in Parts(p, i) : c \in 1..n
        BY TreeShape
      <3>2. \A c \in Parts(p, i) : w[c] = Cardinality(FilesUnder(p, c))
        BY <3>1
      <3>3. w[i] = Cardinality(FilesUnder(p, i))
        OBVIOUS
      <3> HIDE DEF w
      <3>4. QED
        BY <3>2, <3>3, FilesAt
    <2>2. w = [i \in 1..n |-> w[i]]
      OBVIOUS
    <2> HIDE DEF w
    <2>3. QED
      BY <1>1, <2>1, <2>2 DEF CountEq
  <1> HIDE DEF w
  <1>3. PICK b : CountEq(p, b) /\ CountAttachments(p) = b[1]
    BY <1>2, CountIsChosen
  <1>4. \A i \in 1..n : b[i] = Cardinality(FilesUnder(p, i))
    <2> DEFINE Bad == {i \in 1..n : b[i] # Cardinality(FilesUnder(p, i))}
    <2>1. SUFFICES ASSUME Bad # {} PROVE FALSE
      OBVIOUS
    <2>2. PICK i \in Bad : \A j \in Bad : j <= i
      <3>1. Bad \in SUBSET (1..n)
        OBVIOUS
      <3> HIDE DEF Bad
      <3> QED
        BY <2>1, <3>1, GreatestPart
    <2>3. \A c \in Parts(p, i) : c \in 1..n /\ i < c
      BY TreeShape
    <2>4. \A c \in Parts(p, i) : b[c] = Cardinality(FilesUnder(p, c))
      BY <2>2, <2>3
    <2>5. CountAt(p, b, i) = Cardinality(FilesUnder(p, i))
      BY <2>4, FilesAt
    <2>6. b[i] = CountAt(p, b, i)
      BY <1>1, <1>3 DEF CountEq
    <2>7. QED
      BY <2>5, <2>6
  <1>5. FilesUnder(p, 1) = Files(p)
    BY DEF FilesUnder, Files, Under
  <1>6. QED
    BY <1>1, <1>3, <1>4, <1>5

LEMMA CountRange ==
    ASSUME NEW p, NEW n \in Nat \ {0}, Tree(p, n)
    PROVE  /\ IsFiniteSet(Files(p))
           /\ CountAttachments(p) \in 0..n
  <1>1. Files(p) \subseteq 1..n
    BY TreeShape DEF Files
  <1>2. IsFiniteSet(1..n) /\ Cardinality(1..n) = n
    BY FS_Interval
  <1>3. IsFiniteSet(Files(p)) /\ Cardinality(Files(p)) \in Nat /\ Cardinality(Files(p)) <= n
    BY <1>1, <1>2, FS_Subset, FS_CardinalityType
  <1>4. QED
    BY <1>3, CountIsCardinality

(***************************************************************************)
(* The invariants                                                          *)
(***************************************************************************)

\* What Gmail gives in the format "metadata" is a tree as well.
LEMMA NoDataIsPart ==
    ASSUME NEW x \in MessagePart
    PROVE  NoData(x) \in MessagePart /\ NoData(x).file = x.file
  BY DEF NoData, MessagePart

LEMMA HeadersTree ==
    ASSUME NEW p, NEW n \in Nat \ {0}, Tree(p, n)
    PROVE  Tree(Headers(p), 1) /\ Parts(Headers(p), 1) = {}
  <1> DEFINE x == NoData(p.part[1])
             h == [i \in {} |-> i]
  <1>1. x \in MessagePart
    <2>1. p.part[1] \in MessagePart
      BY TreeShape
    <2>2. QED
      BY <2>1, NoDataIsPart
  <1> HIDE DEF x
  <1>2. <<x>> \in [1..1 -> MessagePart]
    BY <1>1
  <1>3. h \in [2..1 -> 1..1] /\ DOMAIN h = {}
    OBVIOUS
  <1> HIDE DEF h
  <1>4. Headers(p) = [part |-> <<x>>, holder |-> h]
    BY DEF Headers, x, h
  <1>5. Preorder(h, 1)
    BY DEF Preorder
  <1>6. QED
    BY <1>2, <1>3, <1>4, <1>5 DEF Tree, Parts

LEMMA WithoutDataTree ==
    ASSUME NEW p, NEW n \in Nat \ {0}, Tree(p, n)
    PROVE  /\ Tree(WithoutData(p), n)
           /\ \A i \in 1..n : /\ WithoutData(p).part[i].file = p.part[i].file
                              /\ Parts(WithoutData(p), i) = Parts(p, i)
  <1> DEFINE q == [i \in 1..n |-> NoData(p.part[i])]
  <1>1. q \in [1..n -> MessagePart] /\ \A i \in 1..n : q[i].file = p.part[i].file
    BY TreeShape, NoDataIsPart
  <1>2. p \in [part : [1..n -> MessagePart], holder : [2..n -> 1..n]]
    BY DEF Tree
  <1>3. WithoutData(p) = [p EXCEPT !.part = q]
    BY <1>2 DEF WithoutData
  <1> HIDE DEF q
  <1>4. /\ WithoutData(p) \in [part : [1..n -> MessagePart], holder : [2..n -> 1..n]]
        /\ WithoutData(p).part = q
        /\ WithoutData(p).holder = p.holder
    BY <1>1, <1>2, <1>3
  <1>5. QED
    BY <1>1, <1>4 DEF Tree, Parts

\* The payload is a tree, and the row and the answer are made of it, or of what
\* "metadata" leaves of it.
RowOk ==
    row = {} \/ \E p \in Metadata(payload) : row = {RowOf(p)}
AnswerOk ==
    \/ answer = NoAnswer
    \/ answer = AnswerOf("full", payload)
    \/ \E p \in Metadata(payload) : answer = AnswerOf("metadata", p)
Inv ==
    /\ \E n \in 1..MaxParts : Tree(payload, n)
    /\ RowOk
    /\ AnswerOk

LEMMA Invariant ==
    Spec => []Inv
  <1>1. Init => Inv
    <2> SUFFICES ASSUME Init PROVE Inv
      OBVIOUS
    <2>1. \E n \in 1..MaxParts : Tree(payload, n)
      <3>1. PICK n \in 1..MaxParts :
               payload \in [part : [1..n -> MessagePart],
                            holder : {h \in [2..n -> 1..n] : Preorder(h, n)}]
        BY DEF Init, Payloads
      <3>2. QED
        BY <3>1 DEF Tree
    <2>2. QED
      BY <2>1 DEF Inv, Init, RowOk, AnswerOk
  <1>2. Inv /\ [Next]_vars => Inv'
    <2> SUFFICES ASSUME Inv, [Next]_vars PROVE Inv'
      OBVIOUS
    <2>1. payload' = payload
      BY DEF Next, vars, StoreMessage, ReadMessage, ReadMetadata
    <2>2. CASE StoreMessage
      BY <2>1, <2>2 DEF StoreMessage, Inv, RowOk, AnswerOk
    <2>3. CASE ReadMessage
      BY <2>1, <2>3 DEF ReadMessage, Inv, RowOk, AnswerOk
    <2>4. CASE ReadMetadata
      BY <2>1, <2>4 DEF ReadMetadata, Inv, RowOk, AnswerOk
    <2>5. CASE UNCHANGED vars
      BY <2>5 DEF vars, Inv, RowOk, AnswerOk
    <2>6. QED
      BY <2>2, <2>3, <2>4, <2>5 DEF Next
  <1>3. QED
    BY <1>1, <1>2, PTL DEF Spec

\* With the invariant in hand: a payload of n parts, and what "metadata" makes
\* of it.
LEMMA MetadataTrees ==
    ASSUME Inv
    PROVE  \E n \in 1..MaxParts :
              /\ n \in Nat \ {0}
              /\ Tree(payload, n)
              /\ \A p \in Metadata(payload) :
                    \E m \in 1..n : m \in Nat \ {0} /\ Tree(p, m)
  <1>1. PICK n \in 1..MaxParts : Tree(payload, n)
    BY DEF Inv
  <1>2. n \in Nat \ {0} /\ 1 \in 1..n /\ n \in 1..n /\ 1 \in Nat \ {0}
    BY MaxPartsAssumption
  <1>3. QED
    BY <1>1, <1>2, HeadersTree, WithoutDataTree DEF Metadata

\* A plain or HTML text outside the attachments of a message gives the answer of
\* HandleGetGmailMessages a body that begins no later, whatever the tree, and a body
\* is never from inside an attachment (BodyIsFirstText).
THEOREM BodyCorrect ==
    Spec => []BodyIsFirstText
  <1>1. Inv => BodyIsFirstText
    <2> SUFFICES ASSUME Inv, answer.format = "full"
                 PROVE  /\ payload.part[1].body # "nil" =>
                              \A n \in Texts(payload) : answer.body \in 1..n
                        /\ answer.body # 0 => answer.body \in Shown(payload)
      BY DEF BodyIsFirstText, Shown
    <2>1. answer = AnswerOf("full", payload)
      BY DEF Inv, AnswerOk, NoAnswer, AnswerOf
    <2>2. answer.body = IF payload.part[1].body # "nil" THEN ExtractMessageBody(payload) ELSE 0
      BY <2>1 DEF AnswerOf
    <2>3. PICK n \in Nat \ {0} : Tree(payload, n)
      BY MetadataTrees
    <2>4. ExtractMessageBody(payload)
              = IF Shown(payload) = {} THEN 0 ELSE Min(Shown(payload))
      BY <2>3, BodyIsFirst
    <2>5. Shown(payload) \in SUBSET Nat /\ Shown(payload) \subseteq 1..n
      BY <2>3, TreeShape DEF Shown
    <2>6. Texts(payload) \subseteq Shown(payload)
      BY DEF Texts, Shown, Decodes, Readable
    <2>7. \A m \in Shown(payload) :
             /\ Min(Shown(payload)) \in Shown(payload) /\ Min(Shown(payload)) <= m
             /\ m \in Nat /\ Min(Shown(payload)) \in 1..m
      <3>1. Shown(payload) # {} => /\ Min(Shown(payload)) \in Shown(payload)
                                   /\ \A m \in Shown(payload) : Min(Shown(payload)) <= m
        BY <2>5, MinIsLeast
      <3>2. QED
        BY <2>5, <3>1
    <2>8. QED
      BY <2>2, <2>4, <2>6, <2>7
  <1>2. QED
    BY <1>1, Invariant, PTL

\* The row storeMessageInDB writes counts each file of the payload it was made
\* from once, and the API never tells of attachments the row has none of.
THEOREM CountCorrect ==
    Spec => []CountIsFiles
  <1>1. Inv => CountIsFiles
    <2> SUFFICES ASSUME Inv, NEW r \in row
                 PROVE  /\ r.attachment_count = Cardinality(Files(r.of))
                        /\ r.of = WithoutData(payload) /\ answer.has_attachments
                              => r.attachment_count > 0
      BY DEF CountIsFiles
    <2>1. PICK q \in Metadata(payload) : r = RowOf(q)
      BY DEF Inv, RowOk
    <2>2. PICK n \in 1..MaxParts :
             /\ n \in Nat \ {0}
             /\ Tree(payload, n)
             /\ \A p \in Metadata(payload) : \E m \in 1..n : m \in Nat \ {0} /\ Tree(p, m)
      BY MetadataTrees
    <2>3. r.of = q /\ r.attachment_count = CountAttachments(q)
      BY <2>1 DEF RowOf
    <2>4. r.attachment_count = Cardinality(Files(r.of))
      BY <2>2, <2>3, CountIsCardinality
    <2>5. ASSUME q = WithoutData(payload), answer.has_attachments
          PROVE  r.attachment_count > 0
      <3>1. HasFile(Headers(payload)) = FALSE
        BY <2>2, HeadersTree DEF HasFile
      <3>2. HasFile(payload) \/ HasFile(q)
        BY <2>5, <3>1 DEF Inv, AnswerOk, NoAnswer, AnswerOf, Metadata
      <3>3. 1 \in 1..n /\ Parts(payload, 1) \subseteq 1..n /\ All(q) = 1..n
        BY <2>2, <2>5, TreeShape, WithoutDataTree
      <3>4. PICK i \in 1..n : q.part[i].file
        BY <2>2, <2>5, <3>2, <3>3, WithoutDataTree DEF HasFile
      <3>5. i \in Files(q)
        BY <3>3, <3>4 DEF Files
      <3>6. IsFiniteSet(Files(q))
        BY <2>2, <2>5, WithoutDataTree, CountRange
      <3>7. Cardinality(Files(q)) \in Nat /\ Cardinality(Files(q)) # 0
        BY <3>5, <3>6, FS_CardinalityType, FS_EmptySet
      <3>8. QED
        BY <2>3, <2>4, <3>7
    <2>6. QED
      BY <2>3, <2>4, <2>5
  <1>2. QED
    BY <1>1, Invariant, PTL

\* The row and the answer of any message have their types, and there is never
\* a second row.
THEOREM TypeCorrect ==
    Spec => []TypeOK
  <1>1. Inv => TypeOK
    <2> SUFFICES ASSUME Inv PROVE TypeOK
      OBVIOUS
    <2>1. PICK n \in 1..MaxParts :
             /\ n \in Nat \ {0}
             /\ Tree(payload, n)
             /\ \A p \in Metadata(payload) : \E m \in 1..n : m \in Nat \ {0} /\ Tree(p, m)
      BY MetadataTrees
    <2>2. Cardinality(All(payload)) = n
      BY <2>1, TreeShape, FS_Interval
    <2>3. ASSUME NEW p \in Metadata(payload)
          PROVE  CountAttachments(p) \in 0..n /\ ExtractMessageBody(p) \in 0..n
      <3>1. PICK m \in 1..n : m \in Nat \ {0} /\ Tree(p, m)
        BY <2>1
      <3>2. CountAttachments(p) \in 0..m /\ ExtractMessageBody(p) \in 0..m
        BY <3>1, CountRange, BodyRange
      <3>3. QED
        BY <2>1, <3>1, <3>2
    <2>4. row \subseteq [of : Metadata(payload), has_attachments : BOOLEAN,
                         attachment_count : 0..n]
      <3>1. ASSUME NEW p \in Metadata(payload)
            PROVE  RowOf(p) \in [of : Metadata(payload), has_attachments : BOOLEAN,
                                  attachment_count : 0..n]
        <4> DEFINE b == \/ Cardinality(Parts(p, 1)) > 1
                        \/ p.part[1].body \notin {"nil", "no data"} /\ Parts(p, 1) # {}
        <4>1. b \in BOOLEAN
          OBVIOUS
        <4>2. RowOf(p) = [of |-> p, has_attachments |-> b,
                          attachment_count |-> CountAttachments(p)]
          BY DEF RowOf
        <4> HIDE DEF b
        <4>3. QED
          BY <4>1, <4>2, <2>3
      <3>2. QED
        BY <3>1 DEF Inv, RowOk
    <2>5. IsFiniteSet(row) /\ Cardinality(row) <= 1
      <3>1. CASE row = {}
        BY <3>1, FS_EmptySet
      <3>2. CASE row # {}
        BY <3>2, FS_Singleton DEF Inv, RowOk
      <3>3. QED
        BY <3>1, <3>2
    <2>6. ExtractMessageBody(payload) \in 0..n
      BY <2>1, BodyRange
    <2>7. \A p : HasFile(p) \in BOOLEAN
      BY DEF HasFile
    <2>8. answer \in [format : {"none", "metadata", "full"},
                      body : 0..n, has_attachments : BOOLEAN]
      <3>1. ASSUME NEW format \in {"metadata", "full"}, NEW p, ExtractMessageBody(p) \in 0..n
            PROVE  AnswerOf(format, p) \in [format : {"none", "metadata", "full"},
                                            body : 0..n, has_attachments : BOOLEAN]
        BY <2>7, <3>1 DEF AnswerOf
      <3>2. NoAnswer \in [format : {"none", "metadata", "full"},
                          body : 0..n, has_attachments : BOOLEAN]
        BY <2>1 DEF NoAnswer
      <3>3. QED
        BY <3>1, <3>2, <2>3, <2>6 DEF Inv, AnswerOk
    <2>9. payload.part \in [1..n -> MessagePart] /\ payload.holder \in [2..n -> 1..n]
      BY <2>1 DEF Tree
    <2>10. QED
      BY <2>2, <2>4, <2>5, <2>8, <2>9 DEF TypeOK
  <1>2. QED
    BY <1>1, Invariant, PTL
=============================================================================
