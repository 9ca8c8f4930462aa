-------------------------- MODULE ConnectionProofs --------------------------
(***************************************************************************)
(* Proofs about Connection and ModulePath, for any number of connections,  *)
(* request paths of any length, and any number of messages.                *)
(***************************************************************************)
EXTENDS Connection, FiniteSetTheorems, SequenceTheorems, WellFoundedInduction, TLAPS

(* The tableau prover first: most steps need no arithmetic.                *)
USE ZenonT(5), SMT

-----------------------------------------------------------------------------
(* Positions in a path.                                                    *)

LEMMA MinOfNats ==
  ASSUME NEW S \in SUBSET Nat, S # {}
  PROVE  Min(S) \in S /\ \A y \in S : Min(S) <= y
<1> DEFINE R == OpToRel(<, Nat)
<1>1. \A x, y \in Nat : y < x => <<y, x>> \in R
  BY DEF OpToRel
<1>2. IsWellFoundedOn(R, Nat)
  BY NatLessThanWellFounded
<1> HIDE DEF R
<1>3. \E x \in S : \A y \in S : ~ (<<y, x>> \in R)
  BY <1>2, WFMin
<1>4. PICK x \in S : \A y \in S : ~ (y < x)
  BY <1>1, <1>3
<1>5. \A y \in S : x \in Nat /\ y \in Nat
  OBVIOUS
<1>6. \A y \in S : x <= y
  BY <1>4, <1>5
<1>. QED
  BY <1>6 DEF Min

LEMMA MaxOfNats ==
  ASSUME NEW k \in Nat, NEW S \in SUBSET (0..k), S # {}
  PROVE  Max(S) \in S /\ \A y \in S : y <= Max(S)
<1> DEFINE T == {k - i : i \in S}
<1>1. \A i \in S : i \in Nat /\ k - i \in Nat
  OBVIOUS
<1>0. T \in SUBSET Nat /\ T # {}
  BY <1>1
<1>2. Min(T) \in T /\ \A y \in T : Min(T) <= y
  BY <1>0, MinOfNats
<1>3. PICK m \in S : Min(T) = k - m
  BY <1>2
<1>4. ASSUME NEW i \in S PROVE i <= m
  <2>1. k - m <= k - i
    BY <1>2, <1>3
  <2>. QED
    BY <1>1, <2>1
<1>. QED
  BY <1>4 DEF Max

LEMMA FindFacts ==
  ASSUME NEW p \in Seq(Token), NEW t
  PROVE  /\ Find(p, t) \in 1..(Len(p) + 1)
         /\ \A i \in 1..(Find(p, t) - 1) : p[i] # t
         /\ Has(p, t) <=> Find(p, t) <= Len(p)
         /\ Find(p, t) <= Len(p) => p[Find(p, t)] = t
<1> DEFINE S == {i \in DOMAIN p : p[i] = t} \cup {Len(p) + 1}
<1>1. Len(p) \in Nat /\ DOMAIN p = 1..Len(p)
  OBVIOUS
<1>2. S \in SUBSET Nat /\ S # {}
  BY <1>1, SMT
<1>3. Find(p, t) \in S /\ \A y \in S : Find(p, t) <= y
  BY <1>2, MinOfNats DEF Find
<1>4. Has(p, t) <=> \E i \in 1..Len(p) : p[i] = t
  BY <1>1 DEF Has, Range
<1>. QED
  BY <1>1, <1>3, <1>4

(* The first t of p from x on.                                             *)
Pos(p, x, t) == Find(SubSeq(p, x, Len(p)), t) + x - 1

LEMMA PosFacts ==
  ASSUME NEW p \in Seq(Token), NEW x \in 1..(Len(p) + 1), NEW t
  PROVE  LET q == SubSeq(p, x, Len(p))
             f == Pos(p, x, t)
         IN  /\ f \in x..(Len(p) + 1)
             /\ \A i \in x..(f - 1) : p[i] # t
             /\ Has(q, t) <=> f <= Len(p)
             /\ f <= Len(p) => p[f] = t
             /\ Before(q, t) = SubSeq(p, x, f - 1)
             /\ After(q, t) = SubSeq(p, f + 1, Len(p))
<1> DEFINE q == SubSeq(p, x, Len(p))
           f == Pos(p, x, t)
           g == Find(q, t)
<1>1. Len(p) \in Nat /\ x \in Nat /\ x >= 1 /\ x <= Len(p) + 1
  OBVIOUS
<1>2. q \in Seq(Token) /\ Len(q) = Len(p) - x + 1 /\ \A i \in 1..Len(q) : q[i] = p[x + i - 1]
  BY <1>1, SubSeqProperties, SMT
<1>3. f = g + x - 1
  BY DEF Pos
<1>4. /\ g \in 1..(Len(q) + 1)
      /\ \A i \in 1..(g - 1) : q[i] # t
      /\ Has(q, t) <=> g <= Len(q)
      /\ g <= Len(q) => q[g] = t
  BY <1>2, FindFacts
<1> HIDE DEF f, g, q
<1>5. f \in x..(Len(p) + 1)
  BY <1>1, <1>2, <1>3, <1>4
<1>6. ASSUME NEW i \in x..(f - 1) PROVE p[i] # t
  <2>1. i - x + 1 \in 1..(g - 1) /\ x + (i - x + 1) - 1 = i /\ i - x + 1 \in 1..Len(q)
    BY <1>1, <1>2, <1>3, <1>4
  <2>. QED
    BY <1>2, <1>4, <2>1
<1>7. Has(q, t) <=> f <= Len(p)
  BY <1>1, <1>2, <1>3, <1>4
<1>8. f <= Len(p) => p[f] = t
  BY <1>1, <1>2, <1>3, <1>4
<1>9. SubSeq(q, 1, g - 1) = SubSeq(p, x, f - 1)
  BY <1>1, <1>2, <1>3, <1>4
<1>10. SubSeq(q, g + 1, Len(q)) = SubSeq(p, f + 1, Len(p))
  BY <1>1, <1>2, <1>3, <1>4
<1>. QED
  BY <1>5, <1>6, <1>7, <1>8, <1>9, <1>10 DEF Before, After, f, g, q

(* Where the path begins after trim_start.                                 *)
Start(p) == Min(Other(p) \cup {Len(p) + 1})

LEMMA StartFacts ==
  ASSUME NEW p \in Seq(Token)
  PROVE  /\ Start(p) \in 1..(Len(p) + 1)
         /\ \A i \in 1..(Start(p) - 1) : p[i] = "/"
         /\ Start(p) <= Len(p) => p[Start(p)] # "/"
         /\ trim_start(p) = SubSeq(p, Start(p), Len(p))
<1> DEFINE S == Other(p) \cup {Len(p) + 1}
<1>1. Len(p) \in Nat /\ DOMAIN p = 1..Len(p)
  OBVIOUS
<1>2. S \in SUBSET Nat /\ S # {}
  BY <1>1, SMT DEF Other
<1>3. Start(p) \in S /\ \A y \in S : Start(p) <= y
  BY <1>2, MinOfNats DEF Start
<1>4. \A i \in DOMAIN p : i \in S \/ p[i] = "/"
  BY DEF Other
<1>5. Start(p) = Len(p) + 1 \/ (Start(p) \in 1..Len(p) /\ p[Start(p)] # "/")
  BY <1>1, <1>3 DEF Other
<1>6. trim_start(p) = SubSeq(p, Start(p), Len(p))
  BY DEF trim_start, Start
<1> HIDE DEF S
<1>7. ASSUME NEW i \in 1..(Start(p) - 1) PROVE p[i] = "/"
  <2>1. i \in DOMAIN p /\ ~ (Start(p) <= i)
    BY <1>1, <1>5
  <2>. QED
    BY <1>3, <1>4, <2>1
<1>. QED
  BY <1>1, <1>5, <1>6, <1>7

(* The part of p from x to y without the slashes at its end.               *)
LEMMA EndFacts ==
  ASSUME NEW p \in Seq(Token), NEW x \in 1..(Len(p) + 1), NEW y \in (x - 1)..Len(p)
  PROVE  \E e \in (x - 1)..y :
           /\ trim_end(SubSeq(p, x, y)) = SubSeq(p, x, e)
           /\ e >= x => p[e] # "/"
           /\ \A i \in (e + 1)..y : p[i] = "/"
<1> DEFINE q == SubSeq(p, x, y)
           m == Max(Other(q) \cup {0})
           e == m + x - 1
<1>1. Len(p) \in Nat /\ x \in Nat /\ y \in Nat /\ x >= 1 /\ x - 1 <= y /\ y <= Len(p)
  OBVIOUS
<1>2. q \in Seq(Token) /\ Len(q) = y - x + 1 /\ \A i \in 1..Len(q) : q[i] = p[x + i - 1]
  BY <1>1, SubSeqProperties, SMT
<1>3. trim_end(q) = SubSeq(q, 1, m)
  BY DEF trim_end
<1> HIDE DEF q
<1>4. Other(q) \cup {0} \in SUBSET (0..Len(q)) /\ Len(q) \in Nat
  BY <1>2 DEF Other
<1>5. m \in Other(q) \cup {0} /\ \A i \in Other(q) : i <= m
  BY <1>4, MaxOfNats
<1> HIDE DEF m
<1>6. /\ m \in 0..Len(q)
      /\ m >= 1 => q[m] # "/"
      /\ \A i \in (m + 1)..Len(q) : q[i] = "/"
  <2>1. m \in 0..Len(q) /\ DOMAIN q = 1..Len(q)
    BY <1>2, <1>4, <1>5
  <2>2. m >= 1 => q[m] # "/"
    BY <1>5, <2>1 DEF Other
  <2>3. ASSUME NEW i \in (m + 1)..Len(q) PROVE q[i] = "/"
    <3>1. i \in DOMAIN q /\ ~ (i <= m)
      BY <1>4, <2>1
    <3>. QED
      BY <1>5, <3>1 DEF Other
  <2>. QED
    BY <2>1, <2>2, <2>3
<1>7. e \in (x - 1)..y
  BY <1>1, <1>2, <1>6
<1>8. SubSeq(q, 1, m) = SubSeq(p, x, e)
  BY <1>1, <1>2, <1>6
<1>9. e >= x => p[e] # "/"
  BY <1>1, <1>2, <1>6
<1>10. ASSUME NEW i \in (e + 1)..y PROVE p[i] = "/"
  <2> DEFINE j == i - x + 1
  <2>1. j \in (m + 1)..Len(q) /\ j \in 1..Len(q) /\ x + j - 1 = i
    BY <1>1, <1>2, <1>6
  <2> HIDE DEF j
  <2>2. q[j] = "/" /\ q[j] = p[x + j - 1]
    BY <1>2, <1>6, <2>1
  <2>. QED
    BY <2>1, <2>2
<1>. QED
  BY <1>3, <1>7, <1>8, <1>9, <1>10 DEF q

(* SubSeq(p, x, y) for x and y in p.                                       *)
LEMMA PartFacts ==
  ASSUME NEW p \in Seq(Token), NEW x \in 1..(Len(p) + 1), NEW y \in (x - 1)..Len(p)
  PROVE  LET q == SubSeq(p, x, y)
         IN  /\ q \in Seq(Token)
             /\ Len(q) = y - x + 1
             /\ \A i \in 1..Len(q) : q[i] = p[x + i - 1]
             /\ \A t : Has(q, t) <=> \E i \in x..y : p[i] = t
<1> DEFINE q == SubSeq(p, x, y)
<1>1. Len(p) \in Nat /\ x \in Nat /\ y \in Nat /\ x >= 1 /\ x - 1 <= y /\ y <= Len(p)
  OBVIOUS
<1>2. q \in Seq(Token) /\ Len(q) = y - x + 1 /\ \A i \in 1..Len(q) : q[i] = p[x + i - 1]
  BY <1>1, SubSeqProperties, SMT
<1> HIDE DEF q
<1>3. ASSUME NEW t PROVE Has(q, t) <=> \E i \in x..y : p[i] = t
  <2>0. DOMAIN q = 1..Len(q)
    BY <1>2, LenProperties
  <2>1. Has(q, t) <=> \E i \in 1..Len(q) : q[i] = t
    BY <2>0 DEF Has, Range
  <2>2. ASSUME NEW i \in 1..Len(q) PROVE x + i - 1 \in x..y /\ q[i] = p[x + i - 1]
    BY <1>1, <1>2
  <2>3. ASSUME NEW i \in x..y PROVE i - x + 1 \in 1..Len(q) /\ q[i - x + 1] = p[i]
    <3>1. i - x + 1 \in 1..Len(q) /\ x + (i - x + 1) - 1 = i
      BY <1>1, <1>2
    <3>. QED
      BY <1>2, <3>1
  <2>. QED
    BY <2>1, <2>2, <2>3
<1>. QED
  BY <1>2, <1>3 DEF q

LEMMA OnePart ==
  ASSUME NEW p \in Seq(Token), NEW x \in 1..Len(p)
  PROVE  SubSeq(p, x, x) = <<p[x]>>
<1> DEFINE q == SubSeq(p, x, x)
<1>1. /\ Len(p) \in Nat /\ x \in 1..(Len(p) + 1) /\ x \in (x - 1)..Len(p)
      /\ x - x + 1 = 1 /\ x + 1 - 1 = x
  OBVIOUS
<1>2. q \in Seq(Token) /\ Len(q) = x - x + 1 /\ \A i \in 1..Len(q) : q[i] = p[x + i - 1]
  BY <1>1, PartFacts
<1> HIDE DEF q
<1>3. q \in Seq(Token) /\ Len(q) = 1
  BY <1>1, <1>2
<1>4. q[1] = p[x]
  <2>1. 1 \in 1..Len(q)
    BY <1>3
  <2>. QED
    BY <1>1, <1>2, <2>1
<1>5. q = <<q[1]>>
  BY <1>3
<1>. QED
  BY <1>4, <1>5 DEF q

(* What extract_module_name finds is the name that the path names.         *)
LEMMA ExtractedIsNamed ==
  ASSUME NEW p \in Seq(Token), extract_module_name(p) # NoModule
  PROVE  Names(p, extract_module_name(p))
<1> DEFINE n == Len(p)
           s == Start(p)
           f == Pos(p, s, "/")
           g == Pos(p, f + 1, "/")
           h == Pos(p, g + 1, "?")
           trimmed == trim_start(p)
           rest == After(trimmed, "/")
           third == After(rest, "/")
           name == trim_end(Before(third, "?"))
<1>1. /\ Has(trimmed, "/") /\ Has(rest, "/")
      /\ Before(trimmed, "/") = <<"database">>
      /\ name # <<>> /\ extract_module_name(p) = name
  BY DEF extract_module_name
<1>2. /\ s \in 1..(n + 1) /\ n \in Nat
      /\ \A i \in 1..(s - 1) : p[i] = "/"
      /\ trimmed = SubSeq(p, s, n)
  BY StartFacts, SMT
<1> HIDE DEF n, s, trimmed
<1>3. /\ f \in s..n /\ p[f] = "/"
      /\ Before(trimmed, "/") = SubSeq(p, s, f - 1) /\ rest = SubSeq(p, f + 1, n)
  BY <1>1, <1>2, PosFacts, SMT DEF n
<1> HIDE DEF f, rest
<1>4. f = s + 1 /\ p[s] = "database"
  <2> DEFINE q == SubSeq(p, s, f - 1)
  <2>1. Len(q) = (f - 1) - s + 1 /\ \A i \in 1..Len(q) : q[i] = p[s + i - 1]
    BY <1>2, <1>3, PartFacts, SMT DEF n
  <2>2. q = <<"database">>
    BY <1>1, <1>3
  <2> HIDE DEF q
  <2>3. Len(q) = 1 /\ q[1] = "database"
    BY <2>2
  <2>4. s \in Nat /\ f \in Nat
    BY <1>2, <1>3
  <2>5. 1 = (f - 1) - s + 1
    BY <2>1, <2>3
  <2>6. f = s + 1 /\ s + 1 - 1 = s
    BY <2>4, <2>5
  <2>7. 1 \in 1..Len(q)
    BY <2>3
  <2>8. q[1] = p[s + 1 - 1]
    BY <2>1, <2>7
  <2>. QED
    BY <2>3, <2>6, <2>8
<1>5. /\ g \in (f + 1)..n /\ p[g] = "/" /\ \A i \in (f + 1)..(g - 1) : p[i] # "/"
      /\ third = SubSeq(p, g + 1, n)
  <2>1. f + 1 \in 1..(n + 1)
    BY <1>2, <1>3
  <2>. QED
    BY <1>1, <1>3, <2>1, PosFacts, SMT DEF n
<1> HIDE DEF g, third
<1>6. /\ h \in (g + 1)..(n + 1) /\ (h <= n => p[h] = "?")
      /\ \A i \in (g + 1)..(h - 1) : p[i] # "?"
      /\ Before(third, "?") = SubSeq(p, g + 1, h - 1)
  <2>1. g + 1 \in 1..(n + 1)
    BY <1>2, <1>3, <1>5
  <2>. QED
    BY <1>5, <2>1, PosFacts, SMT DEF n
<1> HIDE DEF h
<1>7. PICK e \in g..(h - 1) :
        /\ name = SubSeq(p, g + 1, e)
        /\ e >= g + 1 => p[e] # "/"
        /\ \A i \in (e + 1)..(h - 1) : p[i] = "/"
  <2>1. g + 1 \in 1..(n + 1) /\ h - 1 \in ((g + 1) - 1)..n /\ (g + 1) - 1 = g
    BY <1>2, <1>3, <1>5, <1>6
  <2>. QED
    BY <1>6, <2>1, EndFacts DEF n
<1> HIDE DEF name
<1>8. e >= g + 1
  <2>1. g + 1 > e => SubSeq(p, g + 1, e) = <<>>
    BY <1>2, <1>3, <1>5, <1>6, <1>7, SubSeqEmpty
  <2>. QED
    BY <1>1, <1>2, <1>3, <1>5, <1>6, <1>7, <2>1
<1>9. /\ s - 1 \in 0..(n - 2) /\ g - 1 \in ((s - 1) + 2)..(n - 1)
      /\ e \in ((g - 1) + 2)..n /\ h - 1 \in ((g - 1) + 2)..n /\ e <= h - 1
  BY <1>2, <1>3, <1>4, <1>5, <1>6, <1>7, <1>8
<1>10. ~ Has(SubSeq(p, (s - 1) + 3, g - 1), "/")
  <2>1. f + 1 \in 1..(n + 1) /\ g - 1 \in ((f + 1) - 1)..n /\ (s - 1) + 3 = f + 1
    BY <1>2, <1>4, <1>5, <1>9, SMT
  <2>2. Has(SubSeq(p, f + 1, g - 1), "/") <=> \E i \in (f + 1)..(g - 1) : p[i] = "/"
    BY <2>1, PartFacts, SMT DEF n
  <2>. QED
    BY <1>5, <2>1, <2>2
<1>11. ~ Has(name, "?")
  <2>1. g + 1 \in 1..(n + 1) /\ e \in ((g + 1) - 1)..n
    BY <1>2, <1>5, <1>9
  <2>2. \A i \in (g + 1)..e : i \in (g + 1)..(h - 1)
    BY <1>2, <1>5, <1>6, <1>9, SMT
  <2>3. Has(SubSeq(p, g + 1, e), "?") <=> \E i \in (g + 1)..e : p[i] = "?"
    BY <2>1, PartFacts DEF n
  <2>. QED
    BY <1>6, <1>7, <2>2, <2>3
<1>12. /\ p[(s - 1) + 1] = "database" /\ p[(s - 1) + 2] = "/" /\ p[(g - 1) + 1] = "/"
       /\ name = SubSeq(p, (g - 1) + 2, e) /\ p[e] # "/"
       /\ h - 1 = n \/ p[(h - 1) + 1] = "?"
  BY <1>2, <1>3, <1>4, <1>5, <1>6, <1>7, <1>8, <1>9
<1>. QED
  BY <1>1, <1>2, <1>7, <1>9, <1>10, <1>11, <1>12 DEF Names, n

(* There is one first t from x on.                                         *)
LEMMA FirstIs ==
  ASSUME NEW p, NEW t, NEW n \in Nat, NEW x \in Nat,
         NEW f \in x..(n + 1), NEW k \in x..(n + 1),
         \A i \in x..(f - 1) : p[i] # t, f <= n => p[f] = t,
         \A i \in x..(k - 1) : p[i] # t, k <= n => p[k] = t
  PROVE  f = k
<1>1. f < k => f \in x..(k - 1) /\ f <= n
  OBVIOUS
<1>2. k < f => k \in x..(f - 1) /\ k <= n
  OBVIOUS
<1>3. f < k \/ k < f \/ f = k
  OBVIOUS
<1>. QED
  BY <1>1, <1>2, <1>3

(* A path that names a module is taken apart into that name.               *)
LEMMA NamedIsExtracted ==
  ASSUME NEW p \in Seq(Token), NEW nm, Names(p, nm)
  PROVE  extract_module_name(p) = nm /\ nm \in Seq(Token)
<1> DEFINE n == Len(p)
           s == Start(p)
           f == Pos(p, s, "/")
           g == Pos(p, f + 1, "/")
           h == Pos(p, g + 1, "?")
           trimmed == trim_start(p)
           rest == After(trimmed, "/")
           third == After(rest, "/")
           name == trim_end(Before(third, "?"))
<1>0. n \in Nat
  OBVIOUS
<1>1. PICK a \in Int, b \in Int, c \in Int, d \in Int :
        /\ a \in 0..(n - 2) /\ b \in (a + 2)..(n - 1)
        /\ c \in (b + 2)..n /\ d \in (b + 2)..n
        /\ \A i \in 1..a : p[i] = "/"
        /\ p[a + 1] = "database" /\ p[a + 2] = "/"
        /\ ~ Has(SubSeq(p, a + 3, b), "/") /\ p[b + 1] = "/"
        /\ c <= d /\ nm = SubSeq(p, b + 2, c)
        /\ ~ Has(nm, "?") /\ p[c] # "/"
        /\ \A i \in (c + 1)..d : p[i] = "/"
        /\ d = n \/ p[d + 1] = "?"
  BY SMT DEF Names
<1>2. /\ a \in Nat /\ b \in Nat /\ c \in Nat /\ d \in Nat
      /\ a + 2 <= b /\ b + 2 <= c /\ c <= d /\ d <= n
  BY <1>0, <1>1, SMT
<1>3. /\ s \in 1..(n + 1) /\ (s <= n => p[s] # "/")
      /\ \A i \in 1..(s - 1) : p[i] = "/"
      /\ trimmed = SubSeq(p, s, n)
  BY StartFacts
<1> HIDE DEF n, s, trimmed
<1>4. s = a + 1
  <2>1. s < a + 1 => s \in 1..a /\ s <= n
    BY <1>0, <1>2, <1>3
  <2>2. a + 1 < s => a + 1 \in 1..(s - 1)
    BY <1>0, <1>2, <1>3
  <2>3. s < a + 1 \/ a + 1 < s \/ s = a + 1
    BY <1>0, <1>2, <1>3
  <2>. QED
    BY <1>1, <1>3, <2>1, <2>2, <2>3
<1>5. /\ f \in s..(n + 1) /\ (f <= n => p[f] = "/")
      /\ \A i \in s..(f - 1) : p[i] # "/"
      /\ Has(trimmed, "/") <=> f <= n
      /\ Before(trimmed, "/") = SubSeq(p, s, f - 1) /\ rest = SubSeq(p, f + 1, n)
  BY <1>3, PosFacts, SMT DEF n
<1> HIDE DEF f, rest
<1>6. f = a + 2
  <2>1. /\ s \in Nat /\ a + 2 \in s..(n + 1)
        /\ \A i \in s..((a + 2) - 1) : i = a + 1
    BY <1>0, <1>2, <1>4
  <2>2. \A i \in s..((a + 2) - 1) : p[i] # "/"
    BY <1>1, <2>1
  <2>. QED
    BY <1>0, <1>1, <1>5, <2>1, <2>2, FirstIs, SMT
<1>7. Before(trimmed, "/") = <<"database">>
  <2>1. f - 1 = s /\ s \in 1..n
    BY <1>0, <1>2, <1>4, <1>6
  <2>2. SubSeq(p, s, s) = <<p[s]>>
    BY <2>1, OnePart DEF n
  <2>. QED
    BY <1>1, <1>4, <1>5, <2>1, <2>2
<1>8. f + 1 \in 1..(n + 1)
  BY <1>0, <1>2, <1>6
<1>9. /\ g \in (f + 1)..(n + 1) /\ (g <= n => p[g] = "/")
      /\ \A i \in (f + 1)..(g - 1) : p[i] # "/"
      /\ Has(rest, "/") <=> g <= n
      /\ third = SubSeq(p, g + 1, n)
  BY <1>5, <1>8, PosFacts, ZenonT(30) DEF n
<1> HIDE DEF g, third
<1>10. g = b + 1
  <2>1. /\ f + 1 \in Nat /\ b + 1 \in (f + 1)..(n + 1) /\ (b + 1) - 1 = b
        /\ a + 3 = f + 1 /\ a + 3 \in 1..(Len(p) + 1) /\ b \in ((a + 3) - 1)..Len(p)
    BY <1>0, <1>2, <1>6 DEF n
  <2>2. \A i \in (a + 3)..b : p[i] # "/"
    BY <1>1, <2>1, PartFacts, SMT
  <2>. QED
    BY <1>0, <1>1, <1>9, <2>1, <2>2, FirstIs, SMT
<1>11. g + 1 \in 1..(n + 1)
  BY <1>0, <1>2, <1>10
<1>12. /\ h \in (g + 1)..(n + 1) /\ (h <= n => p[h] = "?")
       /\ \A i \in (g + 1)..(h - 1) : p[i] # "?"
       /\ Before(third, "?") = SubSeq(p, g + 1, h - 1)
  BY <1>9, <1>11, PosFacts, SMT DEF n
<1> HIDE DEF h
<1>13. nm \in Seq(Token) /\ \A i \in (b + 2)..c : p[i] # "?"
  <2>1. b + 2 \in 1..(Len(p) + 1) /\ c \in ((b + 2) - 1)..Len(p)
    BY <1>0, <1>2 DEF n
  <2>. QED
    BY <1>1, <2>1, PartFacts, SMT
<1>14. h = d + 1
  <2>1. /\ g + 1 \in Nat /\ d + 1 \in (g + 1)..(n + 1) /\ (d + 1) - 1 = d
        /\ g + 1 = b + 2
    BY <1>0, <1>2, <1>10
  <2>2. \A i \in (g + 1)..d : i \in (b + 2)..c \/ i \in (c + 1)..d
    BY <1>2, <2>1
  <2>3. \A i \in (g + 1)..d : p[i] # "?"
    BY <1>1, <1>13, <2>2
  <2>4. d + 1 <= n => p[d + 1] = "?"
    BY <1>0, <1>1, <1>2, SMT
  <2>. QED
    BY <1>0, <1>12, <2>1, <2>3, <2>4, FirstIs, SMT
<1>15. PICK e \in g..d :
         /\ name = SubSeq(p, g + 1, e)
         /\ e >= g + 1 => p[e] # "/"
         /\ \A i \in (e + 1)..d : p[i] = "/"
  <2>1. /\ g + 1 \in 1..(Len(p) + 1) /\ d \in ((g + 1) - 1)..Len(p) /\ (g + 1) - 1 = g
        /\ h - 1 = d
    BY <1>0, <1>2, <1>10, <1>14 DEF n
  <2>. QED
    BY <1>12, <2>1, EndFacts
<1> HIDE DEF name
<1>16. e = c
  <2>1. e \in Nat /\ c \in g..d /\ c >= g + 1
    BY <1>2, <1>10, <1>15, SMT
  <2>2. e < c => c \in (e + 1)..d
    BY <1>2, <2>1
  <2>3. c < e => e \in (c + 1)..d /\ e >= g + 1
    BY <1>2, <1>10, <1>15, <2>1
  <2>4. e < c \/ c < e \/ e = c
    BY <1>2, <2>1
  <2>. QED
    BY <1>1, <1>15, <2>2, <2>3, <2>4
<1>17. name = nm
  <2>1. g + 1 = b + 2
    BY <1>2, <1>10
  <2>. QED
    BY <1>1, <1>15, <1>16, <2>1
<1>18. name # <<>>
  <2>1. b + 2 \in 1..(Len(p) + 1) /\ c \in ((b + 2) - 1)..Len(p)
    BY <1>0, <1>2 DEF n
  <2>2. Len(nm) = c - (b + 2) + 1
    BY <1>1, <2>1, PartFacts
  <2>3. c - (b + 2) + 1 > 0
    BY <1>2
  <2>. QED
    BY <1>17, <2>2, <2>3
<1>19. f <= n /\ g <= n
  BY <1>0, <1>2, <1>6, <1>10
<1>20. extract_module_name(p) = name
  BY <1>5, <1>7, <1>9, <1>18, <1>19 DEF extract_module_name, trimmed, rest, third, name
<1>. QED
  BY <1>13, <1>17, <1>20

-----------------------------------------------------------------------------
(* Messages to the client.                                                 *)

InOrder(q) == \A i \in DOMAIN q : IF q[i] = Close THEN i = Len(q) ELSE q[i] = i

(* What is on its way, w, takes up where the client's messages g end; a    *)
(* Close of SpacetimeDB's ends it, and is the last it sends.               *)
Pending(g, w, u, a) ==
  /\ \A i \in DOMAIN w : IF w[i] = Close THEN i = Len(w) /\ u # "open" ELSE w[i] = Len(g) + i
  /\ u = "open" => a = Len(g) + Len(w)

(* A message is added, or goes from the one side to the other.             *)
LEMMA Balance ==
  ASSUME NEW a \in Nat, NEW b \in Nat, NEW c \in Nat, a = b + c
  PROVE  a + 1 = b + (c + 1) /\ a = (b + 1) + (c - 1)
  OBVIOUS

LEMMA Shift ==
  ASSUME NEW m \in Nat, NEW n \in Nat, NEW i \in 1..(n - 1)
  PROVE  i + 1 \in 1..n /\ (i + 1 = n => i = n - 1) /\ m + (i + 1) = (m + 1) + i
  OBVIOUS

LEMMA AppendIndexes ==
  ASSUME NEW q \in Seq(Nat), NEW v \in Nat
  PROVE  LET r == Append(q, v)
         IN  /\ Len(q) \in Nat /\ DOMAIN q = 1..Len(q)
             /\ Len(r) = Len(q) + 1 /\ r[Len(r)] = v /\ Len(r) \in DOMAIN r
             /\ \A i \in DOMAIN q : r[i] = q[i]
             /\ \A i \in DOMAIN r : i \in DOMAIN q \/ i = Len(r)
  BY AppendProperties

(* A message in its place, or a Close, continues what the client has.      *)
LEMMA InOrderAppend ==
  ASSUME NEW q \in Seq(Nat), NEW v \in Nat, InOrder(q), ~ Has(q, Close),
         v = Close \/ v = Len(q) + 1
  PROVE  /\ InOrder(Append(q, v))
         /\ v = Close => Has(Append(q, v), Close)
<1> DEFINE r == Append(q, v)
<1>1. /\ Len(r) = Len(q) + 1 /\ r[Len(r)] = v /\ Len(r) \in DOMAIN r
      /\ \A i \in DOMAIN q : r[i] = q[i]
      /\ \A i \in DOMAIN r : i \in DOMAIN q \/ i = Len(r)
  BY AppendIndexes
<1>2. \A i \in DOMAIN q : q[i] # Close /\ q[i] = i
  BY DEF InOrder, Has, Range
<1> HIDE DEF r
<1>3. InOrder(r)
  BY <1>1, <1>2 DEF InOrder
<1>4. v = Close => Has(r, Close)
  BY <1>1 DEF Has, Range
<1>. QED
  BY <1>3, <1>4 DEF r

LEMMA PendingRelay ==
  ASSUME NEW g \in Seq(Nat), NEW w \in Seq(Nat), w # <<>>, NEW u, NEW a \in Nat,
         InOrder(g), ~ Has(g, Close), Pending(g, w, u, a)
  PROVE  /\ InOrder(Append(g, Head(w)))
         /\ ~ Has(Append(g, Head(w)), Close) => Pending(Append(g, Head(w)), Tail(w), u, a)
<1> DEFINE h == Append(g, Head(w))
           t == Tail(w)
<1>1. /\ Head(w) \in Nat /\ Head(w) = w[1] /\ 1 \in DOMAIN w
      /\ Len(t) = Len(w) - 1 /\ DOMAIN t = 1..(Len(w) - 1)
      /\ \A i \in 1..(Len(w) - 1) : t[i] = w[i + 1]
  BY HeadTailProperties, SMT
<1>2. /\ \A i \in DOMAIN w : IF w[i] = Close THEN i = Len(w) /\ u # "open" ELSE w[i] = Len(g) + i
      /\ Head(w) = Close \/ Head(w) = Len(g) + 1
  BY <1>1 DEF Pending
<1>3. InOrder(h) /\ (Head(w) = Close => Has(h, Close))
  BY <1>1, <1>2, InOrderAppend
<1>4. Len(h) = Len(g) + 1 /\ Len(g) \in Nat
  BY <1>1, AppendIndexes
<1>5. Len(w) \in Nat /\ DOMAIN w = 1..Len(w)
  OBVIOUS
<1> HIDE DEF h, t
<1>6. ASSUME NEW i \in DOMAIN t
      PROVE  IF t[i] = Close THEN i = Len(t) /\ u # "open" ELSE t[i] = Len(h) + i
  <2>1. i \in 1..(Len(w) - 1) /\ t[i] = w[i + 1]
    BY <1>1
  <2>2. /\ i + 1 \in 1..Len(w)
        /\ i + 1 = Len(w) => i = Len(w) - 1
        /\ Len(g) + (i + 1) = (Len(g) + 1) + i
    BY <1>4, <1>5, <2>1, Shift
  <2>. QED
    BY <1>1, <1>2, <1>4, <1>5, <2>1, <2>2
<1>7. u = "open" => a = Len(g) + Len(w)
  BY DEF Pending
<1>8. u = "open" => a = Len(h) + Len(t)
  <2>1. u = "open" => a = (Len(g) + 1) + (Len(w) - 1)
    BY <1>4, <1>5, <1>7, Balance
  <2>2. Len(h) = Len(g) + 1 /\ Len(t) = Len(w) - 1
    BY <1>1, <1>4
  <2>. QED
    BY <2>1, <2>2
<1>. QED
  BY <1>3, <1>6, <1>8 DEF Pending, h, t

LEMMA PendingAnswer ==
  ASSUME NEW g \in Seq(Nat), NEW w \in Seq(Nat), NEW a \in Nat, Pending(g, w, "open", a)
  PROVE  Pending(g, Append(w, a + 1), "open", a + 1)
<1> DEFINE r == Append(w, a + 1)
<1>1. a + 1 \in Nat /\ a + 1 # Close /\ Len(g) \in Nat
  BY DEF Close
<1>2. /\ Len(w) \in Nat /\ Len(r) = Len(w) + 1 /\ r[Len(r)] = a + 1
      /\ \A i \in DOMAIN w : r[i] = w[i]
      /\ \A i \in DOMAIN r : i \in DOMAIN w \/ i = Len(r)
  BY <1>1, AppendIndexes
<1> HIDE DEF r
<1>3. a + 1 = Len(g) + (Len(w) + 1)
  BY <1>1, <1>2, Balance DEF Pending
<1>4. \A i \in DOMAIN w : w[i] # Close /\ w[i] = Len(g) + i
  BY DEF Pending
<1>5. \A i \in DOMAIN r : r[i] # Close /\ r[i] = Len(g) + i
  BY <1>1, <1>2, <1>3, <1>4
<1>. QED
  BY <1>2, <1>3, <1>5 DEF Pending, r

LEMMA PendingClose ==
  ASSUME NEW g \in Seq(Nat), NEW w \in Seq(Nat), NEW a, Pending(g, w, "open", a)
  PROVE  Pending(g, Append(w, Close), "closed", a)
<1> DEFINE r == Append(w, Close)
<1>1. Close \in Nat
  BY DEF Close
<1>2. /\ r[Len(r)] = Close
      /\ \A i \in DOMAIN w : r[i] = w[i]
      /\ \A i \in DOMAIN r : i \in DOMAIN w \/ i = Len(r)
  BY <1>1, AppendIndexes
<1> HIDE DEF r
<1>3. \A i \in DOMAIN w : w[i] # Close /\ w[i] = Len(g) + i
  BY DEF Pending
<1>. QED
  BY <1>2, <1>3 DEF Pending, r

-----------------------------------------------------------------------------
(* The inductive invariant.                                                *)

HandlerPc == {"new", "handshake", "upstream", "select", "hint", "lock", "close", "done"}
InboundPc == {"none", "read", "write", "proposed", "read_op", "close", "done"}
OutboundPc == {"none", "read", "lock", "send", "done"}
Request == {"write", "read_op", "close"}

TypeInv ==
  /\ process \in {"running", "draining", "exited"}
  /\ handler \in [Conn -> HandlerPc]
  /\ path \in [Conn -> Seq(Token)]
  /\ module \in [Conn -> Seq(Token) \cup {NoModule}]
  /\ inbound \in [Conn -> InboundPc]
  /\ outbound \in [Conn -> OutboundPc]
  /\ client_tx \in [Conn -> {"free", "handler", "outbound"}]
  /\ client \in [Conn -> {"open", "closing", "lost"}]
  /\ up \in [Conn -> Seq(Request)]
  /\ upstream \in [Conn -> {"open", "closed", "lost"}]
  /\ down \in [Conn -> Seq(Nat)]
  /\ answers \in [Conn -> Nat]
  /\ got \in [Conn -> Seq(Nat)]

Running == {c \in Conn : handler[c] \notin {"new", "done"}}
Counted == gauge = Cardinality(Running)

(* The relaying task starts with ConnectUpstream, and takes a message from *)
(* down only when it has dealt with it.                                    *)
TaskInv(c) ==
  /\ handler[c] \in {"new", "handshake", "upstream"} => outbound[c] = "none"
  /\ outbound[c] \in {"lock", "send"} => down[c] # <<>>

(* The module is what the path says, while they are in use.                *)
RouteInv(c) == path[c] # <<>> => module[c] = extract_module_name(path[c])

(* Until the task ends or the client has a Close, what is on its way takes *)
(* up where the client's messages end, and a Close ends it.                *)
RelayInv(c) ==
  /\ InOrder(got[c])
  /\ outbound[c] # "done" /\ ~ Has(got[c], Close) =>
       Pending(got[c], down[c], upstream[c], answers[c])

Inv == TypeInv /\ Counted /\ \A c \in Conn : TaskInv(c) /\ RouteInv(c) /\ RelayInv(c)

LEMMA InitInv == Init => Inv
<1> SUFFICES ASSUME Init PROVE Inv
  OBVIOUS
<1>1. TypeInv
  BY DEF Init, TypeInv, HandlerPc, InboundPc, OutboundPc
<1>2. Counted
  <2>1. Running = {} /\ gauge = 0
    BY DEF Init, Running
  <2>. QED
    BY <2>1, FS_EmptySet DEF Counted
<1>3. ASSUME NEW c \in Conn PROVE TaskInv(c) /\ RouteInv(c) /\ RelayInv(c)
  <2>1. TaskInv(c) /\ RouteInv(c)
    BY DEF Init, TaskInv, RouteInv
  <2>2. got[c] = <<>> /\ down[c] = <<>> /\ answers[c] = 0
    BY DEF Init
  <2>3. InOrder(<<>>) /\ Pending(<<>>, <<>>, upstream[c], 0)
    BY DEF InOrder, Pending
  <2>. QED
    BY <2>1, <2>2, <2>3 DEF RelayInv
<1>. QED
  BY <1>1, <1>2, <1>3 DEF Inv

(* One step per group of actions.                                          *)
LEMMA TypeStep == Inv /\ [Next]_vars => TypeInv'
<1> SUFFICES ASSUME Inv, TypeInv, [Next]_vars PROVE TypeInv'
  BY DEF Inv
<1> USE DEF Set, ends, tasks
<1>1. CASE UNCHANGED vars
  BY <1>1 DEF vars, TypeInv
<1>2. CASE Signal \/ Exit
  BY <1>2 DEF Signal, Exit, TypeInv
<1>3. ASSUME NEW c \in Conn, Accept(c) \/ Handling(c) \/ SendClose(c)
      PROVE  TypeInv'
  <2>1. CASE Accept(c)
    BY <2>1 DEF Accept, TypeInv, HandlerPc
  <2>2. CASE ConnectUpstream(c)
    BY <2>2, SMT DEF ConnectUpstream, Forget, TypeInv, HandlerPc, InboundPc, OutboundPc
  <2>3. CASE StartFails(c)
    BY <2>3, SMT DEF StartFails, Forget, Done, TypeInv, HandlerPc
  <2>4. CASE SelectEnded(c)
    BY <2>4 DEF SelectEnded, Done, TypeInv, HandlerPc
  <2>5. CASE SelectShutdown(c)
    BY <2>5 DEF SelectShutdown, TypeInv, HandlerPc
  <2>6. CASE Hint(c)
    BY <2>6 DEF Hint, Done, TypeInv, HandlerPc
  <2>7. CASE LockForClose(c)
    BY <2>7 DEF LockForClose, TypeInv, HandlerPc
  <2>8. CASE SendClose(c)
    <3>1. got[c] \in Seq(Nat) /\ Close \in Nat
      BY DEF TypeInv, Close
    <3>2. Append(got[c], Close) \in Seq(Nat)
      BY <3>1, AppendProperties
    <3>. QED
      BY <2>8, <3>2 DEF SendClose, Done, TypeInv, HandlerPc
  <2>. QED
    BY <1>3, <2>1, <2>2, <2>3, <2>4, <2>5, <2>6, <2>7, <2>8 DEF Handling
<1>4. ASSUME NEW c \in Conn, NEW p \in Rest, Handshake(c, <<"/">> \o p)
      PROVE  TypeInv'
  <2> DEFINE q == <<"/">> \o p
  <2>1. q \in Seq(Token)
    <3>1. PICK k \in 0..(MaxPath - 1) : p \in [1..k -> Token]
      BY DEF Rest
    <3>2. k \in Nat /\ p \in Seq(Token)
      BY <3>1
    <3>3. <<"/">> \in Seq(Token)
      BY DEF Token
    <3>. QED
      BY <3>2, <3>3, ConcatProperties
  <2>2. extract_module_name(q) \in Seq(Token) \cup {NoModule}
    BY <2>1, ExtractedIsNamed, NamedIsExtracted
  <2>3. Handshake(c, q)
    BY <1>4
  <2> HIDE DEF q
  <2>. QED
    BY <2>1, <2>2, <2>3 DEF Handshake, TypeInv, HandlerPc
<1>5. ASSUME NEW c \in Conn, Reading(c) \/ ProposeOk(c) \/ ProposeErr(c)
      PROVE  TypeInv'
  <2>1. CASE ReadClient(c)
    <3>1. up[c] \in Seq(Request) /\ up[c] # <<>>
      BY <2>1 DEF ReadClient, TypeInv
    <3>2. Head(up[c]) \in Request /\ Tail(up[c]) \in Seq(Request)
      BY <3>1, HeadTailProperties
    <3>3. Head(up[c]) \in InboundPc
      BY <3>2 DEF Request, InboundPc
    <3>. QED
      BY <2>1, <3>2, <3>3 DEF ReadClient, ToInbound, TypeInv
  <2>2. CASE ~ ReadClient(c)
    BY <1>5, <2>2 DEF Reading, ClientEnded, SendUpstream, SendUpstreamFails, ProposeOk,
       ProposeErr, ToInbound, TypeInv, InboundPc
  <2>. QED
    BY <2>1, <2>2
<1>6. ASSUME NEW c \in Conn, Relaying(c)
      PROVE  TypeInv'
  BY <1>6 DEF Relaying, ReadUpstream, UpstreamEnded, LockForRelay, TypeInv, OutboundPc
<1>7. ASSUME NEW c \in Conn, Relay(c) \/ RelayFails(c)
      PROVE  TypeInv'
  <2>1. down[c] \in Seq(Nat) /\ down[c] # <<>> /\ got[c] \in Seq(Nat)
    BY <1>7 DEF Inv, TaskInv, TypeInv, Relay, RelayFails
  <2>2. Head(down[c]) \in Nat /\ Tail(down[c]) \in Seq(Nat)
    BY <2>1, HeadTailProperties
  <2>3. Append(got[c], Head(down[c])) \in Seq(Nat)
    BY <2>1, <2>2, AppendProperties
  <2>4. CASE Relay(c)
    BY <2>4, <2>2, <2>3 DEF Relay, Released, TypeInv, OutboundPc
  <2>5. CASE RelayFails(c)
    BY <2>5, <2>2 DEF RelayFails, Released, TypeInv, OutboundPc
  <2>. QED
    BY <1>7, <2>4, <2>5
<1>8. ASSUME NEW c \in Conn, NEW m \in {"write", "read_op"}, ClientSends(c, m)
      PROVE  TypeInv'
  <2>1. up[c] \in Seq(Request) /\ m \in Request
    BY DEF TypeInv, Request
  <2>2. Append(up[c], m) \in Seq(Request)
    BY <2>1, AppendProperties
  <2>. QED
    BY <1>8, <2>2 DEF ClientSends, Outside, TypeInv
<1>9. ASSUME NEW c \in Conn, ClientCloses(c) \/ ClientLost(c)
      PROVE  TypeInv'
  <2>1. up[c] \in Seq(Request) /\ "close" \in Request
    BY DEF TypeInv, Request
  <2>2. Append(up[c], "close") \in Seq(Request)
    BY <2>1, AppendProperties
  <2>3. CASE ClientCloses(c)
    BY <2>2, <2>3 DEF ClientCloses, Outside, TypeInv
  <2>4. CASE ClientLost(c)
    BY <2>4 DEF ClientLost, Outside, TypeInv
  <2>. QED
    BY <1>9, <2>3, <2>4
<1>10. ASSUME NEW c \in Conn, UpstreamAnswers(c) \/ UpstreamCloses(c) \/ UpstreamLost(c)
       PROVE  TypeInv'
  <2>1. /\ down[c] \in Seq(Nat) /\ answers[c] + 1 \in Nat /\ Close \in Nat
    BY SMT DEF TypeInv, Close
  <2>2. Append(down[c], answers[c] + 1) \in Seq(Nat) /\ Append(down[c], Close) \in Seq(Nat)
    BY <2>1, AppendProperties
  <2>3. CASE UpstreamAnswers(c)
    BY <2>1, <2>2, <2>3 DEF UpstreamAnswers, Outside, TypeInv
  <2>4. CASE UpstreamCloses(c)
    BY <2>2, <2>4 DEF UpstreamCloses, Outside, TypeInv
  <2>5. CASE UpstreamLost(c)
    BY <2>5 DEF UpstreamLost, Outside, TypeInv
  <2>. QED
    BY <1>10, <2>3, <2>4, <2>5
<1>. QED
  BY <1>1, <1>2, <1>3, <1>4, <1>5, <1>6, <1>7, <1>8, <1>9, <1>10 DEF Next

(* The gauge follows a handler's start and its end.                        *)
LEMMA CountStep == Inv /\ [Next]_vars => Counted'
<1> SUFFICES ASSUME Inv, [Next]_vars PROVE Counted'
  OBVIOUS
<1>1. /\ handler \in [Conn -> HandlerPc] /\ gauge = Cardinality(Running)
      /\ IsFiniteSet(Running)
  BY ConnectionAssumption, FS_Subset DEF Inv, TypeInv, Counted, Running
<1>2. CASE UNCHANGED <<handler, gauge>>
  BY <1>1, <1>2 DEF Counted, Running
<1>3. ASSUME NEW c \in Conn, Accept(c) PROVE Counted'
  <2>1. Running' = Running \cup {c} /\ c \notin Running /\ gauge' = gauge + 1
    BY <1>1, <1>3 DEF Accept, Set, Running
  <2>2. Cardinality(Running') = Cardinality(Running) + 1
    BY <1>1, <2>1, FS_AddElement
  <2>. QED
    BY <1>1, <2>1, <2>2 DEF Counted
<1>4. ASSUME NEW c \in Conn, Done(c), handler[c] \notin {"new", "done"} PROVE Counted'
  <2>1. Running' = Running \ {c} /\ c \in Running /\ gauge' = gauge - 1
    BY <1>1, <1>4 DEF Done, Set, Running
  <2>2. Cardinality(Running') = Cardinality(Running) - 1
    BY <1>1, <2>1, FS_RemoveElement
  <2>. QED
    BY <1>1, <2>1, <2>2 DEF Counted
<1>5. ASSUME NEW c \in Conn, NEW v \in HandlerPc \ {"new", "done"}, UNCHANGED gauge,
             handler[c] \notin {"new", "done"}, handler' = Set(handler, c, v)
      PROVE  Counted'
  <2>1. Running' = Running
    BY <1>1, <1>5 DEF Set, Running
  <2>. QED
    BY <1>1, <1>5, <2>1 DEF Counted
<1>6. ASSUME NEW c \in Conn,
             (\E p \in Rest : Handshake(c, <<"/">> \o p)) \/ Handling(c) \/ SendClose(c)
      PROVE  Counted'
  BY <1>4, <1>5, <1>6 DEF Handshake, Handling, ConnectUpstream, StartFails, SelectEnded,
     SelectShutdown, Hint, LockForClose, SendClose, HandlerPc
<1>7. CASE UNCHANGED vars
  BY <1>2, <1>7 DEF vars
<1>8. CASE Signal \/ Exit
  BY <1>2, <1>8 DEF Signal, Exit
<1>9. ASSUME NEW c \in Conn, Reading(c) \/ ProposeOk(c) \/ ProposeErr(c) PROVE Counted'
  BY <1>2, <1>9 DEF Reading, ReadClient, ClientEnded, SendUpstream, SendUpstreamFails,
     ProposeOk, ProposeErr, ToInbound
<1>10. ASSUME NEW c \in Conn, Relaying(c) \/ Relay(c) \/ RelayFails(c) PROVE Counted'
  BY <1>2, <1>10 DEF Relaying, ReadUpstream, UpstreamEnded, LockForRelay, Relay, RelayFails,
     Released
<1>11. ASSUME NEW c \in Conn,
              \/ \E m \in {"write", "read_op"} : ClientSends(c, m)
              \/ ClientCloses(c) \/ ClientLost(c)
              \/ UpstreamAnswers(c) \/ UpstreamCloses(c) \/ UpstreamLost(c)
       PROVE  Counted'
  BY <1>2, <1>11 DEF ClientSends, ClientCloses, ClientLost, UpstreamAnswers, UpstreamCloses,
     UpstreamLost, Outside
<1>. QED
  BY <1>3, <1>6, <1>7, <1>8, <1>9, <1>10, <1>11 DEF Next

(* What the steps of a connection c leave alone.                           *)
Kept(d) ==
  /\ got'[d] = got[d] /\ down'[d] = down[d]
  /\ answers'[d] = answers[d] /\ upstream'[d] = upstream[d]

LEMMA RelayKept ==
  ASSUME NEW d \in Conn, RelayInv(d), Kept(d), outbound[d] = "done" => outbound'[d] = "done"
  PROVE  RelayInv(d)'
  BY DEF RelayInv, Kept

LEMMA TaskStep ==
  ASSUME Inv, [Next]_vars, NEW d \in Conn
  PROVE  TaskInv(d)' /\ RouteInv(d)'
<1>1. TypeInv /\ TaskInv(d) /\ RouteInv(d)
  BY DEF Inv
<1> USE DEF TaskInv, RouteInv, Set, ends, tasks
<1>2. CASE UNCHANGED vars \/ Signal \/ Exit
  BY <1>1, <1>2 DEF vars, Signal, Exit
<1>3. ASSUME NEW c \in Conn, Accept(c) \/ Handling(c) \/ SendClose(c)
      PROVE  TaskInv(d)' /\ RouteInv(d)'
  <2>1. CASE ConnectUpstream(c) \/ StartFails(c)
    BY <1>1, <2>1 DEF ConnectUpstream, StartFails, Done, Forget, TypeInv
  <2>2. CASE Accept(c) \/ SelectEnded(c) \/ SelectShutdown(c) \/ Hint(c)
    BY <1>1, <2>2 DEF Accept, SelectEnded, SelectShutdown, Hint, Done, TypeInv
  <2>3. CASE LockForClose(c) \/ SendClose(c)
    BY <1>1, <2>3 DEF LockForClose, SendClose, Done, TypeInv
  <2>. QED
    BY <1>3, <2>1, <2>2, <2>3 DEF Handling
<1>4. ASSUME NEW c \in Conn, NEW p, Handshake(c, p)
      PROVE  TaskInv(d)' /\ RouteInv(d)'
  BY <1>1, <1>4 DEF Handshake, TypeInv
<1>5. ASSUME NEW c \in Conn, Reading(c) \/ ProposeOk(c) \/ ProposeErr(c)
      PROVE  TaskInv(d)' /\ RouteInv(d)'
  BY <1>1, <1>5 DEF Reading, ReadClient, ClientEnded, SendUpstream, SendUpstreamFails,
     ProposeOk, ProposeErr, ToInbound
<1>6. ASSUME NEW c \in Conn, Relaying(c) \/ Relay(c) \/ RelayFails(c)
      PROVE  TaskInv(d)' /\ RouteInv(d)'
  <2>1. CASE Relaying(c)
    BY <1>1, <2>1 DEF Relaying, ReadUpstream, UpstreamEnded, LockForRelay, TypeInv
  <2>2. CASE Relay(c) \/ RelayFails(c)
    BY <1>1, <2>2 DEF Relay, RelayFails, Released, TypeInv
  <2>. QED
    BY <1>6, <2>1, <2>2
<1>7. ASSUME NEW c \in Conn,
             \/ \E m \in {"write", "read_op"} : ClientSends(c, m)
             \/ ClientCloses(c) \/ ClientLost(c) \/ UpstreamLost(c)
      PROVE  TaskInv(d)' /\ RouteInv(d)'
  BY <1>1, <1>7 DEF ClientSends, ClientCloses, ClientLost, UpstreamLost, Outside
<1>8. ASSUME NEW c \in Conn, UpstreamAnswers(c) \/ UpstreamCloses(c)
      PROVE  TaskInv(d)' /\ RouteInv(d)'
  <2>1. down[c] \in Seq(Nat) /\ answers[c] + 1 \in Nat /\ Close \in Nat
    BY <1>1, SMT DEF TypeInv, Close
  <2>2. ASSUME NEW v \in Nat PROVE Append(down[c], v) # <<>>
    <3>1. Len(Append(down[c], v)) = Len(down[c]) + 1 /\ Len(down[c]) \in Nat
      BY <2>1, AppendProperties, SMT
    <3>2. Len(Append(down[c], v)) # 0
      BY <3>1
    <3>3. Len(<<>>) = 0
      OBVIOUS
    <3>. QED
      BY <3>2, <3>3
  <2>3. CASE UpstreamAnswers(c)
    BY <1>1, <2>1, <2>2, <2>3 DEF UpstreamAnswers, Outside, TypeInv
  <2>4. CASE UpstreamCloses(c)
    BY <1>1, <2>1, <2>2, <2>4 DEF UpstreamCloses, Outside, TypeInv
  <2>. QED
    BY <1>8, <2>3, <2>4
<1>. QED
  BY <1>2, <1>3, <1>4, <1>5, <1>6, <1>7, <1>8 DEF Next

LEMMA RelayStep ==
  ASSUME Inv, [Next]_vars, NEW d \in Conn
  PROVE  RelayInv(d)'
<1>1. TypeInv /\ TaskInv(d) /\ RelayInv(d)
  BY DEF Inv
<1>2. got[d] \in Seq(Nat) /\ down[d] \in Seq(Nat) /\ answers[d] \in Nat
  BY <1>1 DEF TypeInv
<1>3. CASE UNCHANGED <<got, down, answers, upstream, outbound>>
  BY <1>1, <1>3, RelayKept DEF Kept
<1>4. ASSUME NEW c \in Conn, UNCHANGED <<got, down, answers, upstream>>, NEW v,
             outbound' = Set(outbound, c, v), outbound[c] # "done"
      PROVE  RelayInv(d)'
  <2>1. outbound[d] = "done" => outbound'[d] = "done"
    BY <1>1, <1>4 DEF Set, TypeInv
  <2>. QED
    BY <1>1, <1>4, <2>1, RelayKept DEF Kept
<1>5. CASE UNCHANGED vars \/ Signal \/ Exit
  BY <1>3, <1>5 DEF vars, Signal, Exit, ends, tasks
<1>6. ASSUME NEW c \in Conn, Accept(c) \/ Handling(c) PROVE RelayInv(d)'
  <2>1. CASE ConnectUpstream(c)
    <3>1. outbound[c] # "done"
      BY <2>1 DEF Inv, TaskInv, ConnectUpstream
    <3>. QED
      BY <1>4, <2>1, <3>1 DEF ConnectUpstream, ends
  <2>2. CASE ~ ConnectUpstream(c)
    BY <1>3, <1>6, <2>2 DEF Accept, Handling, StartFails, SelectEnded, SelectShutdown, Hint,
       LockForClose, ends, tasks
  <2>. QED
    BY <2>1, <2>2
<1>7. ASSUME NEW c \in Conn, NEW p, Handshake(c, p) PROVE RelayInv(d)'
  BY <1>3, <1>7 DEF Handshake, ends, tasks
<1>8. ASSUME NEW c \in Conn, Reading(c) \/ ProposeOk(c) \/ ProposeErr(c) PROVE RelayInv(d)'
  BY <1>3, <1>8 DEF Reading, ReadClient, ClientEnded, SendUpstream, SendUpstreamFails,
     ProposeOk, ProposeErr, ToInbound, ends
<1>9. ASSUME NEW c \in Conn, Relaying(c) PROVE RelayInv(d)'
  BY <1>4, <1>9 DEF Relaying, ReadUpstream, UpstreamEnded, LockForRelay, ends
<1>10. ASSUME NEW c \in Conn,
              \/ \E m \in {"write", "read_op"} : ClientSends(c, m)
              \/ ClientCloses(c) \/ ClientLost(c)
       PROVE  RelayInv(d)'
  BY <1>3, <1>10 DEF ClientSends, ClientCloses, ClientLost, Outside, tasks
<1>11. ASSUME NEW c \in Conn, c # d,
              \/ SendClose(c) \/ Relay(c) \/ RelayFails(c)
              \/ UpstreamAnswers(c) \/ UpstreamCloses(c) \/ UpstreamLost(c)
       PROVE  RelayInv(d)'
  <2>1. Kept(d) /\ outbound'[d] = outbound[d]
    BY <1>1, <1>11 DEF Kept, TypeInv, SendClose, Relay, RelayFails, Released, UpstreamAnswers,
       UpstreamCloses, UpstreamLost, Outside, Set, ends, tasks
  <2>. QED
    BY <1>1, <2>1, RelayKept
<1>12. CASE SendClose(d)
  <2>1. CASE UNCHANGED got
    BY <1>3, <2>1, <1>12 DEF SendClose, ends, tasks
  <2>2. CASE ~ UNCHANGED got
    <3>1. ~ Has(got[d], Close) /\ got'[d] = Append(got[d], Close) /\ Close \in Nat
      BY <1>1, <1>12, <2>2 DEF SendClose, Set, TypeInv, Close
    <3>2. InOrder(got'[d]) /\ Has(got'[d], Close)
      BY <1>1, <1>2, <3>1, InOrderAppend DEF RelayInv
    <3>. QED
      BY <3>2 DEF RelayInv
  <2>. QED
    BY <2>1, <2>2
<1>13. CASE Relay(d)
  <2>1. /\ ~ Has(got[d], Close) /\ outbound[d] # "done" /\ down[d] # <<>>
        /\ got'[d] = Append(got[d], Head(down[d])) /\ down'[d] = Tail(down[d])
        /\ answers'[d] = answers[d] /\ upstream'[d] = upstream[d]
    BY <1>1, <1>13 DEF Relay, Released, Set, TypeInv, TaskInv
  <2>2. InOrder(got[d]) /\ Pending(got[d], down[d], upstream[d], answers[d])
    BY <1>1, <2>1 DEF RelayInv
  <2>. QED
    BY <1>2, <2>1, <2>2, PendingRelay DEF RelayInv
<1>14. CASE RelayFails(d)
  <2>1. outbound'[d] = "done" /\ got'[d] = got[d]
    BY <1>1, <1>14 DEF RelayFails, Released, Set, TypeInv
  <2>. QED
    BY <1>1, <2>1 DEF RelayInv
<1>15. CASE UpstreamAnswers(d)
  <2>1. /\ upstream[d] = "open" /\ upstream'[d] = "open" /\ outbound'[d] = outbound[d]
        /\ got'[d] = got[d] /\ answers'[d] = answers[d] + 1
        /\ down'[d] = Append(down[d], answers[d] + 1)
    BY <1>1, <1>15 DEF UpstreamAnswers, Outside, Set, TypeInv, tasks
  <2>. QED
    BY <1>1, <1>2, <2>1, PendingAnswer DEF RelayInv
<1>16. CASE UpstreamCloses(d)
  <2>1. /\ upstream[d] = "open" /\ upstream'[d] = "closed" /\ outbound'[d] = outbound[d]
        /\ got'[d] = got[d] /\ answers'[d] = answers[d]
        /\ down'[d] = Append(down[d], Close)
    BY <1>1, <1>16 DEF UpstreamCloses, Outside, Set, TypeInv, tasks
  <2>. QED
    BY <1>1, <1>2, <2>1, PendingClose DEF RelayInv
<1>17. CASE UpstreamLost(d)
  <2>1. /\ upstream[d] = "open" /\ upstream'[d] = "lost" /\ outbound'[d] = outbound[d]
        /\ got'[d] = got[d] /\ down'[d] = down[d]
    BY <1>1, <1>17 DEF UpstreamLost, Outside, Set, TypeInv, tasks
  <2>. QED
    BY <1>1, <2>1 DEF RelayInv, Pending
<1>. QED
  BY <1>5, <1>6, <1>7, <1>8, <1>9, <1>10, <1>11, <1>12, <1>13, <1>14, <1>15, <1>16, <1>17
  DEF Next

-----------------------------------------------------------------------------
(* The theorems.                                                           *)

(* Inv is an inductive invariant of the connections: every step of         *)
(* handle_client and of its two tasks keeps it.                            *)
THEOREM Invariance == Spec => []Inv
<1>1. Inv /\ [Next]_vars => Inv'
  BY TypeStep, CountStep, TaskStep, RelayStep DEF Inv
<1>. QED
  BY InitInv, <1>1, PTL DEF Spec

(* Every variable keeps its type, and CONNECTIONS_ACTIVE is the number of  *)
(* running handlers however handle_client_inner returns.                   *)
THEOREM ConnectionTypeCorrect == Spec => []TypeOK
<1>1. Inv => TypeOK
  <2> SUFFICES ASSUME Inv PROVE TypeOK
    OBVIOUS
  <2>1. TypeInv /\ gauge = Cardinality({c \in Conn : handler[c] \notin {"new", "done"}})
    BY DEF Inv, Counted, Running
  <2>2. ASSUME NEW c \in Conn PROVE TaskInv(c)
    BY DEF Inv
  <2>. QED
    BY <2>1, <2>2 DEF TypeInv, TaskInv, TypeOK, HandlerPc, InboundPc, OutboundPc
<1>. QED
  BY Invariance, <1>1, PTL

(* The client receives what SpacetimeDB sent, in order and without gaps,   *)
(* and nothing behind a Close, whichever of the two tasks sent it.         *)
THEOREM RelayCorrect == Spec => []RelayInOrder
<1>1. Inv => RelayInOrder
  BY DEF Inv, RelayInv, InOrder, RelayInOrder
<1>. QED
  BY Invariance, <1>1, PTL

(* extract_module_name finds the module that the path names, for paths of  *)
(* any length, and none only if no part of the path is a name.             *)
THEOREM RouteCorrect == Spec => []RoutedByName
<1>1. Inv => RoutedByName
  <2> SUFFICES ASSUME Inv, NEW c \in Conn, path[c] # <<>>
               PROVE  IF module[c] = NoModule
                      THEN \A i, j \in DOMAIN path[c] : ~ Names(path[c], SubSeq(path[c], i, j))
                      ELSE Names(path[c], module[c])
    BY DEF RoutedByName
  <2>1. path[c] \in Seq(Token) /\ module[c] = extract_module_name(path[c])
    BY DEF Inv, TypeInv, RouteInv
  <2>2. \A nm : Names(path[c], nm) => module[c] = nm /\ nm \in Seq(Token)
    BY <2>1, NamedIsExtracted
  <2>. QED
    BY <2>1, <2>2, ExtractedIsNamed, ConnectionAssumption
<1>. QED
  BY Invariance, <1>1, PTL
=============================================================================
