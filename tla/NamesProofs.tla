----------------------------- MODULE NamesProofs -----------------------------
(***************************************************************************)
(* Proofs about the names of the proxy containers, for every limit,        *)
(* prefix, namespace, set of resources and checksum function.              *)
(***************************************************************************)
EXTENDS Names, TLAPS, SequenceTheorems, WellFoundedInduction

-----------------------------------------------------------------------------
(***************************************************************************)
(* The printed checksum                                                    *)
(***************************************************************************)

\* A set of naturals that is not empty has a least element.
LEMMA LeastNatural ==
  ASSUME NEW S, S \subseteq Nat, S # {}
  PROVE  \E n \in S : \A m \in S : n <= m
  <1>1. PICK n \in S : \A m \in S : ~(<<m, n>> \in OpToRel(<, Nat))
    BY WFMin, NatLessThanWellFounded
  <1>2. \A m \in S : ~(m < n)
    BY <1>1 DEF OpToRel
  <1>3. QED
    BY <1>2

\* A number is its last digit and the number that the others stand for, which is
\* smaller.
LEMMA Division ==
  ASSUME NEW n \in Nat
  PROVE  /\ n \div Base \in Nat
         /\ n % Base \in Digits
         /\ n = (Base * (n \div Base)) + (n % Base)
         /\ n >= Base => n \div Base < n
  <1>1. Base \in Nat /\ Base >= 2
    BY BaseAssumption
  <1>2. n \div Base \in Int /\ n % Base \in Int
    BY <1>1
  <1>3. n = (Base * (n \div Base)) + (n % Base)
    BY <1>1
  <1>4. n % Base >= 0 /\ n % Base < Base
    BY <1>1
  <1>5. n \div Base >= 0
    BY <1>1, <1>2
  <1>6. n >= Base => n \div Base < n
    BY <1>1, <1>2, <1>3, <1>4, <1>5
  <1>7. QED
    BY <1>1, <1>2, <1>3, <1>4, <1>5, <1>6 DEF Digits

\* What Printed makes of n when g has printed the smaller numbers.
PrintedBy(g, n) == IF n < Base THEN <<n>> ELSE Append(g[n \div Base], n % Base)

\* g prints the numbers up to n.
PrintsTo(g, n) == g = [i \in 0..n |-> PrintedBy(g, i)]

\* Two functions that print agree.
LEMMA PrintsAlike ==
  ASSUME NEW m \in Nat, NEW n \in Nat, NEW g, NEW h, PrintsTo(g, m), PrintsTo(h, n)
  PROVE  \A i \in Nat : i <= m /\ i <= n => g[i] = h[i]
  <1> DEFINE Wrong == {i \in Nat : i <= m /\ i <= n /\ g[i] # h[i]}
  <1>1. SUFFICES ASSUME Wrong # {} PROVE FALSE
    OBVIOUS
  <1>2. PICK i \in Wrong : \A j \in Wrong : i <= j
    BY <1>1, LeastNatural
  <1>3. i \in Nat /\ i \in 0..m /\ i \in 0..n /\ g[i] # h[i]
    BY <1>2
  <1>4. g[i] = PrintedBy(g, i)
    BY <1>3 DEF PrintsTo
  <1>5. h[i] = PrintedBy(h, i)
    BY <1>3 DEF PrintsTo
  <1>6. i >= Base => g[i \div Base] = h[i \div Base]
    <2>1. SUFFICES ASSUME i >= Base, g[i \div Base] # h[i \div Base] PROVE FALSE
      OBVIOUS
    <2>2. i \div Base \in Nat /\ i \div Base < i
      BY <1>3, <2>1, Division
    <2>3. i \div Base \in Wrong
      BY <1>3, <2>1, <2>2
    <2>4. QED
      BY <1>2, <1>3, <2>2, <2>3
  <1>7. PrintedBy(g, i) = PrintedBy(h, i)
    BY <1>3, <1>6, BaseAssumption DEF PrintedBy
  <1>8. QED
    BY <1>3, <1>4, <1>5, <1>7

\* However far one wants to print, there is a function that does.
LEMMA PrintsSomewhere ==
  \A n \in Nat : \E g : PrintsTo(g, n)
  <1> DEFINE Wrong == {n \in Nat : ~\E g : PrintsTo(g, n)}
  <1>1. SUFFICES ASSUME Wrong # {} PROVE FALSE
    OBVIOUS
  <1>2. PICK n \in Wrong : \A j \in Wrong : n <= j
    BY <1>1, LeastNatural
  <1>3. n \in Nat /\ ~\E g : PrintsTo(g, n)
    BY <1>2
  <1>4. Base \in Nat /\ Base >= 2
    BY BaseAssumption
  <1>5. PICK f : \A i \in 0..n : i < n => f[i] = PrintedBy(f, i)
    <2>1. CASE n = 0
      BY <2>1
    <2>2. CASE n # 0
      <3>1. n - 1 \in Nat /\ n - 1 \notin Wrong
        BY <1>2, <1>3, <2>2
      <3>2. PICK g : PrintsTo(g, n - 1)
        BY <3>1
      <3>3. ASSUME NEW i \in 0..n, i < n
            PROVE  g[i] = PrintedBy(g, i)
        <4>1. i \in 0..(n - 1)
          BY <1>3, <3>3
        <4>2. QED
          BY <3>2, <4>1 DEF PrintsTo
      <3>4. QED
        BY <3>3
    <2>3. QED
      BY <2>1, <2>2
  <1> DEFINE g == [i \in 0..n |-> PrintedBy(f, i)]
  <1>6. ASSUME NEW i \in 0..n
        PROVE  PrintedBy(f, i) = PrintedBy(g, i)
    <2>1. CASE i < Base
      BY <2>1 DEF PrintedBy
    <2>2. CASE ~(i < Base)
      <3>1. i \in Nat /\ i \div Base \in Nat /\ i \div Base < i
        BY <1>4, <2>2, Division
      <3>2. i \div Base \in 0..n /\ i \div Base < n
        BY <1>3, <3>1
      <3>3. f[i \div Base] = PrintedBy(f, i \div Base)
        BY <1>5, <3>2
      <3>4. g[i \div Base] = PrintedBy(f, i \div Base)
        BY <3>2
      <3>5. f[i \div Base] = g[i \div Base]
        BY <3>3, <3>4
      <3> HIDE DEF g
      <3>6. QED
        BY <2>2, <3>5 DEF PrintedBy
    <2>3. QED
      BY <2>1, <2>2
  <1>7. g = [i \in 0..n |-> PrintedBy(g, i)]
    BY <1>6
  <1>8. PrintsTo(g, n)
    BY <1>7 DEF PrintsTo
  <1>9. QED
    BY <1>3, <1>8

\* Printed is well defined: it satisfies the equation that defines it.
LEMMA PrintedIs ==
  \A n \in Nat : Printed[n] = IF n < Base THEN <<n>> ELSE Append(Printed[n \div Base], n % Base)
  <1> DEFINE G(n) == CHOOSE g : PrintsTo(g, n)
             F == [n \in Nat |-> G(n)[n]]
  <1>1. \A n \in Nat : PrintsTo(G(n), n)
    BY PrintsSomewhere
  <1>2. ASSUME NEW n \in Nat
        PROVE  F[n] = PrintedBy(F, n)
    <2>1. n \in 0..n
      OBVIOUS
    <2>2. G(n)[n] = PrintedBy(G(n), n)
      BY <1>1, <2>1 DEF PrintsTo
    <2>3. n >= Base => G(n)[n \div Base] = F[n \div Base]
      <3>1. SUFFICES ASSUME n >= Base PROVE G(n)[n \div Base] = F[n \div Base]
        OBVIOUS
      <3>2. n \div Base \in Nat /\ n \div Base < n
        BY <3>1, Division
      <3>3. PrintsTo(G(n), n) /\ PrintsTo(G(n \div Base), n \div Base)
        BY <1>1, <3>2
      <3>4. F[n \div Base] = G(n \div Base)[n \div Base]
        BY <3>2
      <3> HIDE DEF G, F
      <3>5. G(n)[n \div Base] = G(n \div Base)[n \div Base]
        BY <3>2, <3>3, PrintsAlike
      <3>6. QED
        BY <3>4, <3>5
    <2>4. F[n] = G(n)[n]
      OBVIOUS
    <2> HIDE DEF G, F
    <2>5. PrintedBy(G(n), n) = PrintedBy(F, n)
      BY <2>3, BaseAssumption DEF PrintedBy
    <2>6. QED
      BY <2>2, <2>4, <2>5
  <1>3. F = [n \in Nat |-> PrintedBy(F, n)]
    BY <1>2
  <1> HIDE DEF F
  <1>4. F = [n \in Nat |-> IF n < Base THEN <<n>> ELSE Append(F[n \div Base], n % Base)]
    BY <1>3 DEF PrintedBy
  <1>5. Printed = [n \in Nat |->
                     IF n < Base THEN <<n>> ELSE Append(Printed[n \div Base], n % Base)]
    BY <1>4 DEF Printed
  <1>6. QED
    BY <1>5

\* A printed number is a string of digits, with more than one when it has to.
LEMMA PrintedType ==
  \A n \in Nat : /\ Printed[n] \in Seq(Digits)
                 /\ Len(Printed[n]) >= 1
                 /\ n >= Base => Len(Printed[n]) >= 2
  <1> DEFINE Right(n) == /\ Printed[n] \in Seq(Digits)
                         /\ Len(Printed[n]) >= 1
                         /\ n >= Base => Len(Printed[n]) >= 2
             Wrong == {n \in Nat : ~Right(n)}
  <1>1. SUFFICES ASSUME Wrong # {} PROVE FALSE
    OBVIOUS
  <1>2. PICK n \in Wrong : \A j \in Wrong : n <= j
    BY <1>1, LeastNatural
  <1>3. n \in Nat
    BY <1>2
  <1>4. Base \in Nat /\ Base >= 2
    BY BaseAssumption
  <1>5. ~Right(n)
    BY <1>2
  <1>6. CASE n < Base
    <2> HIDE DEF Right, Wrong
    <2>1. Printed[n] = <<n>>
      BY <1>3, <1>6, PrintedIs
    <2>2. n \in Digits
      BY <1>3, <1>4, <1>6 DEF Digits
    <2>3. <<n>> \in Seq(Digits) /\ Len(<<n>>) = 1
      BY <2>2
    <2>4. Right(n)
      BY <1>3, <1>4, <1>6, <2>1, <2>3 DEF Right
    <2>5. QED
      BY <1>5, <2>4
  <1>7. CASE ~(n < Base)
    <2>1. Right(n \div Base)
      <3> HIDE DEF Right
      <3>1. n \div Base \in Nat /\ n \div Base < n
        BY <1>3, <1>4, <1>7, Division
      <3>2. QED
        BY <1>2, <1>3, <3>1
    <2> HIDE DEF Right, Wrong
    <2>2. n % Base \in Digits
      BY <1>3, Division
    <2>3. Printed[n \div Base] \in Seq(Digits) /\ Len(Printed[n \div Base]) >= 1
      BY <2>1 DEF Right
    <2>4. Printed[n] = Append(Printed[n \div Base], n % Base)
      BY <1>3, <1>7, PrintedIs
    <2>5. Printed[n] \in Seq(Digits) /\ Len(Printed[n]) = Len(Printed[n \div Base]) + 1
      BY <2>2, <2>3, <2>4, AppendProperties
    <2>6. Len(Printed[n \div Base]) \in Nat
      BY <2>3, LenProperties
    <2>7. Right(n)
      BY <2>3, <2>5, <2>6 DEF Right
    <2>8. QED
      BY <1>5, <2>7
  <1>8. QED
    BY <1>6, <1>7

\* Different numbers are printed differently.
LEMMA PrintedInjective ==
  ASSUME NEW m \in Nat, NEW n \in Nat, Printed[m] = Printed[n]
  PROVE  m = n
  <1> DEFINE Wrong == {i \in Nat : \E j \in Nat : Printed[i] = Printed[j] /\ i # j}
  <1>1. SUFFICES ASSUME Wrong # {} PROVE FALSE
    OBVIOUS
  <1>2. PICK i \in Wrong : \A k \in Wrong : i <= k
    BY <1>1, LeastNatural
  <1>3. PICK j \in Nat : Printed[i] = Printed[j] /\ i # j
    BY <1>2
  <1>4. i \in Nat /\ Base \in Nat /\ Base >= 2
    BY <1>2, BaseAssumption
  <1>5. i < Base <=> j < Base
    <2>1. \A k \in Nat : k < Base => Len(Printed[k]) = 1
      <3>1. ASSUME NEW k \in Nat, k < Base
            PROVE  Len(Printed[k]) = 1
        <4>1. Printed[k] = <<k>>
          BY <3>1, PrintedIs
        <4>2. QED
          BY <4>1
      <3>2. QED
        BY <3>1
    <2>2. \A k \in Nat : k >= Base => Len(Printed[k]) >= 2
      BY PrintedType
    <2>3. i \in Nat /\ j \in Nat /\ Printed[i] = Printed[j]
      BY <1>3, <1>4
    <2> HIDE DEF Wrong
    <2>4. Len(Printed[i]) = Len(Printed[j])
      BY <2>3
    <2>5. ASSUME i < Base, ~(j < Base) PROVE FALSE
      <3>1. Len(Printed[i]) = 1 /\ Len(Printed[j]) >= 2
        BY <1>4, <2>1, <2>2, <2>3, <2>5
      <3>2. QED
        BY <2>4, <3>1
    <2>6. ASSUME j < Base, ~(i < Base) PROVE FALSE
      <3>1. Len(Printed[j]) = 1 /\ Len(Printed[i]) >= 2
        BY <1>4, <2>1, <2>2, <2>3, <2>6
      <3>2. QED
        BY <2>4, <3>1
    <2>7. QED
      BY <2>5, <2>6
  <1>6. CASE i < Base
    <2>1. Printed[i] = <<i>> /\ Printed[j] = <<j>>
      BY <1>4, <1>5, <1>6, PrintedIs
    <2>2. <<i>>[1] = i /\ <<j>>[1] = j
      OBVIOUS
    <2>3. QED
      BY <1>3, <2>1, <2>2
  <1>7. CASE ~(i < Base)
    <2>1. /\ Printed[i] = Append(Printed[i \div Base], i % Base)
          /\ Printed[j] = Append(Printed[j \div Base], j % Base)
      BY <1>4, <1>5, <1>7, PrintedIs
    <2>2. /\ i \div Base \in Nat /\ i % Base \in Digits /\ i \div Base < i
          /\ j \div Base \in Nat /\ j % Base \in Digits
      BY <1>4, <1>7, Division
    <2>3. Printed[i \div Base] \in Seq(Digits) /\ Printed[j \div Base] \in Seq(Digits)
      BY <2>2, PrintedType
    <2>4. Printed[i \div Base] = Printed[j \div Base] /\ i % Base = j % Base
      <3> DEFINE p == Printed[i \div Base]
                 q == Printed[j \div Base]
                 d == i % Base
                 e == j % Base
      <3>1. p \in Seq(Digits) /\ q \in Seq(Digits) /\ d \in Digits /\ e \in Digits
        BY <2>2, <2>3
      <3>2. Append(p, d) = Append(q, e)
        BY <1>3, <2>1
      <3> HIDE DEF Wrong, p, q, d, e
      <3>3. p = q /\ d = e
        BY <3>1, <3>2, AppendInjective
      <3>4. QED
        BY <3>3 DEF p, q, d, e
    <2>5. i \div Base \notin Wrong
      BY <1>2, <1>4, <2>2
    <2>6. i \div Base = j \div Base
      BY <2>2, <2>4, <2>5
    <2>7. QED
      BY <1>3, <1>4, <2>4, <2>6, Division
  <1>8. QED
    BY <1>6, <1>7

-----------------------------------------------------------------------------
(***************************************************************************)
(* The two forms of a name                                                 *)
(***************************************************************************)

\* What a name is made of: C is the characters of a resource's name, with the
\* dot or without.
Alphabet(C) == Alnum \cup {Dash} \subseteq C /\ C \subseteq Alnum \cup {Dash, Dot}

\* The digits of the checksum are characters of names.
LEMMA PrintedAlnum ==
  ASSUME NEW n \in Nat
  PROVE  Printed[n] \in Seq(Alnum) /\ Len(Printed[n]) >= 1
  <1>1. Printed[n] \in Seq(Digits) /\ Len(Printed[n]) >= 1
    BY PrintedType
  <1>2. Digits \subseteq Alnum
    BY BaseAssumption DEF Digits, Alnum
  <1>3. QED
    BY <1>1, <1>2, SeqMonotonic

\* Characters are below the upper case ones, so there is nothing to lower.
LEMMA ToLowerKeeps ==
  ASSUME NEW C, Alphabet(C), NEW s \in Seq(C)
  PROVE  ToLower(s) = s
  <1>1. s \in [1..Len(s) -> C] /\ DOMAIN s = 1..Len(s)
    BY LenProperties
  <1>2. \A c \in C : c \in Int /\ ~(c >= Letters)
    BY BaseAssumption DEF Alphabet, Alnum, Dash, Dot
  <1>3. \A i \in DOMAIN s : ~(s[i] >= Letters)
    BY <1>1, <1>2
  <1>4. QED
    BY <1>1, <1>3 DEF ToLower

\* Namespace, dash and name.
LEMMA InstNameType ==
  ASSUME NEW C, Alphabet(C), NEW n \in ResourceNames, n \in Seq(C)
  PROVE  /\ InstName(n) \in Seq(C)
         /\ Len(InstName(n)) >= 1
         /\ IsAlnum(InstName(n)[Len(InstName(n))])
  <1>1. /\ Namespace \in Seq(Alnum \cup {Dash}) /\ n # <<>> /\ IsAlnum(n[Len(n)])
    BY NamesAssumption
  <1>2. Namespace \in Seq(C)
    BY <1>1, SeqMonotonic DEF Alphabet
  <1>3. <<Dash>> \in Seq(C) /\ Len(<<Dash>>) = 1
    BY DEF Alphabet
  <1> DEFINE d == <<Dash>>
             s == Namespace \o d
  <1>4. d \in Seq(C) /\ Len(d) = 1
    BY <1>3
  <1> HIDE DEF d
  <1>5. s \in Seq(C)
    BY <1>2, <1>4, ConcatProperties
  <1> HIDE DEF s
  <1>6. /\ s \o n \in Seq(C) /\ Len(s \o n) = Len(s) + Len(n)
        /\ \A i \in 1..Len(s) + Len(n) :
              (s \o n)[i] = IF i <= Len(s) THEN s[i] ELSE n[i - Len(s)]
    BY <1>5, ConcatProperties
  <1>7. Len(s) \in Nat /\ Len(n) \in Nat \ {0}
    BY <1>1, <1>5, LenProperties, EmptySeq
  <1>8. (s \o n)[Len(s) + Len(n)] = n[Len(n)]
    BY <1>6, <1>7
  <1>9. InstName(n) = s \o n
    BY DEF InstName, s, d
  <1>10. QED
    BY <1>1, <1>6, <1>7, <1>8, <1>9

\* A dash and the checksum.
LEMMA HashSuffixType ==
  ASSUME NEW n \in ResourceNames
  PROVE  /\ mustHash(InstName(n)) \in Nat
         /\ hashSuffix(InstName(n)) \in Seq(Alnum \cup {Dash})
         /\ Len(hashSuffix(InstName(n))) >= 2
         /\ IsAlnum(hashSuffix(InstName(n))[Len(hashSuffix(InstName(n)))])
         /\ Len(ContainerPrefix) + Len(hashSuffix(InstName(n))) <= maxNameLen
  <1> DEFINE p == Printed[mustHash(InstName(n))]
             d == <<Dash>>
  <1>1. /\ mustHash(InstName(n)) \in Nat
        /\ Len(ContainerPrefix) + Len(hashSuffix(InstName(n))) <= maxNameLen
    BY ChecksumAssumption
  <1>2. p \in Seq(Alnum) /\ Len(p) >= 1
    BY <1>1, PrintedAlnum
  <1>3. d \in Seq(Alnum \cup {Dash}) /\ Len(d) = 1
    OBVIOUS
  <1>4. hashSuffix(InstName(n)) = d \o p
    BY DEF hashSuffix
  <1> HIDE DEF p, d
  <1>5. p \in Seq(Alnum \cup {Dash})
    BY <1>2, SeqMonotonic
  <1>6. /\ d \o p \in Seq(Alnum \cup {Dash})
        /\ Len(d \o p) = Len(d) + Len(p)
        /\ \A i \in 1..Len(d) + Len(p) :
              (d \o p)[i] = IF i <= Len(d) THEN d[i] ELSE p[i - Len(d)]
    BY <1>3, <1>5, ConcatProperties
  <1>7. Len(p) \in Nat
    BY <1>2, LenProperties
  <1>8. (d \o p)[Len(d) + Len(p)] = p[Len(p)]
    BY <1>2, <1>3, <1>6, <1>7
  <1>9. p[Len(p)] \in Alnum
    BY <1>2, <1>7, ElementOfSeq
  <1>10. QED
    BY <1>1, <1>2, <1>3, <1>4, <1>6, <1>7, <1>8, <1>9 DEF IsAlnum

\* A name that fits is kept.
LEMMA ShortName ==
  ASSUME NEW C, Alphabet(C), NEW n \in ResourceNames, n \in Seq(C), ~Shortened(n)
  PROVE  ContainerName(n) = ContainerPrefix \o InstName(n)
  <1>1. InstName(n) \in Seq(C)
    BY InstNameType
  <1>2. ContainerPrefix \in Seq(Alnum \cup {Dash})
    BY NamesAssumption
  <1>3. ContainerPrefix \in Seq(C)
    BY <1>2, SeqMonotonic DEF Alphabet
  <1>4. ContainerPrefix \o InstName(n) \in Seq(C)
    BY <1>1, <1>3, ConcatProperties
  <1>5. ContainerName(n) = ToLower(ContainerPrefix \o InstName(n))
    BY DEF ContainerName, SafePrefixedName, Shortened
  <1>6. QED
    BY <1>4, <1>5, ToLowerKeeps

\* The two cuts of a name that does not fit lie inside it, and what is left fits.
LEMMA Cuts ==
  ASSUME NEW C, Alphabet(C), NEW n \in ResourceNames, n \in Seq(C), Shortened(n)
  PROVE  LET s == InstName(n)
             t == truncateLen(ContainerPrefix, s)
             m == SubSeq(s, 1, t) \o SubSeq(s, Len(s) - t + 1, Len(s))
         IN /\ m \in Seq(C)
            /\ Len(ContainerPrefix) + Len(m) + Len(hashSuffix(s)) <= maxNameLen
  <1> DEFINE s == InstName(n)
             t == truncateLen(ContainerPrefix, s)
             h == Len(hashSuffix(s))
             p == Len(ContainerPrefix)
             a == SubSeq(s, 1, t)
             b == SubSeq(s, Len(s) - t + 1, Len(s))
  <1>1. s \in Seq(C)
    BY InstNameType
  <1>2. Len(s) \in Nat /\ \A i \in 1..Len(s) : s[i] \in C
    BY <1>1, LenProperties, ElementOfSeq
  <1>3. p \in Nat /\ maxNameLen \in Nat
    BY NamesAssumption, BoundsAssumption, LenProperties
  <1>4. h \in Nat /\ p + h <= maxNameLen
    <2>1. hashSuffix(s) \in Seq(Alnum \cup {Dash}) /\ p + h <= maxNameLen
      BY HashSuffixType
    <2>2. QED
      BY <2>1, LenProperties
  <1>5. Len(s) + p > maxNameLen
    BY DEF Shortened, TooLong
  <1>6. t = (maxNameLen - h - p) \div 2
    BY DEF truncateLen
  <1> HIDE DEF s, t, h, p
  <1>7. t \in Nat /\ 2 * t <= maxNameLen - h - p /\ t <= Len(s)
    BY <1>2, <1>3, <1>4, <1>5, <1>6
  <1>8. a \in Seq(C) /\ Len(a) = t
    <2>1. \A i \in 1..t : s[i] \in C
      BY <1>2, <1>7
    <2>2. a \in Seq(C) /\ Len(a) = IF 1 <= t THEN t - 1 + 1 ELSE 0
      BY <1>7, <2>1, SubSeqProperties
    <2>3. QED
      BY <1>7, <2>2
  <1>9. b \in Seq(C) /\ Len(b) = t
    <2>1. Len(s) - t + 1 \in Int /\ Len(s) \in Int
      BY <1>2, <1>7
    <2>2. \A i \in (Len(s) - t + 1)..Len(s) : s[i] \in C
      BY <1>2, <1>7
    <2>3. /\ b \in Seq(C)
          /\ Len(b) = IF Len(s) - t + 1 <= Len(s) THEN Len(s) - (Len(s) - t + 1) + 1 ELSE 0
      BY <2>1, <2>2, SubSeqProperties
    <2>4. QED
      BY <1>2, <1>7, <2>3
  <1> HIDE DEF a, b
  <1>10. a \o b \in Seq(C) /\ Len(a \o b) = Len(a) + Len(b)
    BY <1>8, <1>9, ConcatProperties
  <1>11. p + Len(a \o b) + h <= maxNameLen
    BY <1>3, <1>4, <1>7, <1>8, <1>9, <1>10
  <1>12. QED
    BY <1>10, <1>11 DEF s, t, h, p, a, b

\* A name that does not fit is prefix, beginning and end, and the suffix.
LEMMA LongName ==
  ASSUME NEW C, Alphabet(C), NEW n \in ResourceNames, n \in Seq(C), Shortened(n)
  PROVE  \E m \in Seq(C) :
            /\ ContainerName(n) = ContainerPrefix \o (m \o hashSuffix(InstName(n)))
            /\ Len(ContainerPrefix) + Len(m) + Len(hashSuffix(InstName(n))) <= maxNameLen
  <1> DEFINE s == InstName(n)
             t == truncateLen(ContainerPrefix, s)
             m == SubSeq(s, 1, t) \o SubSeq(s, Len(s) - t + 1, Len(s))
             h == hashSuffix(s)
  <1>1. m \in Seq(C) /\ Len(ContainerPrefix) + Len(m) + Len(h) <= maxNameLen
    BY Cuts
  <1>2. ContainerName(n) = ToLower(ContainerPrefix \o (m \o h))
    BY DEF ContainerName, SafePrefixedName, Shortened
  <1> HIDE DEF m
  <1>3. h \in Seq(C)
    BY HashSuffixType, SeqMonotonic DEF Alphabet
  <1>4. ContainerPrefix \in Seq(C)
    BY NamesAssumption, SeqMonotonic DEF Alphabet
  <1> HIDE DEF h
  <1>5. m \o h \in Seq(C)
    BY <1>1, <1>3, ConcatProperties
  <1>6. ContainerPrefix \o (m \o h) \in Seq(C)
    BY <1>4, <1>5, ConcatProperties
  <1>7. ContainerName(n) = ContainerPrefix \o (m \o h)
    BY <1>2, <1>6, ToLowerKeeps
  <1>8. QED
    BY <1>1, <1>7 DEF h, s

-----------------------------------------------------------------------------
(***************************************************************************)
(* Names are valid                                                         *)
(***************************************************************************)

\* The first and the last character of a string put together from two.
LEMMA EndsOfConcat ==
  ASSUME NEW C, NEW s \in Seq(C), NEW t \in Seq(C), Len(s) >= 1, Len(t) >= 1
  PROVE  /\ s \o t \in Seq(C)
         /\ Len(s \o t) = Len(s) + Len(t) /\ Len(s \o t) >= 1
         /\ (s \o t)[1] = s[1]
         /\ (s \o t)[Len(s \o t)] = t[Len(t)]
  <1>1. /\ s \o t \in Seq(C)
        /\ Len(s \o t) = Len(s) + Len(t)
        /\ \A i \in 1..Len(s) + Len(t) :
              (s \o t)[i] = IF i <= Len(s) THEN s[i] ELSE t[i - Len(s)]
    BY ConcatProperties
  <1>2. Len(s) \in Nat /\ Len(t) \in Nat
    BY LenProperties
  <1>3. (s \o t)[1] = s[1] /\ (s \o t)[Len(s) + Len(t)] = t[Len(t)]
    BY <1>1, <1>2
  <1>4. QED
    BY <1>1, <1>2, <1>3

\* Both forms start with the prefix; the rest ends with a digit and fits.
LEMMA NameForm ==
  ASSUME NEW C, Alphabet(C), NEW n \in ResourceNames, n \in Seq(C)
  PROVE  \E r \in Seq(C) : /\ ContainerName(n) = ContainerPrefix \o r
                           /\ Len(r) >= 1 /\ IsAlnum(r[Len(r)])
                           /\ Len(ContainerPrefix) + Len(r) <= maxNameLen
  <1>1. Len(ContainerPrefix) \in Nat /\ maxNameLen \in Nat
    BY NamesAssumption, BoundsAssumption, LenProperties
  <1>2. CASE ~Shortened(n)
    <2>1. /\ InstName(n) \in Seq(C) /\ Len(InstName(n)) >= 1
          /\ IsAlnum(InstName(n)[Len(InstName(n))])
      BY InstNameType
    <2>2. ContainerName(n) = ContainerPrefix \o InstName(n)
      BY <1>2, ShortName
    <2>3. Len(InstName(n)) \in Nat
      BY <2>1, LenProperties
    <2>4. Len(ContainerPrefix) + Len(InstName(n)) <= maxNameLen
      BY <1>1, <1>2, <2>3 DEF Shortened, TooLong
    <2>5. QED
      BY <2>1, <2>2, <2>4
  <1>3. CASE Shortened(n)
    <2> DEFINE h == hashSuffix(InstName(n))
    <2>1. PICK m \in Seq(C) : /\ ContainerName(n) = ContainerPrefix \o (m \o h)
                              /\ Len(ContainerPrefix) + Len(m) + Len(h) <= maxNameLen
      BY <1>3, LongName
    <2>2. /\ h \in Seq(Alnum \cup {Dash}) /\ Len(h) >= 2 /\ IsAlnum(h[Len(h)])
      BY HashSuffixType
    <2> HIDE DEF h
    <2>3. h \in Seq(C)
      BY <2>2, SeqMonotonic DEF Alphabet
    <2>4. /\ m \o h \in Seq(C)
          /\ Len(m \o h) = Len(m) + Len(h)
          /\ \A i \in 1..Len(m) + Len(h) :
                (m \o h)[i] = IF i <= Len(m) THEN m[i] ELSE h[i - Len(m)]
      BY <2>3, ConcatProperties
    <2>5. Len(m) \in Nat /\ Len(h) \in Nat
      BY <2>3, LenProperties
    <2>6. (m \o h)[Len(m) + Len(h)] = h[Len(h)]
      BY <2>2, <2>4, <2>5
    <2>7. /\ Len(m \o h) >= 1 /\ IsAlnum((m \o h)[Len(m \o h)])
          /\ Len(ContainerPrefix) + Len(m \o h) <= maxNameLen
      BY <1>1, <2>1, <2>2, <2>4, <2>5, <2>6
    <2>8. QED
      BY <2>1, <2>4, <2>7
  <1>4. QED
    BY <1>2, <1>3

\* Every name has the prefix; without a dot it is a label.
LEMMA NameIsValid ==
  ASSUME NEW n \in ResourceNames
  PROVE  /\ HasPrefix(ContainerName(n), ContainerPrefix)
         /\ (\A i \in DOMAIN n : n[i] # Dot) => IsLabel(ContainerName(n))
  <1> DEFINE P == ContainerPrefix
  <1>1. /\ P \in Seq(Alnum \cup {Dash}) /\ P # <<>> /\ IsAlnum(P[1])
        /\ n \in Seq(Alnum \cup {Dash, Dot})
    BY NamesAssumption
  <1>2. Len(P) \in Nat /\ Len(P) >= 1 /\ maxNameLen \in Nat
    BY <1>1, EmptySeq, BoundsAssumption
  <1>3. HasPrefix(ContainerName(n), P)
    <2> DEFINE C == Alnum \cup {Dash, Dot}
    <2>1. Alphabet(C) /\ n \in Seq(C)
      BY <1>1 DEF Alphabet
    <2>2. P \in Seq(C)
      BY <1>1, <2>1, SeqMonotonic DEF Alphabet
    <2> HIDE DEF C
    <2>3. PICK r \in Seq(C) : ContainerName(n) = P \o r
      BY <2>1, NameForm
    <2> HIDE DEF P
    <2>4. Len(P \o r) = Len(P) + Len(r) /\ Len(r) \in Nat
      BY <2>2, ConcatProperties, LenProperties
    <2>5. SubSeq(P \o r, 1, Len(P)) = SubSeq(P, 1, Len(P))
      BY <1>2, <2>2, SubSeqOfConcat1
    <2>6. SubSeq(P, 1, Len(P)) = P
      BY <2>2, SubSeqFull
    <2>7. QED
      BY <1>2, <2>3, <2>4, <2>5, <2>6 DEF HasPrefix
  <1>4. ASSUME \A i \in DOMAIN n : n[i] # Dot
        PROVE  IsLabel(ContainerName(n))
    <2> DEFINE C == Alnum \cup {Dash}
    <2>1. Alphabet(C)
      BY DEF Alphabet
    <2>2. n \in Seq(C)
      <3>1. n \in [1..Len(n) -> Alnum \cup {Dash, Dot}] /\ Len(n) \in Nat
        BY <1>1, LenProperties
      <3>2. n \in [1..Len(n) -> C]
        BY <1>4, <3>1
      <3>3. QED
        BY <3>1, <3>2
    <2>3. P \in Seq(C)
      BY <1>1
    <2>4. \A c \in C : IsAlnum(c) \/ c = Dash
      BY DEF IsAlnum
    <2> HIDE DEF C
    <2>5. PICK r \in Seq(C) : /\ ContainerName(n) = P \o r
                              /\ Len(r) >= 1 /\ IsAlnum(r[Len(r)])
                              /\ Len(P) + Len(r) <= maxNameLen
      BY <2>1, <2>2, NameForm
    <2> DEFINE s == ContainerName(n)
    <2> HIDE DEF P
    <2>6. /\ s \in Seq(C) /\ Len(s) = Len(P) + Len(r) /\ Len(s) >= 1
          /\ s[1] = P[1] /\ s[Len(s)] = r[Len(r)]
      BY <1>2, <2>3, <2>5, EndsOfConcat
    <2> HIDE DEF s
    <2>7. Len(s) \in Nat /\ DOMAIN s = 1..Len(s) /\ \A i \in DOMAIN s : s[i] \in C
      BY <2>6, LenProperties
    <2>8. Len(s) \in 1..maxNameLen
      BY <1>2, <2>5, <2>6, <2>7
    <2>9. /\ \A i \in DOMAIN s : IsAlnum(s[i]) \/ s[i] = Dash
          /\ IsAlnum(s[1]) /\ IsAlnum(s[Len(s)])
      BY <1>1, <2>4, <2>5, <2>6, <2>7 DEF P
    <2>10. IsLabel(s)
      BY <2>8, <2>9 DEF IsLabel
    <2>11. QED
      BY <2>10 DEF s
  <1>5. QED
    BY <1>3, <1>4

-----------------------------------------------------------------------------
(***************************************************************************)
(* Names are as different as checksums                                     *)
(***************************************************************************)

\* Where in a string the last dash is, when it is followed by digits.
LEMMA DashAndDigits ==
  ASSUME NEW C, Alphabet(C), NEW a \in Seq(C), NEW p \in Seq(Alnum)
  PROVE  LET s == a \o (<<Dash>> \o p)
         IN /\ Len(s) \in Nat /\ Len(p) \in Nat /\ Len(p) < Len(s)
            /\ s[Len(s) - Len(p)] = Dash
            /\ \A i \in 1..Len(p) : s[Len(s) - Len(p) + i] = p[i]
  <1> DEFINE d == <<Dash>>
             q == d \o p
             s == a \o q
  <1>1. d \in Seq(C) /\ Len(d) = 1 /\ d[1] = Dash
    BY DEF Alphabet
  <1> HIDE DEF d
  <1>2. p \in Seq(C)
    BY SeqMonotonic DEF Alphabet
  <1>3. Len(p) \in Nat /\ Len(a) \in Nat
    BY LenProperties
  <1>4. /\ q \in Seq(C) /\ Len(q) = Len(d) + Len(p)
        /\ \A i \in 1..Len(d) + Len(p) : q[i] = IF i <= Len(d) THEN d[i] ELSE p[i - Len(d)]
    BY <1>1, <1>2, ConcatProperties
  <1> HIDE DEF q
  <1>5. /\ s \in Seq(C) /\ Len(s) = Len(a) + Len(q)
        /\ \A i \in 1..Len(a) + Len(q) : s[i] = IF i <= Len(a) THEN a[i] ELSE q[i - Len(a)]
    <2>1. q \in Seq(C)
      BY <1>4
    <2>2. QED
      BY <2>1, ConcatProperties
  <1> HIDE DEF s
  <1>6. Len(q) = Len(p) + 1 /\ Len(s) = Len(a) + Len(p) + 1
    BY <1>1, <1>3, <1>4, <1>5
  <1>7. q[1] = Dash /\ \A i \in 1..Len(p) : q[i + 1] = p[i]
    BY <1>1, <1>3, <1>4
  <1>8. \A i \in 1..Len(q) : s[Len(a) + i] = q[i]
    BY <1>3, <1>5, <1>6
  <1>9. s[Len(a) + 1] = Dash
    BY <1>3, <1>6, <1>7, <1>8
  <1>10. ASSUME NEW i \in 1..Len(p)
         PROVE  s[Len(a) + 1 + i] = p[i]
    <2>1. i + 1 \in 1..Len(q) /\ Len(a) + (i + 1) = Len(a) + 1 + i
      BY <1>3, <1>6
    <2>2. s[Len(a) + (i + 1)] = q[i + 1]
      BY <1>8, <2>1
    <2>3. QED
      BY <1>7, <2>1, <2>2
  <1>11. Len(s) - Len(p) = Len(a) + 1 /\ Len(p) < Len(s) /\ Len(s) \in Nat
    BY <1>3, <1>6
  <1>12. QED
    BY <1>3, <1>9, <1>10, <1>11 DEF s, q, d

\* The string s ends in a dash and the digits p.
EndsIn(s, p) == \E a \in Seq(Alnum \cup {Dash, Dot}) : s = a \o (<<Dash>> \o p)

\* The digits behind the last dash can be told from the string.
LEMMA SameDigits ==
  ASSUME NEW s, NEW p \in Seq(Alnum), NEW q \in Seq(Alnum), EndsIn(s, p), EndsIn(s, q)
  PROVE  p = q
  <1> DEFINE C == Alnum \cup {Dash, Dot}
  <1>1. ASSUME NEW r \in Seq(Alnum), EndsIn(s, r)
        PROVE  /\ Len(s) \in Nat /\ Len(r) \in Nat /\ Len(r) < Len(s)
               /\ s[Len(s) - Len(r)] = Dash
               /\ \A i \in 1..Len(r) : s[Len(s) - Len(r) + i] = r[i]
    <2>1. PICK a \in Seq(C) : s = a \o (<<Dash>> \o r)
      BY <1>1 DEF EndsIn
    <2>2. Alphabet(C)
      BY DEF Alphabet
    <2> HIDE DEF C
    <2>3. QED
      BY <2>1, <2>2, DashAndDigits
  <1>2. /\ Len(s) \in Nat /\ Len(p) \in Nat /\ Len(p) < Len(s)
        /\ s[Len(s) - Len(p)] = Dash
        /\ \A i \in 1..Len(p) : s[Len(s) - Len(p) + i] = p[i]
        /\ Len(q) \in Nat /\ Len(q) < Len(s)
        /\ s[Len(s) - Len(q)] = Dash
        /\ \A i \in 1..Len(q) : s[Len(s) - Len(q) + i] = q[i]
    BY <1>1
  <1>3. Dash \notin Alnum
    BY BaseAssumption DEF Dash, Alnum
  <1>4. (\A i \in 1..Len(p) : p[i] \in Alnum) /\ (\A i \in 1..Len(q) : q[i] \in Alnum)
    BY ElementOfSeq
  <1>5. ~(Len(p) < Len(q))
    <2>1. SUFFICES ASSUME Len(p) < Len(q) PROVE FALSE
      OBVIOUS
    <2>2. /\ Len(q) - Len(p) \in 1..Len(q)
          /\ Len(s) - Len(q) + (Len(q) - Len(p)) = Len(s) - Len(p)
      BY <1>2, <2>1
    <2>3. s[Len(s) - Len(p)] = q[Len(q) - Len(p)]
      BY <1>2, <2>2
    <2>4. QED
      BY <1>2, <1>3, <1>4, <2>2, <2>3
  <1>6. ~(Len(q) < Len(p))
    <2>1. SUFFICES ASSUME Len(q) < Len(p) PROVE FALSE
      OBVIOUS
    <2>2. /\ Len(p) - Len(q) \in 1..Len(p)
          /\ Len(s) - Len(p) + (Len(p) - Len(q)) = Len(s) - Len(q)
      BY <1>2, <2>1
    <2>3. s[Len(s) - Len(q)] = p[Len(p) - Len(q)]
      BY <1>2, <2>2
    <2>4. QED
      BY <1>2, <1>3, <1>4, <2>2, <2>3
  <1>7. Len(p) = Len(q)
    BY <1>2, <1>5, <1>6
  <1>8. \A i \in 1..Len(p) : p[i] = q[i]
    BY <1>2, <1>7
  <1>9. QED
    BY <1>7, <1>8, SeqEqual

\* Two names that were both kept differ.
LEMMA KeptNamesDiffer ==
  ASSUME NEW m \in ResourceNames, NEW n \in ResourceNames,
         ~Shortened(m), ~Shortened(n), ContainerName(m) = ContainerName(n)
  PROVE  m = n
  <1> DEFINE C == Alnum \cup {Dash, Dot}
             d == <<Dash>>
  <1>1. Alphabet(C) /\ m \in Seq(C) /\ n \in Seq(C)
    BY NamesAssumption DEF Alphabet
  <1>2. ContainerPrefix \in Seq(C) /\ Namespace \in Seq(C)
    BY NamesAssumption, <1>1, SeqMonotonic DEF Alphabet
  <1>3. d \in Seq(C)
    OBVIOUS
  <1> HIDE DEF C, d
  <1>4. InstName(m) \in Seq(C) /\ InstName(n) \in Seq(C)
    BY <1>1, InstNameType
  <1>5. ContainerPrefix \o InstName(m) = ContainerPrefix \o InstName(n)
    <2>1. ContainerName(m) = ContainerPrefix \o InstName(m)
      BY <1>1, ShortName
    <2>2. ContainerName(n) = ContainerPrefix \o InstName(n)
      BY <1>1, ShortName
    <2>3. QED
      BY <2>1, <2>2
  <1>6. InstName(m) = InstName(n)
    BY <1>2, <1>4, <1>5, ConcatSimplifications
  <1>7. Namespace \o d \in Seq(C)
    BY <1>2, <1>3, ConcatProperties
  <1>8. (Namespace \o d) \o m = (Namespace \o d) \o n
    BY <1>6 DEF InstName, d
  <1>9. QED
    BY <1>1, <1>7, <1>8, ConcatSimplifications

\* Two names that were both shortened differ when their checksums do.
LEMMA ShortenedNamesDiffer ==
  ASSUME NEW m \in ResourceNames, NEW n \in ResourceNames,
         Shortened(m), Shortened(n), ContainerName(m) = ContainerName(n)
  PROVE  mustHash(InstName(m)) = mustHash(InstName(n))
  <1> DEFINE C == Alnum \cup {Dash, Dot}
             p == Printed[mustHash(InstName(m))]
             q == Printed[mustHash(InstName(n))]
  <1>1. Alphabet(C) /\ m \in Seq(C) /\ n \in Seq(C)
    BY NamesAssumption DEF Alphabet
  <1>2. ContainerPrefix \in Seq(C)
    BY NamesAssumption, <1>1, SeqMonotonic DEF Alphabet
  <1> HIDE DEF C
  <1>3. mustHash(InstName(m)) \in Nat /\ mustHash(InstName(n)) \in Nat
    BY HashSuffixType
  <1>4. p \in Seq(Alnum) /\ q \in Seq(Alnum)
    BY <1>3, PrintedAlnum
  <1>5. PICK a \in Seq(C) : ContainerName(m) = ContainerPrefix \o (a \o (<<Dash>> \o p))
    BY <1>1, LongName DEF hashSuffix
  <1>6. PICK b \in Seq(C) : ContainerName(n) = ContainerPrefix \o (b \o (<<Dash>> \o q))
    BY <1>1, LongName DEF hashSuffix
  <1> HIDE DEF p, q
  <1>7. <<Dash>> \o p \in Seq(C) /\ <<Dash>> \o q \in Seq(C)
    <2> DEFINE d == <<Dash>>
    <2>1. d \in Seq(C) /\ p \in Seq(C) /\ q \in Seq(C)
      BY <1>1, <1>4, SeqMonotonic DEF Alphabet
    <2> HIDE DEF d
    <2>2. d \o p \in Seq(C) /\ d \o q \in Seq(C)
      BY <2>1, ConcatProperties
    <2>3. QED
      BY <2>2 DEF d
  <1> DEFINE u == <<Dash>> \o p
             v == <<Dash>> \o q
  <1>8. a \o u = b \o v
    <2>1. u \in Seq(C) /\ v \in Seq(C)
      BY <1>7
    <2>2. ContainerPrefix \o (a \o u) = ContainerPrefix \o (b \o v)
      BY <1>5, <1>6
    <2> HIDE DEF u, v
    <2>3. a \o u \in Seq(C) /\ b \o v \in Seq(C)
      BY <2>1, ConcatProperties
    <2>4. QED
      BY <1>2, <2>2, <2>3, ConcatSimplifications
  <1>9. p = q
    <2>1. EndsIn(a \o u, p) /\ EndsIn(b \o v, q)
      BY DEF EndsIn, C
    <2> HIDE DEF u, v
    <2>2. QED
      BY <1>4, <1>8, <2>1, SameDigits
  <1>10. QED
    BY <1>3, <1>9, PrintedInjective DEF p, q

-----------------------------------------------------------------------------
(***************************************************************************)
(* Theorems                                                                *)
(***************************************************************************)

\* The resources that select the pod are among those there are.
LEMMA Selected ==
  Spec => [](resources \subseteq ResourceNames)
  <1>1. Init => resources \subseteq ResourceNames
    BY DEF Init
  <1>2. resources \subseteq ResourceNames /\ [Next]_resources
          => (resources \subseteq ResourceNames)'
    BY DEF Next, Select, Done
  <1>3. QED
    BY <1>1, <1>2, PTL DEF Spec

\* ContainerName yields a name that update recognises and, for a resource
\* without a dot in its name, a DNS label, for every length of prefix, name and
\* printed checksum that leaves room for the checksum.
THEOREM ContainerNamesAreValid == Spec => []ContainerNameValid
  <1>1. resources \subseteq ResourceNames => ContainerNameValid
    BY NameIsValid DEF ContainerNameValid
  <1>2. QED
    BY <1>1, Selected, PTL

\* Containers of one pod share a name only when SafePrefixedName has shortened
\* one, and two shortened names are equal only when the checksums are: the
\* checksum can be read off the name although its length varies.
THEOREM NamesAreUniqueUpToChecksum == Spec => []UniqueUpToChecksum
  <1>1. resources \subseteq ResourceNames => UniqueUpToChecksum
    BY KeptNamesDiffer, ShortenedNamesDiffer DEF UniqueUpToChecksum
  <1>2. QED
    BY <1>1, Selected, PTL

=============================================================================
