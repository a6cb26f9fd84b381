---------------------------- MODULE Names_proofs ----------------------------
(***************************************************************************)
(* Proofs about names: for any domain, any limit on a label, and every name, *)
(* not only those of at most MaxInput characters.  The recursive functions *)
(* of Names are known by their equations (LabelsAppend, DashRunsAppend,    *)
(* LetterAtAppend); the rest is by induction on the length of a name.      *)
(***************************************************************************)
EXTENDS Names, SequenceTheorems, WellFoundedInduction, TLAPS

(***************************************************************************)
(* Induction, over a set in place of a predicate: a set of naturals that   *)
(* holds 0 and every successor holds them all, and a set of sequences that *)
(* holds <<>> and is closed under Append holds every sequence.             *)
(***************************************************************************)
LEMMA NatSetInduction ==
  ASSUME NEW T, 0 \in T, \A n \in Nat : n \in T => n + 1 \in T
  PROVE  Nat \subseteq T
<1> DEFINE U == Nat \ T
<1> SUFFICES ASSUME U # {} PROVE FALSE
  OBVIOUS
<1>1. PICK x \in U : \A y \in U : ~ (<<y, x>> \in OpToRel(<, Nat))
  <2>1. U \subseteq Nat
    OBVIOUS
  <2> HIDE DEF U
  <2> QED
    BY <2>1, WFMin, NatLessThanWellFounded
<1>2. x \in Nat /\ x # 0
  OBVIOUS
<1>3. x - 1 \in U
  BY <1>2
<1>4. <<x - 1, x>> \in OpToRel(<, Nat)
  BY <1>2 DEF OpToRel
<1> QED
  BY <1>1, <1>3, <1>4

LEMMA SeqSetInduction ==
  ASSUME NEW S, NEW T, <<>> \in T,
         \A s \in Seq(S), e \in S : s \in T => Append(s, e) \in T
  PROVE  Seq(S) \subseteq T
<1> DEFINE N == {n \in Nat : \A s \in Seq(S) : Len(s) = n => s \in T}
<1>1. 0 \in N
  BY EmptySeq
<1>2. ASSUME NEW n \in Nat, n \in N
      PROVE  n + 1 \in N
  <2>1. SUFFICES ASSUME NEW s \in Seq(S), Len(s) = n + 1
                 PROVE  s \in T
    OBVIOUS
  <2>2. PICK t \in Seq(S), e \in S : s = Append(t, e)
    BY <2>1, EmptySeq, SequenceEmptyOrAppend
  <2>3. Len(t) = n
    BY <2>1, <2>2, AppendProperties, LenProperties
  <2> QED
    BY <1>2, <2>2, <2>3
<1>3. Nat \subseteq N
  <2> HIDE DEF N
  <2> QED
    BY <1>1, <1>2, NatSetInduction
<1> QED
  BY <1>3, LenProperties

-----------------------------------------------------------------------------
(***************************************************************************)
(* The functions by recursion on the length of a prefix: there is one, and *)
(* two that take the same steps are the same.                              *)
(***************************************************************************)
StepsThrough(f, A, a, m, D) ==
  /\ f \in [0..m -> A]
  /\ f[0] = a
  /\ \A n \in 1..m : f[n] = D[<<n, f[n - 1]>>]

LEMMA PrefixFunction ==
  ASSUME NEW A, NEW a \in A, NEW m \in Nat, NEW D \in [(1..m) \X A -> A]
  PROVE  \E f : StepsThrough(f, A, a, m, D)
<1> DEFINE Part(k) == {f \in [0..k -> A] :
                         f[0] = a /\ \A n \in 1..k : f[n] = D[<<n, f[n - 1]>>]}
           N == {k \in Nat : k <= m => Part(k) # {}}
<1>1. 0 \in N
  <2>1. [n \in 0..0 |-> a] \in Part(0)
    OBVIOUS
  <2> QED
    BY <2>1
<1>2. ASSUME NEW k \in Nat, k \in N
      PROVE  k + 1 \in N
  <2>1. SUFFICES ASSUME k + 1 <= m
                 PROVE  Part(k + 1) # {}
    OBVIOUS
  <2>2. PICK f \in [0..k -> A] :
              f[0] = a /\ \A n \in 1..k : f[n] = D[<<n, f[n - 1]>>]
    BY <1>2, <2>1
  <2> DEFINE g == [n \in 0..(k + 1) |-> IF n = k + 1 THEN D[<<k + 1, f[k]>>] ELSE f[n]]
  <2>3. D[<<k + 1, f[k]>>] \in A
    BY <2>1, <2>2
  <2>4. g \in [0..(k + 1) -> A]
    BY <2>2, <2>3
  <2>5. g[0] = a
    BY <2>2
  <2>6. ASSUME NEW n \in 1..(k + 1)
        PROVE  g[n] = D[<<n, g[n - 1]>>]
    <3>1. CASE n = k + 1
      BY SMTT(30), <3>1
    <3>2. CASE n # k + 1
      <4>1. n \in 1..k /\ n - 1 \in 0..k
        BY <3>2
      <4> QED
        BY <2>2, <4>1
    <3> QED
      BY <3>1, <3>2
  <2> HIDE DEF g
  <2>7. g \in Part(k + 1)
    BY <2>4, <2>5, <2>6
  <2> QED
    BY <2>7
<1>3. m \in N
  <2> HIDE DEF N
  <2> QED
    BY <1>1, <1>2, NatSetInduction
<1> QED
  BY <1>3 DEF StepsThrough

StepAlike(f, g, m) ==
  /\ f[0] = g[0]
  /\ \A n \in 1..m : f[n - 1] = g[n - 1] => f[n] = g[n]

LEMMA PrefixesAgree ==
  ASSUME NEW m \in Nat, NEW f, NEW g, StepAlike(f, g, m)
  PROVE  \A n \in 0..m : f[n] = g[n]
<1> USE DEF StepAlike
<1> DEFINE N == {n \in Nat : n <= m => f[n] = g[n]}
<1>1. 0 \in N
  OBVIOUS
<1>2. ASSUME NEW n \in Nat, n \in N
      PROVE  n + 1 \in N
  BY <1>2
<1>3. Nat \subseteq N
  <2> HIDE DEF N
  <2> QED
    BY <1>1, <1>2, NatSetInduction
<1> QED
  BY <1>3

-----------------------------------------------------------------------------
(***************************************************************************)
(* Labels, one character at a time.                                        *)
(***************************************************************************)
LabelSeq == Seq(Seq(Char)) \ {<<>>}

PutChar(t, c) ==
  IF c = "." THEN Append(t, <<>>) ELSE [t EXCEPT ![Len(t)] = Append(@, c)]

LEMMA PutCharType ==
  ASSUME NEW t \in LabelSeq, NEW c \in Char
  PROVE  PutChar(t, c) \in LabelSeq
<1>1. Len(t) \in 1..Len(t) /\ t[Len(t)] \in Seq(Char) /\ t \in Seq(Seq(Char))
  BY EmptySeq, ElementOfSeq, LenProperties DEF LabelSeq
<1>2. Append(t, <<>>) \in LabelSeq
  BY <1>1, EmptySeq, AppendProperties DEF LabelSeq
<1>3. Append(t[Len(t)], c) \in Seq(Char)
  BY <1>1, AppendProperties
<1>4. [t EXCEPT ![Len(t)] = Append(t[Len(t)], c)] \in LabelSeq
  BY <1>1, <1>3, ExceptSeq, EmptySeq DEF LabelSeq
<1> QED
  BY <1>2, <1>4 DEF PutChar

LEMMA LabelsFunction ==
  ASSUME NEW s \in Seq(Char)
  PROVE  \E f \in [0..Len(s) -> LabelSeq] :
            /\ Labels(s) = f[Len(s)]
            /\ f[0] = << <<>> >>
            /\ \A n \in 1..Len(s) : f[n] = PutChar(f[n - 1], s[n])
<1> DEFINE m == Len(s)
           none == << <<>> >>
           D == [x \in (1..m) \X LabelSeq |-> PutChar(x[2], s[x[1]])]
           Body(g) == [n \in 0..m |->
                         IF n = 0 THEN none ELSE PutChar(g[n - 1], s[n])]
           up == CHOOSE g : g = Body(g)
<1>1. m \in Nat /\ \A n \in 1..m : s[n] \in Char
  BY LenProperties, ElementOfSeq
<1>2. none \in LabelSeq
  BY EmptySeq DEF LabelSeq
<1>3. D \in [(1..m) \X LabelSeq -> LabelSeq]
  BY <1>1, PutCharType
<1>4. \A n \in 1..m, t \in LabelSeq : D[<<n, t>>] = PutChar(t, s[n])
  OBVIOUS
<1>5. PICK f : StepsThrough(f, LabelSeq, none, m, D)
  <2> HIDE DEF D, m, none
  <2> QED
    BY <1>1, <1>2, <1>3, PrefixFunction
<1>6. \A n \in 1..m : f[n] = PutChar(f[n - 1], s[n])
  <2>1. \A n \in 1..m : f[n - 1] \in LabelSeq /\ f[n] = D[<<n, f[n - 1]>>]
    <3> HIDE DEF D
    <3> QED
      BY SMTT(30), <1>1, <1>5 DEF StepsThrough
  <2> HIDE DEF D
  <2> QED
    BY <1>4, <2>1
<1>7. f = Body(f)
  <2>1. \A n \in 0..m : f[n] = Body(f)[n]
    <3> HIDE DEF D, none
    <3> QED
      BY <1>1, <1>5, <1>6 DEF StepsThrough
  <2> QED
    BY <1>5, <2>1 DEF StepsThrough
<1>8. up = Body(up)
  <2> HIDE DEF Body
  <2> QED
    BY <1>7
<1>9. Labels(s) = up[m]
  BY DEF Labels, PutChar
<1>10. \A n \in 0..m : up[n] = f[n]
  <2>1. up[0] = f[0]
    <3>1. Body(up)[0] = none
      BY <1>1
    <3> HIDE DEF up, Body, none
    <3> QED
      BY <1>5, <1>8, <3>1 DEF StepsThrough
  <2>2. \A n \in 1..m : up[n - 1] = f[n - 1] => up[n] = f[n]
    <3> HIDE DEF up, D, none
    <3> QED
      BY <1>1, <1>6, <1>8
  <2> HIDE DEF up
  <2>3. StepAlike(up, f, m)
    BY <2>1, <2>2 DEF StepAlike
  <2> QED
    BY <1>1, <2>3, PrefixesAgree
<1> QED
  <2> HIDE DEF up, D
  <2> QED
    BY <1>1, <1>5, <1>6, <1>9, <1>10 DEF StepsThrough

LEMMA LabelsEmpty == Labels(<<>>) = << <<>> >>
  BY EmptySeq, LabelsFunction

LEMMA LabelsAppend ==
  ASSUME NEW s \in Seq(Char), NEW c \in Char
  PROVE  /\ Labels(s) \in LabelSeq
         /\ Labels(Append(s, c)) = PutChar(Labels(s), c)
<1> DEFINE z == Append(s, c)
           m == Len(s)
<1>1. PICK f \in [0..m -> LabelSeq] :
              /\ Labels(s) = f[m]
              /\ f[0] = << <<>> >>
              /\ \A n \in 1..m : f[n] = PutChar(f[n - 1], s[n])
  BY LabelsFunction
<1>2. /\ z \in Seq(Char) /\ m \in Nat /\ Len(z) = m + 1
      /\ z[m + 1] = c /\ \A n \in 1..m : z[n] = s[n]
  BY AppendProperties, LenProperties
<1>3. PICK g \in [0..(m + 1) -> LabelSeq] :
              /\ Labels(z) = g[m + 1]
              /\ g[0] = << <<>> >>
              /\ \A n \in 1..(m + 1) : g[n] = PutChar(g[n - 1], z[n])
  <2> HIDE DEF z
  <2>1. z \in Seq(Char) /\ Len(z) = m + 1
    BY <1>2
  <2>2. \E g \in [0..Len(z) -> LabelSeq] :
           /\ Labels(z) = g[Len(z)]
           /\ g[0] = << <<>> >>
           /\ \A n \in 1..Len(z) : g[n] = PutChar(g[n - 1], z[n])
    BY <2>1, LabelsFunction
  <2> QED
    BY <2>1, <2>2, Zenon
<1>4. \A n \in 0..m : g[n] = f[n]
  <2>1. \A n \in 1..m : g[n - 1] = f[n - 1] => g[n] = f[n]
    <3> HIDE DEF z, m
    <3> QED
      BY <1>1, <1>2, <1>3
  <2>2. m \in Nat /\ g[0] = f[0]
    BY <1>1, <1>2, <1>3
  <2> HIDE DEF z, m
  <2>3. StepAlike(g, f, m)
    BY <2>1, <2>2 DEF StepAlike
  <2> QED
    BY <2>2, <2>3, PrefixesAgree
<1>5. g[m + 1] = PutChar(g[m], z[m + 1])
  <2> HIDE DEF z, m
  <2> QED
    BY <1>2, <1>3
<1> QED
  <2> HIDE DEF z, m
  <2> QED
    BY <1>1, <1>2, <1>3, <1>4, <1>5 DEF z

-----------------------------------------------------------------------------
(***************************************************************************)
(* DashRuns, one character at a time.                                      *)
(***************************************************************************)
PutDash(t, c) ==
  IF c = "-" /\ t # <<>> /\ Last(t) = "-" THEN t ELSE Append(t, c)

LEMMA PutDashType ==
  ASSUME NEW t \in Seq(Char), NEW c \in Char
  PROVE  PutDash(t, c) \in Seq(Char)
  BY AppendProperties DEF PutDash

LEMMA DashRunsFunction ==
  ASSUME NEW s \in Seq(Char)
  PROVE  \E f \in [0..Len(s) -> Seq(Char)] :
            /\ DashRuns(s) = f[Len(s)]
            /\ f[0] = <<>>
            /\ \A n \in 1..Len(s) : f[n] = PutDash(f[n - 1], s[n])
<1> DEFINE m == Len(s)
           none == <<>>
           D == [x \in (1..m) \X Seq(Char) |-> PutDash(x[2], s[x[1]])]
           Body(g) == [n \in 0..m |->
                         IF n = 0 THEN none ELSE PutDash(g[n - 1], s[n])]
           up == CHOOSE g : g = Body(g)
<1>1. m \in Nat /\ \A n \in 1..m : s[n] \in Char
  BY LenProperties, ElementOfSeq
<1>2. none \in Seq(Char)
  BY EmptySeq
<1>3. D \in [(1..m) \X Seq(Char) -> Seq(Char)]
  BY <1>1, PutDashType
<1>4. \A n \in 1..m, t \in Seq(Char) : D[<<n, t>>] = PutDash(t, s[n])
  OBVIOUS
<1>5. PICK f : StepsThrough(f, Seq(Char), none, m, D)
  <2> HIDE DEF D, m, none
  <2> QED
    BY <1>1, <1>2, <1>3, PrefixFunction
<1>6. \A n \in 1..m : f[n] = PutDash(f[n - 1], s[n])
  <2>1. \A n \in 1..m : f[n - 1] \in Seq(Char) /\ f[n] = D[<<n, f[n - 1]>>]
    <3> HIDE DEF D
    <3> QED
      BY SMTT(30), <1>1, <1>5 DEF StepsThrough
  <2> HIDE DEF D
  <2> QED
    BY <1>4, <2>1
<1>7. f = Body(f)
  <2>1. \A n \in 0..m : f[n] = Body(f)[n]
    <3> HIDE DEF D, none
    <3> QED
      BY <1>1, <1>5, <1>6 DEF StepsThrough
  <2> QED
    BY <1>5, <2>1 DEF StepsThrough
<1>8. up = Body(up)
  <2> HIDE DEF Body
  <2> QED
    BY <1>7
<1>9. DashRuns(s) = up[m]
  BY DEF DashRuns, PutDash
<1>10. \A n \in 0..m : up[n] = f[n]
  <2>1. up[0] = f[0]
    <3>1. Body(up)[0] = none
      BY <1>1
    <3> HIDE DEF up, Body, none
    <3> QED
      BY <1>5, <1>8, <3>1 DEF StepsThrough
  <2>2. \A n \in 1..m : up[n - 1] = f[n - 1] => up[n] = f[n]
    <3> HIDE DEF up, D, none
    <3> QED
      BY <1>1, <1>6, <1>8
  <2> HIDE DEF up
  <2>3. StepAlike(up, f, m)
    BY <2>1, <2>2 DEF StepAlike
  <2> QED
    BY <1>1, <2>3, PrefixesAgree
<1> QED
  <2> HIDE DEF up, D
  <2> QED
    BY SMTT(30), <1>1, <1>5, <1>6, <1>9, <1>10 DEF StepsThrough

LEMMA DashRunsEmpty == DashRuns(<<>>) = <<>>
  BY EmptySeq, DashRunsFunction

LEMMA DashRunsAppend ==
  ASSUME NEW s \in Seq(Char), NEW c \in Char
  PROVE  /\ DashRuns(s) \in Seq(Char)
         /\ DashRuns(Append(s, c)) = PutDash(DashRuns(s), c)
<1> DEFINE z == Append(s, c)
           m == Len(s)
<1>1. PICK f \in [0..m -> Seq(Char)] :
              /\ DashRuns(s) = f[m]
              /\ f[0] = <<>>
              /\ \A n \in 1..m : f[n] = PutDash(f[n - 1], s[n])
  BY DashRunsFunction
<1>2. /\ z \in Seq(Char) /\ m \in Nat /\ Len(z) = m + 1
      /\ z[m + 1] = c /\ \A n \in 1..m : z[n] = s[n]
  BY AppendProperties, LenProperties
<1>3. PICK g \in [0..(m + 1) -> Seq(Char)] :
              /\ DashRuns(z) = g[m + 1]
              /\ g[0] = <<>>
              /\ \A n \in 1..(m + 1) : g[n] = PutDash(g[n - 1], z[n])
  <2> HIDE DEF z
  <2>1. z \in Seq(Char) /\ Len(z) = m + 1
    BY <1>2
  <2>2. \E g \in [0..Len(z) -> Seq(Char)] :
           /\ DashRuns(z) = g[Len(z)]
           /\ g[0] = <<>>
           /\ \A n \in 1..Len(z) : g[n] = PutDash(g[n - 1], z[n])
    BY <2>1, DashRunsFunction
  <2> QED
    BY <2>1, <2>2, Zenon
<1>4. \A n \in 0..m : g[n] = f[n]
  <2>1. \A n \in 1..m : g[n - 1] = f[n - 1] => g[n] = f[n]
    <3> HIDE DEF z, m
    <3> QED
      BY <1>1, <1>2, <1>3
  <2>2. m \in Nat /\ g[0] = f[0]
    BY <1>1, <1>2, <1>3
  <2> HIDE DEF z, m
  <2>3. StepAlike(g, f, m)
    BY <2>1, <2>2 DEF StepAlike
  <2> QED
    BY ZenonT(30), <2>2, <2>3, PrefixesAgree
<1>5. g[m + 1] = PutDash(g[m], z[m + 1])
  <2> HIDE DEF z, m
  <2> QED
    BY <1>2, <1>3
<1> QED
  <2> HIDE DEF z, m
  <2> QED
    BY <1>1, <1>2, <1>3, <1>4, <1>5 DEF z

-----------------------------------------------------------------------------
(***************************************************************************)
(* LetterAt, one character at a time.                                      *)
(***************************************************************************)
PutLetter(t, c, n) == IF c = "a" THEN Append(t, n) ELSE t

LEMMA PutLetterType ==
  ASSUME NEW t \in Seq(Nat), NEW c, NEW n \in Nat
  PROVE  PutLetter(t, c, n) \in Seq(Nat)
  BY AppendProperties DEF PutLetter

LEMMA LetterAtFunction ==
  ASSUME NEW s \in Seq(Char)
  PROVE  \E f \in [0..Len(s) -> Seq(Nat)] :
            /\ LetterAt(s) = f[Len(s)]
            /\ f[0] = <<>>
            /\ \A n \in 1..Len(s) : f[n] = PutLetter(f[n - 1], Lower(s)[n], n)
<1> DEFINE m == Len(s)
           none == <<>>
           D == [x \in (1..m) \X Seq(Nat) |-> PutLetter(x[2], Lower(s)[x[1]], x[1])]
           Body(g) == [n \in 0..m |->
                         IF n = 0 THEN none ELSE PutLetter(g[n - 1], Lower(s)[n], n)]
           up == CHOOSE g : g = Body(g)
<1>1. m \in Nat /\ \A n \in 1..m : n \in Nat
  BY LenProperties, ElementOfSeq
<1>2. none \in Seq(Nat)
  BY EmptySeq
<1>3. D \in [(1..m) \X Seq(Nat) -> Seq(Nat)]
  BY <1>1, PutLetterType
<1>4. \A n \in 1..m, t \in Seq(Nat) : D[<<n, t>>] = PutLetter(t, Lower(s)[n], n)
  OBVIOUS
<1>5. PICK f : StepsThrough(f, Seq(Nat), none, m, D)
  <2> HIDE DEF D, m, none
  <2> QED
    BY <1>1, <1>2, <1>3, PrefixFunction
<1>6. \A n \in 1..m : f[n] = PutLetter(f[n - 1], Lower(s)[n], n)
  <2>1. \A n \in 1..m : f[n - 1] \in Seq(Nat) /\ f[n] = D[<<n, f[n - 1]>>]
    <3> HIDE DEF D
    <3> QED
      BY <1>1, <1>5 DEF StepsThrough
  <2> HIDE DEF D
  <2> QED
    BY <1>4, <2>1
<1>7. f = Body(f)
  <2>1. \A n \in 0..m : f[n] = Body(f)[n]
    <3> HIDE DEF D, none
    <3> QED
      BY <1>1, <1>5, <1>6 DEF StepsThrough
  <2> QED
    BY <1>5, <2>1 DEF StepsThrough
<1>8. up = Body(up)
  <2> HIDE DEF Body
  <2> QED
    BY <1>7
<1>9. LetterAt(s) = up[m]
  BY DEF LetterAt, PutLetter
<1>10. \A n \in 0..m : up[n] = f[n]
  <2>1. up[0] = f[0]
    <3>1. Body(up)[0] = none
      BY <1>1
    <3> HIDE DEF up, Body, none
    <3> QED
      BY <1>5, <1>8, <3>1 DEF StepsThrough
  <2>2. \A n \in 1..m : up[n - 1] = f[n - 1] => up[n] = f[n]
    <3> HIDE DEF up, D, none
    <3> QED
      BY <1>1, <1>6, <1>8
  <2> HIDE DEF up
  <2>3. StepAlike(up, f, m)
    BY <2>1, <2>2 DEF StepAlike
  <2> QED
    BY <1>1, <2>3, PrefixesAgree
<1> QED
  <2> HIDE DEF up, D
  <2> QED
    BY <1>1, <1>5, <1>6, <1>9, <1>10 DEF StepsThrough

LEMMA LetterAtEmpty == LetterAt(<<>>) = <<>>
  BY EmptySeq, LetterAtFunction

LEMMA LetterAtAppend ==
  ASSUME NEW s \in Seq(Char), NEW c \in Char
  PROVE  /\ LetterAt(s) \in Seq(Nat)
         /\ LetterAt(Append(s, c)) = PutLetter(LetterAt(s), Lower(<<c>>)[1], Len(s) + 1)
<1> DEFINE z == Append(s, c)
           m == Len(s)
<1>1. PICK f \in [0..m -> Seq(Nat)] :
              /\ LetterAt(s) = f[m]
              /\ f[0] = <<>>
              /\ \A n \in 1..m : f[n] = PutLetter(f[n - 1], Lower(s)[n], n)
  BY LetterAtFunction
<1>2. /\ z \in Seq(Char) /\ m \in Nat /\ Len(z) = m + 1
      /\ z[m + 1] = c /\ \A n \in 1..m : z[n] = s[n]
  BY AppendProperties, LenProperties
<1>3. PICK g \in [0..(m + 1) -> Seq(Nat)] :
              /\ LetterAt(z) = g[m + 1]
              /\ g[0] = <<>>
              /\ \A n \in 1..(m + 1) : g[n] = PutLetter(g[n - 1], Lower(z)[n], n)
  <2> HIDE DEF z
  <2>1. z \in Seq(Char) /\ Len(z) = m + 1
    BY <1>2
  <2>2. \E g \in [0..Len(z) -> Seq(Nat)] :
           /\ LetterAt(z) = g[Len(z)]
           /\ g[0] = <<>>
           /\ \A n \in 1..Len(z) : g[n] = PutLetter(g[n - 1], Lower(z)[n], n)
    BY <2>1, LetterAtFunction
  <2> QED
    BY <2>1, <2>2, Zenon
<1>4. \A n \in 1..m : Lower(z)[n] = Lower(s)[n]
  BY <1>2, LenProperties DEF Lower
<1>5. Lower(z)[m + 1] = Lower(<<c>>)[1]
  BY <1>2, LenProperties DEF Lower
<1>6. \A n \in 0..m : g[n] = f[n]
  <2>1. \A n \in 1..m : g[n - 1] = f[n - 1] => g[n] = f[n]
    <3> HIDE DEF z, m
    <3> QED
      BY <1>1, <1>2, <1>3, <1>4
  <2>2. m \in Nat /\ g[0] = f[0]
    BY <1>1, <1>2, <1>3
  <2> HIDE DEF z, m
  <2>3. StepAlike(g, f, m)
    BY <2>1, <2>2 DEF StepAlike
  <2> QED
    BY ZenonT(30), <2>2, <2>3, PrefixesAgree
<1>7. g[m + 1] = PutLetter(g[m], Lower(z)[m + 1], m + 1)
  <2> HIDE DEF z, m
  <2> QED
    BY <1>2, <1>3
<1> QED
  <2> HIDE DEF z, m
  <2> QED
    BY <1>1, <1>2, <1>3, <1>6, <1>7, <1>5 DEF z

-----------------------------------------------------------------------------
(***************************************************************************)
(* Labels splits at the dots and nowhere else: a name is its labels again. *)
(***************************************************************************)
LEMMA ConcatAppend ==
  ASSUME NEW S, NEW s \in Seq(S), NEW t \in Seq(S), NEW e \in S
  PROVE  s \o Append(t, e) = Append(s \o t, e)
<1>1. <<e>> \in Seq(S)
  BY EmptySeq, AppendProperties
<1>2. Append(t, e) = t \o <<e>> /\ s \o t \in Seq(S)
  BY AppendIsConcat, ConcatProperties
<1>3. Append(s \o t, e) = (s \o t) \o <<e>>
  BY <1>2, AppendIsConcat
<1> QED
  BY <1>1, <1>2, <1>3, ConcatAssociative

(***************************************************************************)
(* The facts about sequences below are those of the library for names and  *)
(* for sequences of labels: the provers do not find the instances.         *)
(***************************************************************************)
LEMMA CharAppendType ==
  ASSUME NEW s \in Seq(Char), NEW c \in Char
  PROVE  Append(s, c) \in Seq(Char) /\ Append(s, c) # <<>>
  BY AppendProperties

LEMMA CharAppend ==
  ASSUME NEW s \in Seq(Char), NEW t \in Seq(Char), NEW c \in Char
  PROVE  s \o Append(t, c) = Append(s \o t, c)
  BY ConcatAppend

LEMMA LabelAppend ==
  ASSUME NEW s \in Seq(Seq(Char)), NEW t \in Seq(Seq(Char)), NEW l \in Seq(Char)
  PROVE  s \o Append(t, l) = Append(s \o t, l)
  BY ConcatAppend

LEMMA LabelAppendType ==
  ASSUME NEW t \in Seq(Seq(Char)), NEW l \in Seq(Char)
  PROVE  Append(t, l) \in Seq(Seq(Char)) /\ Append(t, l) # <<>>
  BY AppendProperties

LEMMA LabelSame ==
  ASSUME NEW s \in Seq(Seq(Char)), NEW t \in Seq(Seq(Char)),
         NEW l \in Seq(Char), NEW k \in Seq(Char), Append(s, l) = Append(t, k)
  PROVE  s = t /\ l = k
  BY AppendInjective

LEMMA CharSame ==
  ASSUME NEW s \in Seq(Char), NEW t \in Seq(Char), NEW c \in Char,
         Append(s, c) = Append(t, c)
  PROVE  s = t
  BY AppendInjective

LEMMA LabelsType ==
  ASSUME NEW s \in Seq(Char)
  PROVE  Labels(s) \in LabelSeq
  BY LabelsFunction, LenProperties

LEMMA LabelSeqType ==
  ASSUME NEW t \in LabelSeq
  PROVE  /\ t \in Seq(Seq(Char)) /\ Len(t) \in Nat \ {0}
         /\ t[Len(t)] \in Seq(Char)
  BY EmptySeq, LenProperties, ElementOfSeq DEF LabelSeq

(***************************************************************************)
(* What PutChar does to the last label.                                    *)
(***************************************************************************)
LEMMA PutCharLast ==
  ASSUME NEW w \in Seq(Seq(Char)), NEW l \in Seq(Char), NEW c \in Char, c # "."
  PROVE  PutChar(Append(w, l), c) = Append(w, Append(l, c))
<1> DEFINE t == Append(w, l)
           k == Append(l, c)
           r == Append(w, k)
<1>1. /\ t \in Seq(Seq(Char)) /\ Len(t) = Len(w) + 1 /\ Len(w) \in Nat
      /\ \A i \in 1..Len(w) : t[i] = w[i]
      /\ t[Len(w) + 1] = l
  BY AppendProperties, LenProperties
<1>2. k \in Seq(Char)
  BY AppendProperties
<1>3. /\ r \in Seq(Seq(Char)) /\ Len(r) = Len(w) + 1
      /\ \A i \in 1..Len(w) : r[i] = w[i]
      /\ r[Len(w) + 1] = k
  <2> HIDE DEF k
  <2> QED
    BY <1>2, AppendProperties, LenProperties
<1> DEFINE p == [t EXCEPT ![Len(t)] = k]
<1>4. /\ p \in Seq(Seq(Char)) /\ Len(p) = Len(t)
      /\ \A i \in 1..Len(t) : p[i] = IF i = Len(t) THEN k ELSE t[i]
  <2>1. Len(t) \in 1..Len(t)
    BY <1>1
  <2> HIDE DEF t, k
  <2> QED
    BY <1>1, <1>2, <2>1, ExceptSeq
<1>5. p = r
  <2> HIDE DEF t, k, r, p
  <2>1. ASSUME NEW i \in 1..Len(p)
        PROVE  p[i] = r[i]
    <3>1. CASE i = Len(w) + 1
      BY <1>1, <1>3, <1>4, <3>1
    <3>2. CASE i # Len(w) + 1
      <4>1. i \in 1..Len(w) /\ i \in 1..Len(t) /\ i # Len(t)
        BY <1>1, <1>4, <3>2
      <4> QED
        BY <1>1, <1>3, <1>4, <4>1
    <3> QED
      BY <3>1, <3>2
  <2> QED
    BY <1>1, <1>3, <1>4, <2>1, SeqEqual
<1>6. PutChar(t, c) = [t EXCEPT ![Len(t)] = Append(t[Len(t)], c)]
  BY DEF PutChar
<1>7. t[Len(t)] = l
  BY <1>1
<1> QED
  BY <1>5, <1>6, <1>7

LEMMA LabelSeqEnds ==
  ASSUME NEW t \in LabelSeq
  PROVE  \E w \in Seq(Seq(Char)), l \in Seq(Char) : t = Append(w, l)
  BY SequenceEmptyOrAppend DEF LabelSeq

LEMMA PutCharConcat ==
  ASSUME NEW p \in LabelSeq, NEW q \in LabelSeq, NEW c \in Char
  PROVE  PutChar(p \o q, c) = p \o PutChar(q, c)
<1>1. p \in Seq(Seq(Char)) /\ q \in Seq(Seq(Char)) /\ <<>> \in Seq(Char)
  BY LabelSeqType, EmptySeq
<1>2. CASE c = "."
  <2> DEFINE none == <<>>
  <2>1. PutChar(p \o q, c) = Append(p \o q, none) /\ PutChar(q, c) = Append(q, none)
    BY <1>2 DEF PutChar
  <2>2. none \in Seq(Char)
    BY <1>1
  <2> HIDE DEF none
  <2>3. p \o Append(q, none) = Append(p \o q, none)
    BY <1>1, <2>2, LabelAppend
  <2> QED
    BY <2>1, <2>3
<1>3. CASE c # "."
  <2>1. PICK w \in Seq(Seq(Char)), l \in Seq(Char) : q = Append(w, l)
    BY LabelSeqEnds
  <2>2. Append(l, c) \in Seq(Char) /\ p \o w \in Seq(Seq(Char))
    BY <1>1, AppendProperties, ConcatProperties
  <2>3. p \o q = Append(p \o w, l)
    BY <1>1, <2>1, LabelAppend
  <2>4. PutChar(p \o q, c) = Append(p \o w, Append(l, c))
    BY <1>3, <2>2, <2>3, PutCharLast
  <2>5. p \o PutChar(q, c) = p \o Append(w, Append(l, c))
    BY <1>3, <2>1, PutCharLast
  <2>6. p \o Append(w, Append(l, c)) = Append(p \o w, Append(l, c))
    <3> DEFINE k == Append(l, c)
    <3> HIDE DEF k
    <3>1. k \in Seq(Char)
      BY <2>2 DEF k
    <3>2. p \o Append(w, k) = Append(p \o w, k)
      BY <1>1, <3>1, LabelAppend
    <3> QED
      BY <3>2 DEF k
  <2> QED
    BY <2>4, <2>5, <2>6
<1> QED
  BY <1>2, <1>3

(***************************************************************************)
(* Labels of a name with a dot in it are those before and those after it.  *)
(***************************************************************************)
LEMMA LabelsConcat ==
  ASSUME NEW x \in Seq(Char), NEW y \in Seq(Char)
  PROVE  Labels(x \o <<".">> \o y) = Labels(x) \o Labels(y)
<1> DEFINE d == x \o <<".">>
           T == {z \in Seq(Char) : Labels(d \o z) = Labels(x) \o Labels(z)}
<1>1. /\ <<".">> \in Seq(Char) /\ "." \in Char
      /\ d = Append(x, ".") /\ d \in Seq(Char)
  <2>1. "." \in Char
    BY DEF Char
  <2> QED
    BY <2>1, AppendProperties, AppendIsConcat
<1>2. <<>> \in T
  <2>1. Labels(d) = Append(Labels(x), <<>>)
    BY <1>1, LabelsAppend DEF PutChar
  <2>2. Append(Labels(x), <<>>) = Labels(x) \o << <<>> >>
    BY LabelsType, LabelSeqType, EmptySeq, AppendIsConcat
  <2> HIDE DEF d
  <2> QED
    BY <1>1, <2>1, <2>2, LabelsEmpty, EmptySeq, ConcatEmptySeq
<1>3. ASSUME NEW z \in Seq(Char), NEW c \in Char, z \in T
      PROVE  Append(z, c) \in T
  <2> HIDE DEF d
  <2>1. d \o Append(z, c) = Append(d \o z, c)
    BY <1>1, ConcatAppend
  <2>2. d \o z \in Seq(Char) /\ Append(z, c) \in Seq(Char)
    BY <1>1, ConcatProperties, AppendProperties
  <2>3. Labels(Append(d \o z, c)) = PutChar(Labels(x) \o Labels(z), c)
    BY <1>3, <2>2, LabelsAppend
  <2>4. PutChar(Labels(x) \o Labels(z), c) = Labels(x) \o PutChar(Labels(z), c)
    BY LabelsType, PutCharConcat
  <2> QED
    BY <2>1, <2>2, <2>3, <2>4, LabelsAppend
<1>4. Seq(Char) \subseteq T
  <2> HIDE DEF T
  <2> QED
    BY <1>2, <1>3, SeqSetInduction
<1> QED
  BY <1>4

LEMMA PutCharInjective ==
  ASSUME NEW t \in LabelSeq, NEW u \in LabelSeq, NEW c \in Char, NEW e \in Char,
         PutChar(t, c) = PutChar(u, e)
  PROVE  t = u /\ c = e
<1>1. PICK w \in Seq(Seq(Char)), l \in Seq(Char) : t = Append(w, l)
  BY LabelSeqEnds
<1>2. PICK v \in Seq(Seq(Char)), k \in Seq(Char) : u = Append(v, k)
  BY LabelSeqEnds
<1>3. /\ t \in Seq(Seq(Char)) /\ u \in Seq(Seq(Char)) /\ <<>> \in Seq(Char)
      /\ Append(l, c) \in Seq(Char) /\ Append(l, c) # <<>>
      /\ Append(k, e) \in Seq(Char) /\ Append(k, e) # <<>>
  <2>1. t \in Seq(Seq(Char)) /\ u \in Seq(Seq(Char)) /\ <<>> \in Seq(Char)
    BY LabelSeqType, EmptySeq
  <2>2. Append(l, c) \in Seq(Char) /\ Append(l, c) # <<>>
    BY CharAppendType
  <2>3. Append(k, e) \in Seq(Char) /\ Append(k, e) # <<>>
    BY CharAppendType
  <2> QED
    BY <2>1, <2>2, <2>3
<1>4. c = "." => PutChar(t, c) = Append(t, <<>>)
  BY DEF PutChar
<1>5. e = "." => PutChar(u, e) = Append(u, <<>>)
  BY DEF PutChar
<1>6. c # "." => PutChar(t, c) = Append(w, Append(l, c))
  BY <1>1, PutCharLast
<1>7. e # "." => PutChar(u, e) = Append(v, Append(k, e))
  BY <1>2, PutCharLast
<1> DEFINE lc == Append(l, c)
           ke == Append(k, e)
<1>8. CASE c = "." /\ e = "."
  <2>1. Append(t, <<>>) = Append(u, <<>>)
    BY <1>8, <1>4, <1>5
  <2> QED
    BY <1>3, <1>8, <2>1, LabelSame
<1>9. CASE c = "." /\ e # "."
  <2>1. Append(t, <<>>) = Append(v, ke)
    BY <1>9, <1>4, <1>7
  <2>2. ke \in Seq(Char) /\ ke # <<>>
    BY <1>3
  <2> HIDE DEF ke
  <2> QED
    BY <1>3, <2>1, <2>2, LabelSame
<1>10. CASE c # "." /\ e = "."
  <2>1. Append(w, lc) = Append(u, <<>>)
    BY <1>10, <1>5, <1>6
  <2>2. lc \in Seq(Char) /\ lc # <<>>
    BY <1>3
  <2> HIDE DEF lc
  <2> QED
    BY <1>3, <2>1, <2>2, LabelSame
<1>11. CASE c # "." /\ e # "."
  <2>1. Append(w, lc) = Append(v, ke)
    BY <1>11, <1>6, <1>7
  <2>2. w = v /\ lc = ke
    <3>1. lc \in Seq(Char) /\ ke \in Seq(Char)
      BY <1>3
    <3> HIDE DEF lc, ke
    <3> QED
      BY <2>1, <3>1, AppendInjective
  <2>3. l = k /\ c = e
    BY <2>2, AppendInjective
  <2> QED
    BY <1>1, <1>2, <2>2, <2>3
<1> QED
  BY <1>8, <1>9, <1>10, <1>11

LEMMA PutCharNotFirst ==
  ASSUME NEW t \in LabelSeq, NEW c \in Char
  PROVE  PutChar(t, c) # << <<>> >>
<1> DEFINE first == << <<>> >>
<1>1. Len(first) = 1 /\ first[1] = <<>>
  OBVIOUS
<1>2. CASE c = "."
  <2>1. PutChar(t, c) = Append(t, <<>>)
    BY <1>2 DEF PutChar
  <2>2. Len(Append(t, <<>>)) = Len(t) + 1 /\ Len(t) \in Nat \ {0}
    BY LabelSeqType, EmptySeq, AppendProperties
  <2> HIDE DEF first
  <2> QED
    BY <1>1, <2>1, <2>2
<1>3. CASE c # "."
  <2>1. PICK w \in Seq(Seq(Char)), l \in Seq(Char) : t = Append(w, l)
    BY LabelSeqEnds
  <2> DEFINE k == Append(l, c)
  <2>2. k \in Seq(Char) /\ k # <<>>
    BY AppendProperties
  <2>3. PutChar(t, c) = Append(w, k)
    BY <1>3, <2>1, PutCharLast
  <2> HIDE DEF first, k
  <2>4. /\ Len(Append(w, k)) = Len(w) + 1 /\ Len(w) \in Nat
        /\ Append(w, k)[Len(w) + 1] = k
    BY <2>2, AppendProperties, LenProperties
  <2>5. ASSUME Append(w, k) = first
        PROVE  FALSE
    <3>1. Len(w) + 1 = 1
      BY <1>1, <2>4, <2>5
    <3>2. first[1] = k
      BY <2>4, <2>5, <3>1
    <3> QED
      BY <1>1, <2>2, <3>2
  <2> QED
    BY <2>3, <2>5 DEF first
<1> QED
  BY <1>2, <1>3

LEMMA LabelsInjective ==
  ASSUME NEW x \in Seq(Char), NEW y \in Seq(Char), Labels(x) = Labels(y)
  PROVE  x = y
<1> DEFINE T == {s \in Seq(Char) : \A t \in Seq(Char) : Labels(s) = Labels(t) => s = t}
<1>1. ASSUME NEW t \in Seq(Char), NEW c \in Char
      PROVE  Labels(Append(t, c)) # Labels(<<>>)
  BY LabelsType, LabelsEmpty, LabelsAppend, PutCharNotFirst
<1>2. <<>> \in T
  <2>1. ASSUME NEW t \in Seq(Char), t # <<>>
        PROVE  Labels(<<>>) # Labels(t)
    <3>1. PICK r \in Seq(Char), e \in Char : t = Append(r, e)
      BY <2>1, SequenceEmptyOrAppend
    <3> QED
      BY <1>1, <3>1
  <2> QED
    BY <2>1, EmptySeq
<1>3. ASSUME NEW s \in Seq(Char), NEW c \in Char, s \in T
      PROVE  Append(s, c) \in T
  <2>1. Append(s, c) \in Seq(Char)
    BY AppendProperties
  <2>2. SUFFICES ASSUME NEW t \in Seq(Char), Labels(Append(s, c)) = Labels(t)
                 PROVE  Append(s, c) = t
    BY <2>1
  <2>3. t # <<>>
    BY <1>1, <2>2
  <2>4. PICK r \in Seq(Char), e \in Char : t = Append(r, e)
    BY <2>3, SequenceEmptyOrAppend
  <2>5. PutChar(Labels(s), c) = PutChar(Labels(r), e)
    BY <2>2, <2>4, LabelsAppend
  <2>6. Labels(s) = Labels(r) /\ c = e
    BY <2>5, LabelsType, PutCharInjective
  <2> QED
    BY <1>3, <2>4, <2>6
<1>4. Seq(Char) \subseteq T
  <2> HIDE DEF T
  <2> QED
    BY <1>2, <1>3, SeqSetInduction
<1> QED
  BY <1>4

(***************************************************************************)
(* Where the labels are a concatenation, the name has a dot.               *)
(***************************************************************************)
Dotted(s, p, q) ==
  \E x, y \in Seq(Char) :
    s = x \o <<".">> \o y /\ Labels(x) = p /\ Labels(y) = q

LEMMA DottedAppend ==
  ASSUME NEW s \in Seq(Char), NEW p, NEW q, NEW c \in Char, Dotted(s, p, q)
  PROVE  Dotted(Append(s, c), p, PutChar(q, c))
<1>1. PICK x \in Seq(Char), y \in Seq(Char) :
        s = x \o <<".">> \o y /\ Labels(x) = p /\ Labels(y) = q
  BY DEF Dotted
<1> DEFINE d == x \o <<".">>
<1>2. d \in Seq(Char)
  <2>1. "." \in Char
    BY DEF Char
  <2> QED
    BY <2>1, EmptySeq, AppendProperties, ConcatProperties
<1>3. Append(s, c) = d \o Append(y, c)
  <2>1. s = d \o y
    BY <1>1
  <2> HIDE DEF d
  <2>2. d \o Append(y, c) = Append(d \o y, c)
    BY <1>2, CharAppend
  <2> QED
    BY <2>1, <2>2
<1>4. Append(y, c) \in Seq(Char)
  BY AppendProperties
<1>5. Labels(Append(y, c)) = PutChar(q, c)
  BY <1>1, LabelsAppend
<1> QED
  BY <1>1, <1>3, <1>4, <1>5 DEF Dotted

LEMMA DottedAtEnd ==
  ASSUME NEW s \in Seq(Char)
  PROVE  Dotted(Append(s, "."), Labels(s), << <<>> >>)
<1>1. "." \in Char /\ <<>> \in Seq(Char)
  BY EmptySeq DEF Char
<1>2. s \o <<".">> \in Seq(Char) /\ Append(s, ".") = s \o <<".">>
  BY <1>1, AppendProperties, AppendIsConcat, ConcatProperties
<1>3. Append(s, ".") = s \o <<".">> \o <<>>
  BY <1>2, ConcatEmptySeq
<1> QED
  BY <1>1, <1>3, LabelsEmpty DEF Dotted

LEMMA LabelsSplit ==
  ASSUME NEW s \in Seq(Char), NEW p \in LabelSeq, NEW q \in LabelSeq,
         Labels(s) = p \o q
  PROVE  Dotted(s, p, q)
<1> DEFINE T == {z \in Seq(Char) :
                   \A r \in LabelSeq, t \in LabelSeq : Labels(z) = r \o t => Dotted(z, r, t)}
<1>1. <<>> \in T
  <2>1. ASSUME NEW r \in LabelSeq, NEW t \in LabelSeq, << <<>> >> = r \o t
        PROVE  FALSE
    <3>1. Len(r) \in Nat \ {0} /\ Len(t) \in Nat \ {0} /\ Len(r \o t) = Len(r) + Len(t)
      BY LabelSeqType, ConcatProperties
    <3>2. Len(<< <<>> >>) = 1
      OBVIOUS
    <3> QED
      BY <2>1, <3>1, <3>2
  <2> QED
    BY <2>1, LabelsEmpty, EmptySeq
<1>2. ASSUME NEW z \in Seq(Char), NEW c \in Char, z \in T
      PROVE  Append(z, c) \in T
  <2>1. Append(z, c) \in Seq(Char)
    BY AppendProperties
  <2>2. SUFFICES ASSUME NEW r \in LabelSeq, NEW t \in LabelSeq,
                        Labels(Append(z, c)) = r \o t
                 PROVE  Dotted(Append(z, c), r, t)
    BY <2>1
  <2>3. PICK v \in Seq(Seq(Char)), k \in Seq(Char) : t = Append(v, k)
    BY LabelSeqEnds
  <2>4. r \in Seq(Seq(Char)) /\ Labels(z) \in LabelSeq /\ Labels(z) \in Seq(Seq(Char))
    BY LabelsType, LabelSeqType
  <2>5. PutChar(Labels(z), c) = Append(r \o v, k) /\ r \o v \in Seq(Seq(Char))
    <3>1. r \o t = Append(r \o v, k)
      BY <2>3, <2>4, LabelAppend
    <3> QED
      BY <2>2, <2>4, <3>1, LabelsAppend, ConcatProperties
  <2>6. CASE c = "."
    <3> DEFINE none == <<>>
    <3>1. none \in Seq(Char)
      BY EmptySeq
    <3>2. PutChar(Labels(z), c) = Append(Labels(z), none)
      BY <2>6 DEF PutChar
    <3>3. Labels(z) = r \o v /\ k = none
      <4> HIDE DEF none
      <4>1. Append(Labels(z), none) = Append(r \o v, k)
        BY <2>5, <3>2
      <4> QED
        BY ZenonT(30), <2>4, <2>5, <3>1, <4>1, LabelSame
    <3>4. CASE v = <<>>
      <4>1. Labels(z) = r
        BY <2>4, <3>3, <3>4, ConcatEmptySeq
      <4>2. t = << <<>> >>
        BY <2>3, <3>3, <3>4
      <4> QED
        BY <2>6, <4>1, <4>2, DottedAtEnd
    <3>5. CASE v # <<>>
      <4>1. v \in LabelSeq
        BY <3>5 DEF LabelSeq
      <4>2. Dotted(z, r, v)
        BY <1>2, <3>3, <4>1
      <4>3. t = PutChar(v, c)
        BY <2>3, <2>6, <3>3 DEF PutChar
      <4> QED
        BY <4>2, <4>3, DottedAppend
    <3> QED
      BY <3>4, <3>5
  <2>7. CASE c # "."
    <3>1. PICK w \in Seq(Seq(Char)), l \in Seq(Char) : Labels(z) = Append(w, l)
      BY <2>4, LabelSeqEnds
    <3> DEFINE lc == Append(l, c)
               u == Append(v, l)
    <3>2. lc \in Seq(Char) /\ u \in LabelSeq
      <4>1. lc \in Seq(Char)
        BY AppendProperties
      <4>2. u \in Seq(Seq(Char)) /\ u # <<>>
        BY LabelAppendType
      <4> QED
        BY <4>1, <4>2 DEF LabelSeq
    <3>3. w = r \o v /\ lc = k
      <4>1. PutChar(Labels(z), c) = Append(w, lc)
        BY <2>7, <3>1, PutCharLast
      <4> HIDE DEF lc, u
      <4>2. Append(w, lc) = Append(r \o v, k)
        BY <2>5, <4>1
      <4>3. r \o v \in Seq(Seq(Char)) /\ lc \in Seq(Char)
        BY <2>5, <3>2
      <4> QED
        BY ONLY <4>2, <4>3, w \in Seq(Seq(Char)), k \in Seq(Char), LabelSame
    <3>4. Labels(z) = r \o u
      <4>1. r \o Append(v, l) = Append(r \o v, l)
        BY <2>4, LabelAppend
      <4> QED
        BY <3>1, <3>3, <4>1
    <3>5. Dotted(z, r, u)
      <4> HIDE DEF u
      <4> QED
        BY <1>2, <3>2, <3>4
    <3>6. t = PutChar(u, c)
      BY <2>3, <2>7, <3>3, PutCharLast
    <3> QED
      <4> HIDE DEF u
      <4> QED
        BY <3>5, <3>6, DottedAppend
  <2> QED
    BY <2>6, <2>7
<1>3. Seq(Char) \subseteq T
  <2> HIDE DEF T
  <2> QED
    BY <1>1, <1>2, SeqSetInduction
<1> QED
  BY <1>3

LEMMA LabelsOne ==
  ASSUME NEW s \in Seq(Char), \A i \in 1..Len(s) : s[i] # "."
  PROVE  Labels(s) = <<s>>
<1> DEFINE T == {z \in Seq(Char) : (\A i \in 1..Len(z) : z[i] # ".") => Labels(z) = <<z>>}
<1>1. <<>> \in T
  BY LabelsEmpty, EmptySeq
<1>2. ASSUME NEW z \in Seq(Char), NEW c \in Char, z \in T
      PROVE  Append(z, c) \in T
  <2> DEFINE y == Append(z, c)
  <2>1. /\ y \in Seq(Char) /\ Len(y) = Len(z) + 1 /\ Len(z) \in Nat
        /\ y[Len(z) + 1] = c /\ \A i \in 1..Len(z) : y[i] = z[i]
    BY AppendProperties, LenProperties
  <2>2. SUFFICES ASSUME \A i \in 1..Len(y) : y[i] # "."
                 PROVE  Labels(y) = <<y>>
    BY <2>1
  <2>3. c # "." /\ \A i \in 1..Len(z) : z[i] # "."
    <3> HIDE DEF y
    <3> QED
      BY <2>1, <2>2
  <2>4. Labels(z) = <<z>> /\ <<z>> = Append(<<>>, z)
    BY <1>2, <2>3
  <2> DEFINE first == <<>>
  <2>5. first \in Seq(Seq(Char))
    BY EmptySeq
  <2>6. PutChar(Append(first, z), c) = Append(first, y)
    <3> HIDE DEF first
    <3> QED
      BY <2>3, <2>5, PutCharLast
  <2>7. Append(first, y) = <<y>>
    OBVIOUS
  <2>8. Labels(z) = Append(first, z)
    BY <2>4
  <2> QED
    <3> HIDE DEF first
    <3> QED
      BY <2>6, <2>7, <2>8, LabelsAppend
<1>3. Seq(Char) \subseteq T
  <2> HIDE DEF T
  <2> QED
    BY <1>1, <1>2, SeqSetInduction
<1> QED
  BY <1>3

(***************************************************************************)
(* IsSuffix and Lower.                                                     *)
(***************************************************************************)
LEMMA SuffixIndex ==
  ASSUME NEW S, NEW s \in Seq(S), NEW t \in Seq(S)
  PROVE  IsSuffix(s, t) <=> /\ Len(s) <= Len(t)
                            /\ \A j \in 1..Len(s) : s[j] = t[Len(t) - Len(s) + j]
<1> DEFINE rs == Reverse(s)
           rt == Reverse(t)
           m == Len(s)
           n == Len(t)
<1>1. /\ m \in Nat /\ n \in Nat
      /\ \A i \in 1..m : s[i] \in S
      /\ \A i \in 1..n : t[i] \in S
  BY LenProperties, ElementOfSeq
<1>2. /\ rs \in Seq(S) /\ Len(rs) = m
      /\ \A i \in 1..m : rs[i] = s[m - i + 1]
  <2>1. \A i \in 1..m : (m - i) + 1 \in 1..m
    BY <1>1
  <2> QED
    BY <1>1, <2>1, IsASeq DEF Reverse
<1>3. /\ rt \in Seq(S) /\ Len(rt) = n
      /\ \A i \in 1..n : rt[i] = t[n - i + 1]
  <2>1. \A i \in 1..n : (n - i) + 1 \in 1..n
    BY <1>1
  <2> QED
    BY <1>1, <2>1, IsASeq DEF Reverse
<1>4. IsSuffix(s, t) <=> m <= n /\ SubSeq(rs, 1, m) = SubSeq(rt, 1, m)
  BY <1>2, <1>3 DEF IsSuffix, IsPrefix
<1>5. ASSUME m <= n
      PROVE  SubSeq(rs, 1, m) = SubSeq(rt, 1, m)
               <=> \A j \in 1..m : s[j] = t[n - m + j]
  <2> DEFINE ps == SubSeq(rs, 1, m)
             pt == SubSeq(rt, 1, m)
  <2> HIDE DEF rs, rt, m, n
  <2>1. /\ ps \in Seq(S) /\ Len(ps) = m
        /\ \A i \in 1..m : ps[i] = rs[i]
    <3>1. 1 \in Int /\ m \in Int /\ \A i \in 1..m : rs[i] \in S
      BY <1>1, <1>2, ElementOfSeq
    <3> QED
      BY <1>1, <3>1, SubSeqProperties
  <2>2. /\ pt \in Seq(S) /\ Len(pt) = m
        /\ \A i \in 1..m : pt[i] = rt[i]
    <3>1. 1 \in Int /\ m \in Int /\ \A i \in 1..m : rt[i] \in S
      BY <1>1, <1>3, <1>5, ElementOfSeq
    <3> QED
      BY <1>1, <3>1, SubSeqProperties
  <2>3. ps = pt <=> \A i \in 1..m : ps[i] = pt[i]
    <3> HIDE DEF ps, pt
    <3> QED
      BY <2>1, <2>2, SeqEqual
  <2> HIDE DEF ps, pt
  <2>4. ASSUME \A i \in 1..m : ps[i] = pt[i], NEW j \in 1..m
        PROVE  s[j] = t[n - m + j]
    <3> DEFINE i == m - j + 1
    <3>1. i \in 1..m /\ i \in 1..n /\ m - i + 1 = j /\ n - i + 1 = n - m + j
      BY <1>1, <1>5
    <3> HIDE DEF i
    <3>2. rs[i] = s[m - i + 1] /\ rt[i] = t[n - i + 1]
      BY <1>2, <1>3, <3>1
    <3>3. rs[i] = s[j] /\ rt[i] = t[n - m + j]
      BY <3>1, <3>2
    <3> QED
      BY <2>1, <2>2, <2>4, <3>1, <3>3
  <2>5. ASSUME \A j \in 1..m : s[j] = t[n - m + j], NEW i \in 1..m
        PROVE  ps[i] = pt[i]
    <3> DEFINE j == m - i + 1
    <3>1. j \in 1..m /\ i \in 1..n /\ n - i + 1 = n - m + j
      BY <1>1, <1>5
    <3>2. rs[i] = s[j] /\ rt[i] = t[n - i + 1]
      BY <1>2, <1>3, <3>1
    <3> HIDE DEF j
    <3> QED
      BY <2>1, <2>2, <2>5, <3>1, <3>2
  <2> QED
    BY <2>3, <2>4, <2>5 DEF ps, pt
<1> QED
  BY <1>4, <1>5

LEMMA SuffixConcat ==
  ASSUME NEW S, NEW s \in Seq(S), NEW t \in Seq(S)
  PROVE  IsSuffix(s, t) <=> \E u \in Seq(S) : t = u \o s
<1> DEFINE m == Len(s)
           n == Len(t)
<1>1. m \in Nat /\ n \in Nat /\ \A i \in 1..n : t[i] \in S
  BY LenProperties, ElementOfSeq
<1>2. ASSUME NEW u \in Seq(S), t = u \o s
      PROVE  IsSuffix(s, t)
  <2>1. /\ Len(u) \in Nat /\ n = Len(u) + m
        /\ \A i \in 1..n : t[i] = IF i <= Len(u) THEN u[i] ELSE s[i - Len(u)]
    BY <1>2, LenProperties, ConcatProperties
  <2>2. ASSUME NEW j \in 1..m
        PROVE  s[j] = t[n - m + j]
    <3> HIDE DEF m, n
    <3> DEFINE i == n - m + j
    <3>1. i \in 1..n /\ ~ (i <= Len(u)) /\ i - Len(u) = j
      BY <1>1, <2>1
    <3> HIDE DEF i
    <3>2. t[i] = s[i - Len(u)]
      BY <2>1, <3>1
    <3>3. t[i] = s[j]
      BY <3>1, <3>2
    <3> QED
      BY <3>3 DEF i
  <2>3. m <= n
    BY <1>1, <2>1
  <2> QED
    BY <2>2, <2>3, SuffixIndex
<1>3. ASSUME IsSuffix(s, t)
      PROVE  \E u \in Seq(S) : t = u \o s
  <2>1. m <= n /\ \A j \in 1..m : s[j] = t[n - m + j]
    BY <1>3, SuffixIndex
  <2> DEFINE u == SubSeq(t, 1, n - m)
  <2> HIDE DEF m, n
  <2>2. u \in Seq(S) /\ Len(u) = n - m /\ \A i \in 1..(n - m) : u[i] = t[i]
    <3>1. 1 \in Int /\ n - m \in Int /\ n - m \in Nat
          /\ \A i \in 1..(n - m) : t[i] \in S
      BY <1>1, <2>1
    <3> QED
      BY <3>1, SubSeqProperties
  <2> HIDE DEF u
  <2>3. /\ u \o s \in Seq(S) /\ Len(u \o s) = n
        /\ \A i \in 1..n : (u \o s)[i] = IF i <= n - m THEN u[i] ELSE s[i - (n - m)]
    BY <1>1, <2>1, <2>2, ConcatProperties DEF m
  <2>4. ASSUME NEW i \in 1..n
        PROVE  t[i] = (u \o s)[i]
    <3>1. CASE i <= n - m
      BY <1>1, <2>1, <2>2, <2>3, <3>1
    <3>2. CASE ~ (i <= n - m)
      <4>1. i - (n - m) \in 1..m /\ n - m + (i - (n - m)) = i
        BY <1>1, <2>1, <3>2
      <4> QED
        BY <2>1, <2>3, <3>2, <4>1
    <3> QED
      BY <3>1, <3>2
  <2>5. t = u \o s
    BY <2>3, <2>4, SeqEqual DEF n
  <2> QED
    BY <2>2, <2>5
<1> QED
  BY <1>2, <1>3

LowerChar(c) == IF c = "A" THEN "a" ELSE c

LEMMA LowerType ==
  ASSUME NEW s \in Seq(Char)
  PROVE  /\ Lower(s) \in Seq(Char) /\ Len(Lower(s)) = Len(s)
         /\ \A i \in 1..Len(s) : Lower(s)[i] = LowerChar(s[i])
<1>1. /\ Len(s) \in Nat /\ DOMAIN s = 1..Len(s)
      /\ \A i \in 1..Len(s) : s[i] \in Char
  BY LenProperties, ElementOfSeq
<1>2. Lower(s) = [i \in 1..Len(s) |-> LowerChar(s[i])]
  BY <1>1 DEF Lower, LowerChar
<1>3. \A i \in 1..Len(s) : LowerChar(s[i]) \in Char
  BY <1>1 DEF LowerChar, Char
<1> QED
  BY <1>1, <1>2, <1>3, IsASeq

LEMMA LowerConcat ==
  ASSUME NEW s \in Seq(Char), NEW t \in Seq(Char)
  PROVE  Lower(s \o t) = Lower(s) \o Lower(t)
<1> DEFINE st == s \o t
           l == Lower(st)
           ls == Lower(s)
           lt == Lower(t)
           r == ls \o lt
<1>1. /\ st \in Seq(Char) /\ Len(st) = Len(s) + Len(t)
      /\ Len(s) \in Nat /\ Len(t) \in Nat
      /\ \A i \in 1..Len(st) : st[i] = IF i <= Len(s) THEN s[i] ELSE t[i - Len(s)]
  BY LenProperties, ConcatProperties
<1>2. /\ l \in Seq(Char) /\ Len(l) = Len(st)
      /\ \A i \in 1..Len(st) : l[i] = LowerChar(st[i])
  <2> HIDE DEF st
  <2> QED
    BY <1>1, LowerType
<1>3. /\ ls \in Seq(Char) /\ Len(ls) = Len(s)
      /\ \A i \in 1..Len(s) : ls[i] = LowerChar(s[i])
  BY LowerType
<1>4. /\ lt \in Seq(Char) /\ Len(lt) = Len(t)
      /\ \A i \in 1..Len(t) : lt[i] = LowerChar(t[i])
  BY LowerType
<1> HIDE DEF st, l, ls, lt
<1>5. /\ r \in Seq(Char) /\ Len(r) = Len(s) + Len(t)
      /\ \A i \in 1..Len(r) : r[i] = IF i <= Len(s) THEN ls[i] ELSE lt[i - Len(s)]
  <2>1. /\ r \in Seq(Char) /\ Len(r) = Len(ls) + Len(lt)
        /\ \A i \in 1..(Len(ls) + Len(lt)) :
              r[i] = IF i <= Len(ls) THEN ls[i] ELSE lt[i - Len(ls)]
    <3>1. ls \in Seq(Char) /\ lt \in Seq(Char)
      BY <1>3, <1>4
    <3> QED
      BY ONLY <3>1, ConcatProperties
  <2> HIDE DEF r
  <2> QED
    BY <1>3, <1>4, <2>1
<1> HIDE DEF r
<1>6. ASSUME NEW i \in 1..Len(st)
      PROVE  l[i] = r[i]
  <2>1. CASE i <= Len(s)
    BY SMTT(30), <1>1, <1>2, <1>3, <1>5, <2>1
  <2>2. CASE ~ (i <= Len(s))
    <3>1. i - Len(s) \in 1..Len(t)
      BY <1>1, <2>2
    <3> QED
      BY <1>1, <1>2, <1>4, <1>5, <2>2, <3>1
  <2> QED
    BY <2>1, <2>2
<1>7. l = r
  BY <1>1, <1>2, <1>5, <1>6, SeqEqual
<1> QED
  BY <1>7 DEF l, r, ls, lt, st

LEMMA LowerDot == Lower(<<".">>) = <<".">> /\ <<".">> \in Seq(Char) /\ "." \in Char
<1>1. "." \in Char
  BY DEF Char
<1>2. <<".">> \in Seq(Char) /\ Len(<<".">>) = 1 /\ <<".">>[1] = "."
  BY <1>1
<1> DEFINE dot == <<".">>
<1>3. /\ Lower(dot) \in Seq(Char) /\ Len(Lower(dot)) = Len(dot)
      /\ \A i \in 1..Len(dot) : Lower(dot)[i] = LowerChar(dot[i])
  <2> HIDE DEF dot
  <2>1. dot \in Seq(Char)
    BY <1>2 DEF dot
  <2> QED
    BY <2>1, LowerType
<1>4. \A i \in 1..1 : Lower(dot)[i] = dot[i]
  <2>1. LowerChar(".") = "."
    BY DEF LowerChar
  <2>2. Lower(dot)[1] = LowerChar(dot[1]) /\ dot[1] = "."
    BY <1>2, <1>3
  <2> QED
    BY <2>1, <2>2
<1>5. Lower(dot) = dot
  <2>1. dot \in Seq(Char) /\ Len(dot) = 1
    BY <1>2
  <2> HIDE DEF dot
  <2> QED
    BY <1>3, <1>4, <2>1, SeqEqual
<1> QED
  BY <1>1, <1>2, <1>5

LEMMA LowerAppendDot ==
  ASSUME NEW s \in Seq(Char)
  PROVE  Lower(Append(s, ".")) = Append(Lower(s), ".")
<1>1. Append(s, ".") = s \o <<".">>
  BY LowerDot, AppendIsConcat
<1>2. Append(Lower(s), ".") = Lower(s) \o <<".">>
  BY LowerDot, LowerType, AppendIsConcat
<1> QED
  BY <1>1, <1>2, LowerDot, LowerConcat

-----------------------------------------------------------------------------
(***************************************************************************)
(* The DNS server's test.                                                  *)
(***************************************************************************)
LEMMA DomainType ==
  /\ Domain \in Seq(Char) /\ Domain # <<>>
  /\ Lower(Domain) \in Seq(Char) /\ Len(Lower(Domain)) = Len(Domain)
  /\ Len(Domain) \in Nat \ {0}
  /\ Zone = Append(Lower(Domain), ".")
<1>1. Domain \in Seq(Char)
  <2>1. {"a", "A", "-", "."} \subseteq Char
    BY DEF Char
  <2> QED
    BY <2>1, DomainAssumption, SeqMonotonic
<1>2. Domain # <<>> /\ Len(Domain) \in Nat \ {0}
  BY <1>1, DomainAssumption, EmptySeq, LenProperties
<1> DEFINE d == Lower(Domain)
<1>3. /\ d \in Seq(Char) /\ Len(d) = Len(Domain)
      /\ \A i \in 1..Len(Domain) : d[i] = LowerChar(Domain[i])
  BY <1>1, LowerType
<1>4. d[Len(d)] # "."
  <2>1. d[Len(Domain)] = LowerChar(Domain[Len(Domain)])
    BY <1>2, <1>3
  <2> QED
    BY <1>3, <2>1, DomainAssumption DEF LowerChar
<1>5. Zone = Append(d, ".")
  BY <1>4 DEF Zone, Fqdn, Last
<1> QED
  BY <1>1, <1>2, <1>3, <1>5

(***************************************************************************)
(* In front of a name with a dot at its end: the domain, or anything, a    *)
(* dot and the domain.                                                     *)
(***************************************************************************)
LEMMA OwnsDotted ==
  ASSUME NEW m \in Seq(Char), NEW name, Lower(Fqdn(name)) = Append(m, ".")
  PROVE  Owns(name) <=> \/ m = Lower(Domain)
                        \/ \E x \in Seq(Char) : m = x \o <<".">> \o Lower(Domain)
<1> DEFINE d == Lower(Domain)
           dot == <<".">>
           dd == dot \o d
<1>1. d \in Seq(Char) /\ dot \in Seq(Char) /\ "." \in Char
  BY DomainType, LowerDot
<1>2. dd \in Seq(Char) /\ dot \o Zone = Append(dd, ".")
  <2>1. dot \o Append(d, ".") = Append(dot \o d, ".")
    <3> HIDE DEF d, dot
    <3> QED
      BY <1>1, CharAppend
  <2> QED
    BY <1>1, <2>1, DomainType, ConcatProperties
<1>3. Owns(name) <=> \/ Append(m, ".") = Append(d, ".")
                     \/ IsSuffix(Append(dd, "."), Append(m, "."))
  BY <1>2, DomainType DEF Owns
<1>4. Append(m, ".") = Append(d, ".") <=> m = d
  <2> HIDE DEF d
  <2> QED
    BY <1>1, CharSame
<1>5. IsSuffix(Append(dd, "."), Append(m, "."))
        <=> \E x \in Seq(Char) : Append(m, ".") = x \o Append(dd, ".")
  <2> HIDE DEF dd
  <2>1. Append(dd, ".") \in Seq(Char) /\ Append(m, ".") \in Seq(Char)
    BY <1>1, <1>2, AppendProperties
  <2> QED
    BY <2>1, SuffixConcat
<1>6. ASSUME NEW x \in Seq(Char)
      PROVE  Append(m, ".") = x \o Append(dd, ".") <=> m = x \o dot \o d
  <2>1. x \o dot \o d = x \o dd
    <3> HIDE DEF d, dot
    <3> QED
      BY SMTT(30), <1>1, ConcatAssociative DEF dd
  <2> HIDE DEF d, dot, dd
  <2>2. x \o Append(dd, ".") = Append(x \o dd, ".") /\ x \o dd \in Seq(Char)
    BY <1>1, <1>2, CharAppend, ConcatProperties
  <2>3. Append(m, ".") = Append(x \o dd, ".") <=> m = x \o dd
    BY <1>1, <2>2, CharSame
  <2> QED
    BY <2>1, <2>2, <2>3
<1> QED
  <2>1. \A x \in Seq(Char) :
           Append(m, ".") = x \o Append(dd, ".") <=> m = x \o dot \o d
    BY <1>6
  <2> HIDE DEF d, dd
  <2>2. Owns(name) <=> \/ m = d
                       \/ \E x \in Seq(Char) : m = x \o dot \o d
    BY <1>3, <1>4, <1>5, <2>1
  <2> QED
    BY <2>2 DEF d

(***************************************************************************)
(* The same said by labels.                                                *)
(***************************************************************************)
LEMMA LabelsSuffix ==
  ASSUME NEW m \in Seq(Char), NEW d \in Seq(Char)
  PROVE  IsSuffix(Labels(d), Labels(m))
           <=> m = d \/ \E x \in Seq(Char) : m = x \o <<".">> \o d
<1>1. /\ Labels(m) \in LabelSeq /\ Labels(d) \in LabelSeq
      /\ Labels(m) \in Seq(Seq(Char)) /\ Labels(d) \in Seq(Seq(Char))
  BY LabelsType, LabelSeqType
<1>2. IsSuffix(Labels(d), Labels(m))
        <=> \E u \in Seq(Seq(Char)) : Labels(m) = u \o Labels(d)
  BY <1>1, SuffixConcat
<1>3. ASSUME NEW u \in Seq(Seq(Char)), Labels(m) = u \o Labels(d)
      PROVE  m = d \/ \E x \in Seq(Char) : m = x \o <<".">> \o d
  <2>1. CASE u = <<>>
    <3>1. Labels(m) = Labels(d)
      BY <1>1, <1>3, <2>1, ConcatEmptySeq
    <3> QED
      BY <3>1, LabelsInjective
  <2>2. CASE u # <<>>
    <3>1. u \in LabelSeq
      BY <2>2 DEF LabelSeq
    <3>2. Dotted(m, u, Labels(d))
      BY <1>1, <1>3, <3>1, LabelsSplit
    <3>3. PICK x \in Seq(Char), y \in Seq(Char) :
             m = x \o <<".">> \o y /\ Labels(y) = Labels(d)
      BY <3>2 DEF Dotted
    <3>4. y = d
      BY <3>3, LabelsInjective
    <3> QED
      BY <3>3, <3>4
  <2> QED
    BY <2>1, <2>2
<1>4. ASSUME m = d
      PROVE  \E u \in Seq(Seq(Char)) : Labels(m) = u \o Labels(d)
  <2>1. <<>> \in Seq(Seq(Char)) /\ Labels(m) = <<>> \o Labels(d)
    BY <1>1, <1>4, EmptySeq, ConcatEmptySeq
  <2> QED
    BY <2>1
<1>5. ASSUME NEW x \in Seq(Char), m = x \o <<".">> \o d
      PROVE  \E u \in Seq(Seq(Char)) : Labels(m) = u \o Labels(d)
  <2>1. Labels(x) \in Seq(Seq(Char)) /\ Labels(m) = Labels(x) \o Labels(d)
    BY <1>5, LabelsType, LabelSeqType, LabelsConcat
  <2> QED
    BY <2>1
<1> QED
  BY <1>2, <1>3, <1>4, <1>5

LEMMA InputsType == Inputs \subseteq Seq(Char)
<1> SUFFICES ASSUME NEW n \in Nat, NEW s \in [1..n -> Char]
             PROVE  s \in Seq(Char)
  BY LabelAssumption DEF Inputs
<1> QED
  BY IsASeq

(***************************************************************************)
(* The DNS server takes a name as its own exactly if the labels of the     *)
(* domain are the last labels of the name, although it compares the end of *)
(* a string (dnsd.go:126-129): "xtest" is not under "test".                *)
(***************************************************************************)
THEOREM OwnsByLabels ==
  ASSUME NEW name \in Seq(Char), name # <<>>, Last(name) # "."
  PROVE  Owns(name) <=> IsSuffix(Labels(Lower(Domain)), Labels(Lower(name)))
<1>1. Lower(name) \in Seq(Char) /\ Lower(Domain) \in Seq(Char)
  BY LowerType, DomainType
<1>2. Lower(Fqdn(name)) = Append(Lower(name), ".")
  BY LowerAppendDot DEF Fqdn
<1> QED
  BY <1>1, <1>2, OwnsDotted, LabelsSuffix

(***************************************************************************)
(* So no name is answered, or refused, against its labels (dnsd.go:106-111). *)
(***************************************************************************)
THEOREM NoneAnsweredWrongly == AnsweredWrongly = {}
<1>1. ASSUME NEW name \in Asked, name # <<>>, Last(name) # "."
      PROVE  (Reply([query |-> TRUE, names |-> <<name>>, type |-> "A"]) = "alias")
               = IsSuffix(Labels(Lower(Domain)), Labels(Lower(name)))
  <2>1. name \in Seq(Char)
    <3>1. PICK s \in Inputs, tail \in {<<>>, Domain, <<".">> \o Domain} : name = s \o tail
      BY SMTT(30) DEF Asked
    <3>2. s \in Seq(Char)
      BY InputsType
    <3>3. <<>> \in Seq(Char) /\ Domain \in Seq(Char) /\ <<".">> \o Domain \in Seq(Char)
      BY DomainType, LowerDot, EmptySeq, ConcatProperties
    <3> QED
      BY <3>1, <3>2, <3>3, ConcatProperties
  <2>2. Owns(name) <=> IsSuffix(Labels(Lower(Domain)), Labels(Lower(name)))
    BY <1>1, <2>1, OwnsByLabels
  <2>3. Reply([query |-> TRUE, names |-> <<name>>, type |-> "A"]) = "alias" <=> Owns(name)
    BY DEF Reply
  <2>4. IsSuffix(Labels(Lower(Domain)), Labels(Lower(name))) \in BOOLEAN
    BY DEF IsSuffix, IsPrefix
  <2> QED
    BY <2>2, <2>3, <2>4
<1> QED
  BY <1>1 DEF AnsweredWrongly

(***************************************************************************)
(* LetterAt is the increasing enumeration of the places of the letters,    *)
(* and the only one.                                                       *)
(***************************************************************************)
IsLetter(c) == LowerChar(c) = "a"

Enumerates(f, s) ==
  /\ \A k \in 1..Len(f) : f[k] \in 1..Len(s) /\ IsLetter(s[f[k]])
  /\ \A i \in 1..Len(s) : IsLetter(s[i]) => \E k \in 1..Len(f) : f[k] = i
  /\ \A k, l \in 1..Len(f) : k < l => f[k] < f[l]

LEMMA LetterAtStep ==
  ASSUME NEW s \in Seq(Char), NEW c \in Char
  PROVE  /\ LetterAt(s) \in Seq(Nat)
         /\ LetterAt(Append(s, c))
              = IF IsLetter(c) THEN Append(LetterAt(s), Len(s) + 1) ELSE LetterAt(s)
<1>1. Lower(<<c>>)[1] = LowerChar(c)
  <2>1. <<c>> \in Seq(Char) /\ Len(<<c>>) = 1 /\ <<c>>[1] = c
    OBVIOUS
  <2> DEFINE u == <<c>>
  <2>2. u \in Seq(Char) /\ Len(u) = 1 /\ u[1] = c
    BY <2>1
  <2> HIDE DEF u
  <2>3. Lower(u)[1] = LowerChar(u[1])
    BY <2>2, LowerType
  <2>4. Lower(u)[1] = LowerChar(c)
    BY <2>2, <2>3
  <2> QED
    BY <2>4 DEF u
<1>2. LetterAt(Append(s, c)) = PutLetter(LetterAt(s), LowerChar(c), Len(s) + 1)
  BY <1>1, LetterAtAppend
<1> QED
  BY <1>2, LetterAtAppend DEF PutLetter, IsLetter

LEMMA EnumeratesAppend ==
  ASSUME NEW s \in Seq(Char), NEW f \in Seq(Nat), NEW c \in Char, Enumerates(f, s)
  PROVE  Enumerates(IF IsLetter(c) THEN Append(f, Len(s) + 1) ELSE f, Append(s, c))
<1> DEFINE z == Append(s, c)
           g == Append(f, Len(s) + 1)
           m == Len(f)
           n == Len(s)
<1>1. /\ n \in Nat /\ Len(z) = n + 1 /\ z[n + 1] = c
      /\ \A i \in 1..n : z[i] = s[i]
  BY AppendProperties, LenProperties
<1>2. /\ m \in Nat /\ Len(g) = m + 1 /\ g[m + 1] = n + 1
      /\ \A k \in 1..m : g[k] = f[k]
  BY <1>1, AppendProperties, LenProperties
<1>3. /\ \A k \in 1..m : f[k] \in 1..n /\ IsLetter(s[f[k]])
      /\ \A i \in 1..n : IsLetter(s[i]) => \E k \in 1..m : f[k] = i
      /\ \A k, l \in 1..m : k < l => f[k] < f[l]
  BY DEF Enumerates
<1> HIDE DEF z, g, m, n
<1>4. CASE IsLetter(c)
  <2>1. ASSUME NEW k \in 1..(m + 1)
        PROVE  g[k] \in 1..(n + 1) /\ IsLetter(z[g[k]])
    <3>1. CASE k = m + 1
      BY <1>1, <1>2, <1>4, <3>1
    <3>2. CASE k # m + 1
      <4>1. k \in 1..m
        BY <1>2, <3>2
      <4>2. g[k] = f[k] /\ f[k] \in 1..n /\ IsLetter(s[f[k]]) /\ z[f[k]] = s[f[k]]
        BY <1>1, <1>2, <1>3, <4>1
      <4> QED
        BY <1>1, <4>2
    <3> QED
      BY <3>1, <3>2
  <2>2. ASSUME NEW i \in 1..(n + 1), IsLetter(z[i])
        PROVE  \E k \in 1..(m + 1) : g[k] = i
    <3>1. CASE i = n + 1
      <4>1. m + 1 \in 1..(m + 1) /\ g[m + 1] = i
        BY <1>2, <3>1
      <4> QED
        BY <4>1
    <3>2. CASE i # n + 1
      <4>1. i \in 1..n /\ IsLetter(s[i])
        BY <1>1, <2>2, <3>2
      <4>2. PICK k \in 1..m : f[k] = i
        BY <1>3, <4>1
      <4>3. k \in 1..(m + 1) /\ g[k] = i
        BY <1>2, <4>2
      <4> QED
        BY <4>3
    <3> QED
      BY <3>1, <3>2
  <2>3. ASSUME NEW k \in 1..(m + 1), NEW l \in 1..(m + 1), k < l
        PROVE  g[k] < g[l]
    <3>1. k \in 1..m /\ g[k] = f[k] /\ f[k] \in 1..n
      BY <1>2, <1>3, <2>3
    <3>2. CASE l = m + 1
      BY <1>1, <1>2, <3>1, <3>2
    <3>3. CASE l # m + 1
      <4>1. l \in 1..m
        BY <1>2, <3>3
      <4> QED
        BY <1>2, <1>3, <2>3, <3>1, <4>1
    <3> QED
      BY <3>2, <3>3
  <2>4. Enumerates(g, z)
    BY <1>1, <1>2, <2>1, <2>2, <2>3 DEF Enumerates
  <2> QED
    BY <1>4, <2>4 DEF g, z, n
<1>5. CASE ~ IsLetter(c)
  <2>1. ASSUME NEW k \in 1..m
        PROVE  f[k] \in 1..(n + 1) /\ IsLetter(z[f[k]])
    <3>1. f[k] \in 1..n /\ IsLetter(s[f[k]]) /\ z[f[k]] = s[f[k]]
      BY <1>1, <1>3
    <3> QED
      BY <1>1, <3>1
  <2>2. ASSUME NEW i \in 1..(n + 1), IsLetter(z[i])
        PROVE  \E k \in 1..m : f[k] = i
    <3>1. i # n + 1
      BY <1>1, <1>5, <2>2
    <3>2. i \in 1..n /\ IsLetter(s[i])
      BY <1>1, <2>2, <3>1
    <3> QED
      BY <1>3, <3>2
  <2>3. Enumerates(f, z)
    BY <1>1, <1>3, <2>1, <2>2 DEF Enumerates, m
  <2> QED
    BY <1>5, <2>3 DEF z
<1> QED
  BY <1>4, <1>5

LEMMA LetterAtEnumerates ==
  ASSUME NEW s \in Seq(Char)
  PROVE  LetterAt(s) \in Seq(Nat) /\ Enumerates(LetterAt(s), s)
<1> DEFINE T == {z \in Seq(Char) : Enumerates(LetterAt(z), z)}
<1>1. <<>> \in T
  <2>1. LetterAt(<<>>) = <<>> /\ Len(<<>>) = 0 /\ <<>> \in Seq(Char)
    BY LetterAtEmpty, EmptySeq
  <2> QED
    BY <2>1 DEF Enumerates
<1>2. ASSUME NEW z \in Seq(Char), NEW c \in Char, z \in T
      PROVE  Append(z, c) \in T
  <2>1. Append(z, c) \in Seq(Char)
    BY AppendProperties
  <2> QED
    BY <1>2, <2>1, LetterAtStep, EnumeratesAppend
<1>3. Seq(Char) \subseteq T
  <2> HIDE DEF T
  <2> QED
    BY <1>1, <1>2, SeqSetInduction
<1>4. LetterAt(s) \in Seq(Nat)
  <2>1. "." \in Char
    BY LowerDot
  <2> QED
    BY <2>1, LetterAtStep
<1> QED
  BY <1>3, <1>4

LEMMA EnumeratesUnique ==
  ASSUME NEW s \in Seq(Char), NEW f \in Seq(Nat), Enumerates(f, s)
  PROVE  f = LetterAt(s)
<1> DEFINE T == {z \in Seq(Char) : \A g \in Seq(Nat) : Enumerates(g, z) => g = LetterAt(z)}
<1>1. <<>> \in T
  <2>1. Len(<<>>) = 0 /\ <<>> \in Seq(Char)
    BY EmptySeq
  <2>2. ASSUME NEW g \in Seq(Nat), Enumerates(g, <<>>)
        PROVE  g = <<>>
    <3>1. Len(g) \in Nat /\ \A k \in 1..Len(g) : g[k] \in 1..0
      BY <2>1, <2>2, LenProperties DEF Enumerates
    <3>2. Len(g) = 0
      <4>1. SUFFICES ASSUME Len(g) # 0 PROVE FALSE
        OBVIOUS
      <4>2. 1 \in 1..Len(g)
        BY <3>1, <4>1
      <4> QED
        BY <3>1, <4>2
    <3> QED
      BY <3>2, EmptySeq
  <2> QED
    BY <2>1, <2>2, LetterAtEmpty
<1>2. ASSUME NEW z \in Seq(Char), NEW c \in Char, z \in T
      PROVE  Append(z, c) \in T
  <2> DEFINE y == Append(z, c)
             n == Len(z)
  <2>1. /\ y \in Seq(Char) /\ n \in Nat /\ Len(y) = n + 1 /\ y[n + 1] = c
        /\ \A i \in 1..n : y[i] = z[i]
    BY AppendProperties, LenProperties
  <2>2. SUFFICES ASSUME NEW g \in Seq(Nat), Enumerates(g, y)
                 PROVE  g = LetterAt(y)
    BY <2>1
  <2> DEFINE m == Len(g)
  <2>3. /\ m \in Nat
        /\ \A k \in 1..m : g[k] \in 1..(n + 1) /\ IsLetter(y[g[k]])
        /\ \A i \in 1..(n + 1) : IsLetter(y[i]) => \E k \in 1..m : g[k] = i
        /\ \A k, l \in 1..m : k < l => g[k] < g[l]
    BY <2>1, <2>2, LenProperties DEF Enumerates
  <2>4. LetterAt(y) = IF IsLetter(c) THEN Append(LetterAt(z), n + 1) ELSE LetterAt(z)
    BY LetterAtStep
  <2> HIDE DEF y, n, m
  <2>5. CASE IsLetter(c)
    <3>1. PICK k \in 1..m : g[k] = n + 1
      <4>1. n + 1 \in 1..(n + 1) /\ IsLetter(y[n + 1])
        BY <2>1, <2>5
      <4> QED
        BY <2>3, <4>1
    <3>2. k = m
      <4>1. SUFFICES ASSUME k < m PROVE FALSE
        BY <2>3
      <4>2. m \in 1..m /\ g[k] < g[m] /\ g[m] \in 1..(n + 1)
        BY <2>3, <4>1
      <4> QED
        BY <2>1, <3>1, <4>2
    <3>3. g # <<>>
      BY <2>3, EmptySeq DEF m
    <3>4. PICK h \in Seq(Nat), e \in Nat : g = Append(h, e)
      BY <3>3, SequenceEmptyOrAppend
    <3>5. /\ m = Len(h) + 1 /\ Len(h) \in Nat /\ g[Len(h) + 1] = e
          /\ \A i \in 1..Len(h) : g[i] = h[i]
      BY <3>4, AppendProperties, LenProperties DEF m
    <3>6. e = n + 1
      BY <3>1, <3>2, <3>5
    <3>7. ASSUME NEW i \in 1..Len(h)
          PROVE  h[i] \in 1..n /\ IsLetter(z[h[i]])
      <4>1. i \in 1..m /\ m \in 1..m /\ i < m /\ g[i] = h[i] /\ g[m] = n + 1
        BY SMTT(30), <3>1, <3>2, <3>5
      <4>2. g[i] \in 1..(n + 1) /\ g[i] < g[m] /\ IsLetter(y[g[i]])
        BY <2>3, <4>1
      <4>3. h[i] \in 1..n
        BY <2>1, <4>1, <4>2
      <4> QED
        BY SMTT(30), <2>1, <4>1, <4>2, <4>3
    <3>8. ASSUME NEW i \in 1..n, IsLetter(z[i])
          PROVE  \E l \in 1..Len(h) : h[l] = i
      <4>1. i \in 1..(n + 1) /\ IsLetter(y[i])
        BY <2>1, <3>8
      <4>2. PICK l \in 1..m : g[l] = i
        BY <2>3, <4>1
      <4>3. l # m
        BY <2>1, <3>1, <3>2, <4>2
      <4>4. l \in 1..Len(h)
        BY <3>5, <4>2, <4>3
      <4>5. h[l] = i
        BY <3>5, <4>2, <4>4
      <4> QED
        BY <4>4, <4>5
    <3>9. ASSUME NEW i \in 1..Len(h), NEW l \in 1..Len(h), i < l
          PROVE  h[i] < h[l]
      <4>1. i \in 1..m /\ l \in 1..m
        BY SMTT(30), <3>5
      <4>2. g[i] = h[i] /\ g[l] = h[l]
        BY <3>5
      <4> QED
        BY <2>3, <3>9, <4>1, <4>2
    <3>10. Enumerates(h, z)
      BY <3>7, <3>8, <3>9 DEF Enumerates, n
    <3>11. h = LetterAt(z)
      BY <1>2, <3>10
    <3> QED
      BY <2>4, <2>5, <3>4, <3>6, <3>11
  <2>6. CASE ~ IsLetter(c)
    <3>1. ASSUME NEW k \in 1..m
          PROVE  g[k] \in 1..n /\ IsLetter(z[g[k]])
      <4>1. g[k] \in 1..(n + 1) /\ IsLetter(y[g[k]])
        BY <2>3
      <4>2. g[k] # n + 1
        BY <2>1, <2>6, <4>1
      <4>3. g[k] \in 1..n
        BY <2>1, <4>1, <4>2
      <4> QED
        BY <2>1, <4>1, <4>3
    <3>2. ASSUME NEW i \in 1..n, IsLetter(z[i])
          PROVE  \E k \in 1..m : g[k] = i
      <4>1. i \in 1..(n + 1) /\ IsLetter(y[i])
        BY <2>1, <3>2
      <4> QED
        BY <2>3, <4>1
    <3>3. Enumerates(g, z)
      BY <2>3, <3>1, <3>2 DEF Enumerates, n, m
    <3> QED
      BY <1>2, <2>4, <2>6, <3>3
  <2> QED
    BY <2>5, <2>6 DEF y
<1>3. Seq(Char) \subseteq T
  <2> HIDE DEF T
  <2> QED
    BY <1>1, <1>2, SeqSetInduction
<1> QED
  BY <1>3

(***************************************************************************)
(* The pass that makes dashes and DashRuns keep the letters in their order *)
(* and leave one dash where anything stood between two of them.            *)
(***************************************************************************)
DashChar(c) == IF LabelChar(LowerChar(c)) THEN LowerChar(c) ELSE "-"

Dashed(s) ==
  [i \in DOMAIN Lower(s) |-> IF LabelChar(Lower(s)[i]) THEN Lower(s)[i] ELSE "-"]

LabelChars == {"a", "-"}

LEMMA LabelCharsType == LabelChars \subseteq Char /\ Seq(LabelChars) \subseteq Seq(Char)
<1>1. LabelChars \subseteq Char
  BY DEF LabelChars, Char
<1> QED
  BY <1>1, SeqMonotonic

LEMMA DashCharType ==
  ASSUME NEW c \in Char
  PROVE  /\ DashChar(c) \in LabelChars
         /\ DashChar(c) = "a" <=> IsLetter(c)
  BY DEF DashChar, LabelChar, LabelChars, LowerChar, IsLetter, Char

LEMMA DashedType ==
  ASSUME NEW s \in Seq(Char)
  PROVE  /\ Dashed(s) \in Seq(LabelChars) /\ Len(Dashed(s)) = Len(s)
         /\ \A i \in 1..Len(s) : Dashed(s)[i] = DashChar(s[i])
<1>1. /\ Lower(s) \in Seq(Char) /\ Len(Lower(s)) = Len(s) /\ Len(s) \in Nat
      /\ \A i \in 1..Len(s) : Lower(s)[i] = LowerChar(s[i]) /\ s[i] \in Char
  BY LowerType, LenProperties, ElementOfSeq
<1>2. DOMAIN Lower(s) = 1..Len(s)
  BY <1>1, LenProperties
<1>3. Dashed(s) = [i \in 1..Len(s) |-> DashChar(s[i])]
  BY <1>1, <1>2 DEF Dashed, DashChar
<1>4. \A i \in 1..Len(s) : DashChar(s[i]) \in LabelChars
  BY <1>1, DashCharType
<1> QED
  BY <1>1, <1>3, <1>4, IsASeq

LEMMA DashedAppend ==
  ASSUME NEW s \in Seq(Char), NEW c \in Char
  PROVE  Dashed(Append(s, c)) = Append(Dashed(s), DashChar(c))
<1> DEFINE z == Append(s, c)
           l == Dashed(z)
           d == Dashed(s)
           r == Append(d, DashChar(c))
           n == Len(s)
<1>1. /\ z \in Seq(Char) /\ n \in Nat /\ Len(z) = n + 1 /\ z[n + 1] = c
      /\ \A i \in 1..n : z[i] = s[i]
  BY AppendProperties, LenProperties
<1>2. d \in Seq(LabelChars) /\ Len(d) = n /\ \A i \in 1..n : d[i] = DashChar(s[i])
  BY DashedType
<1>3. /\ l \in Seq(LabelChars) /\ Len(l) = n + 1
      /\ \A i \in 1..(n + 1) : l[i] = DashChar(z[i])
  <2> HIDE DEF z, n
  <2> QED
    BY <1>1, DashedType
<1> HIDE DEF d
<1>4. /\ r \in Seq(LabelChars) /\ Len(r) = n + 1 /\ r[n + 1] = DashChar(c)
      /\ \A i \in 1..n : r[i] = d[i]
  BY <1>2, DashCharType, AppendProperties
<1> HIDE DEF z, l, r, n
<1>5. ASSUME NEW i \in 1..(n + 1)
      PROVE  l[i] = r[i]
  <2>1. CASE i = n + 1
    BY <1>1, <1>3, <1>4, <2>1
  <2>2. CASE i # n + 1
    <3>1. i \in 1..n
      BY <1>1, <2>2
    <3> QED
      BY <1>1, <1>2, <1>3, <1>4, <3>1
  <2> QED
    BY <2>1, <2>2
<1>6. l = r
  BY <1>3, <1>4, <1>5, SeqEqual
<1> QED
  BY <1>6 DEF l, r, d, z

NoDashPair(r) == \A i \in 2..Len(r) : r[i] = "a" \/ r[i - 1] = "a"

(* The distance of two letters once the runs between them are one dash. *)
Gap(f, i) == IF f[i] = f[i - 1] + 1 THEN 1 ELSE 2

Aligned(n, r, from, at) ==
  /\ NoDashPair(r)
  /\ Len(at) = Len(from)
  /\ \A i \in 2..Len(at) : at[i] - at[i - 1] = Gap(from, i)
  /\ Len(at) # 0 =>
       Len(r) - at[Len(at)] = IF from[Len(from)] = n THEN 0 ELSE 1

LEMMA AlignedLetter ==
  ASSUME NEW n \in Nat, NEW r \in Seq(LabelChars), NEW from \in Seq(Nat),
         NEW at \in Seq(Nat), Aligned(n, r, from, at)
  PROVE  Aligned(n + 1, Append(r, "a"), Append(from, n + 1), Append(at, Len(r) + 1))
<1> DEFINE r1 == Append(r, "a")
           f1 == Append(from, n + 1)
           a1 == Append(at, Len(r) + 1)
           m == Len(at)
           k == Len(r)
<1>1. m \in Nat /\ k \in Nat /\ Len(from) = m
  BY LenProperties DEF Aligned
<1>2. /\ \A i \in 2..k : r[i] = "a" \/ r[i - 1] = "a"
      /\ \A i \in 2..m : at[i] - at[i - 1] = Gap(from, i)
      /\ m # 0 => k - at[m] = IF from[m] = n THEN 0 ELSE 1
  BY <1>1 DEF Aligned, NoDashPair
<1>3. Len(r1) = k + 1 /\ r1[k + 1] = "a" /\ \A i \in 1..k : r1[i] = r[i]
  BY AppendProperties DEF LabelChars
<1>4. Len(f1) = m + 1 /\ f1[m + 1] = n + 1 /\ \A i \in 1..m : f1[i] = from[i]
  BY <1>1, AppendProperties
<1>5. Len(a1) = m + 1 /\ a1[m + 1] = k + 1 /\ \A i \in 1..m : a1[i] = at[i]
  BY <1>1, AppendProperties
<1>6. \A i \in 1..m : at[i] \in Nat /\ from[i] \in Nat
  BY <1>1, ElementOfSeq
<1> HIDE DEF r1, f1, a1, m, k
<1>7. ASSUME NEW i \in 2..(k + 1)
      PROVE  r1[i] = "a" \/ r1[i - 1] = "a"
  <2>1. CASE i = k + 1
    BY <1>3, <2>1
  <2>2. CASE i # k + 1
    <3>1. i \in 2..k /\ i \in 1..k /\ i - 1 \in 1..k
      BY <1>1, <2>2
    <3> QED
      BY <1>2, <1>3, <3>1
  <2> QED
    BY <2>1, <2>2
<1>8. ASSUME NEW i \in 2..(m + 1)
      PROVE  a1[i] - a1[i - 1] = Gap(f1, i)
  <2>1. CASE i = m + 1
    <3>1. i - 1 = m /\ m \in 1..m /\ m # 0
      BY <1>1, <2>1
    <3>2. a1[i] = k + 1 /\ a1[i - 1] = at[m] /\ f1[i] = n + 1 /\ f1[i - 1] = from[m]
      BY <1>4, <1>5, <2>1, <3>1
    <3>3. at[m] \in Nat /\ from[m] \in Nat
      BY <1>6, <3>1
    <3>4. k - at[m] = IF from[m] = n THEN 0 ELSE 1
      BY <1>2, <3>1
    <3>5. (k + 1) - at[m] = IF n + 1 = from[m] + 1 THEN 1 ELSE 2
      <4> DEFINE x == at[m]
                 y == from[m]
      <4>1. x \in Nat /\ y \in Nat /\ k - x = IF y = n THEN 0 ELSE 1
        BY <3>3, <3>4
      <4> HIDE DEF x, y
      <4>2. CASE y = n
        BY SMTT(30), <1>1, <4>1, <4>2 DEF x, y
      <4>3. CASE y # n
        <5>1. k - x = 1 /\ n + 1 # y + 1
          BY <1>1, <4>1, <4>3
        <5>2. (k + 1) - x = 2
          BY <1>1, <4>1, <5>1
        <5> QED
          BY <5>1, <5>2 DEF x, y
      <4> QED
        BY <4>2, <4>3
    <3>6. Gap(f1, i) = IF n + 1 = from[m] + 1 THEN 1 ELSE 2
      BY <3>2 DEF Gap
    <3>7. a1[i] - a1[i - 1] = (k + 1) - at[m]
      BY <3>2
    <3> QED
      BY <3>5, <3>6, <3>7
  <2>2. CASE i # m + 1
    <3>1. i \in 2..m /\ i \in 1..m /\ i - 1 \in 1..m
      BY <1>1, <2>2
    <3> QED
      BY <1>2, <1>4, <1>5, <3>1 DEF Gap
  <2> QED
    BY <2>1, <2>2
<1>9. Len(r1) - a1[Len(a1)] = 0 /\ f1[Len(f1)] = n + 1
  BY <1>1, <1>3, <1>4, <1>5
<1> QED
  <2>1. Aligned(n + 1, r1, f1, a1)
    BY <1>3, <1>4, <1>5, <1>7, <1>8, <1>9 DEF Aligned, NoDashPair
  <2> QED
    BY <2>1 DEF r1, f1, a1, k

(***************************************************************************)
(* Where the last letter stands.                                           *)
(***************************************************************************)
LEMMA LastLetter ==
  ASSUME NEW r \in Seq(LabelChars), r # <<>>, NEW at \in Seq(Nat), Enumerates(at, r)
  PROVE  /\ Len(at) \in Nat /\ Len(r) \in Nat \ {0}
         /\ Len(at) # 0 => at[Len(at)] \in 1..Len(r)
         /\ r[Len(r)] = "a" => Len(at) # 0 /\ at[Len(at)] = Len(r)
         /\ r[Len(r)] # "a" => (Len(at) # 0 => at[Len(at)] # Len(r))
<1> DEFINE m == Len(at)
           k == Len(r)
<1>1. m \in Nat /\ k \in Nat \ {0} /\ \A i \in 1..k : r[i] \in LabelChars
  BY LenProperties, EmptySeq, ElementOfSeq
<1>2. \A i \in 1..k : IsLetter(r[i]) <=> r[i] = "a"
  BY <1>1 DEF LabelChars, IsLetter, LowerChar
<1>3. /\ \A i \in 1..m : at[i] \in 1..k /\ IsLetter(r[at[i]])
      /\ \A i \in 1..k : IsLetter(r[i]) => \E j \in 1..m : at[j] = i
      /\ \A i, j \in 1..m : i < j => at[i] < at[j]
  BY DEF Enumerates
<1> HIDE DEF m, k
<1>4. ASSUME m # 0
      PROVE  at[m] \in 1..k /\ r[at[m]] = "a"
  <2>1. m \in 1..m
    BY <1>1, <1>4
  <2> QED
    BY <1>2, <1>3, <2>1
<1>5. ASSUME r[k] = "a"
      PROVE  m # 0 /\ at[m] = k
  <2>1. k \in 1..k
    BY <1>1
  <2>2. PICK j \in 1..m : at[j] = k
    BY <1>2, <1>3, <1>5, <2>1
  <2>3. m \in 1..m /\ at[m] \in 1..k
    BY <1>1, <1>3
  <2>4. CASE j = m
    BY <1>1, <2>2, <2>3, <2>4
  <2>5. CASE j # m
    <3>1. j < m
      BY <1>1, <2>5
    <3>2. at[j] < at[m]
      BY <1>3, <2>3, <3>1
    <3> QED
      BY <1>1, <2>2, <2>3, <3>2
  <2> QED
    BY <2>4, <2>5
<1> QED
  BY <1>1, <1>4, <1>5 DEF m, k

LEMMA AlignedDash ==
  ASSUME NEW n \in Nat, NEW r \in Seq(LabelChars), NEW from \in Seq(Nat),
         NEW at \in Seq(Nat), Aligned(n, r, from, at), Enumerates(at, r),
         \A i \in 1..Len(from) : from[i] \in 1..n
  PROVE  Aligned(n + 1, PutDash(r, "-"), from, at)
<1> DEFINE m == Len(at)
           k == Len(r)
<1>1. m \in Nat /\ k \in Nat /\ Len(from) = m
  BY LenProperties DEF Aligned
<1>2. /\ \A i \in 2..k : r[i] = "a" \/ r[i - 1] = "a"
      /\ \A i \in 2..m : at[i] - at[i - 1] = Gap(from, i)
      /\ m # 0 => k - at[m] = IF from[m] = n THEN 0 ELSE 1
  BY <1>1 DEF Aligned, NoDashPair
<1>3. /\ m # 0 => from[m] \in 1..n /\ from[m] # n + 1
      /\ \A i \in 1..m : at[i] \in 1..k
  <2>1. m # 0 => m \in 1..m
    BY <1>1
  <2> QED
    BY <1>1, <2>1 DEF Enumerates
<1>4. r = <<>> <=> k = 0
  BY EmptySeq
<1>5. CASE r # <<>> /\ r[k] = "-"
  <2>1. PutDash(r, "-") = r
    BY <1>5 DEF PutDash, Last
  <2>2. m # 0 => at[m] \in 1..k /\ at[m] # k
    BY <1>5, LastLetter
  <2>3. m # 0 => k - at[m] = 1
    <3> HIDE DEF m, k
    <3> QED
      BY <1>1, <1>2, <2>2
  <2> QED
    BY <1>1, <1>2, <1>3, <2>1, <2>3 DEF Aligned, NoDashPair
<1>6. CASE r = <<>> \/ r[k] # "-"
  <2> DEFINE r1 == Append(r, "-")
  <2>1. PutDash(r, "-") = r1
    BY <1>6 DEF PutDash, Last
  <2>2. Len(r1) = k + 1 /\ r1[k + 1] = "-" /\ \A i \in 1..k : r1[i] = r[i]
    BY AppendProperties DEF LabelChars
  <2>3. k # 0 => r[k] = "a"
    <3>1. k # 0 => r[k] \in LabelChars
      BY <1>1, ElementOfSeq
    <3> QED
      BY <1>4, <1>6, <3>1 DEF LabelChars
  <2>4. m # 0 => at[m] = k
    <3>1. m # 0 => k # 0
      <4>1. m # 0 => m \in 1..m
        BY <1>1
      <4> HIDE DEF m, k
      <4> QED
        BY <1>1, <1>3, <4>1
    <3> QED
      BY <1>4, <2>3, <3>1, LastLetter
  <2> HIDE DEF r1
  <2>5. ASSUME NEW i \in 2..(k + 1)
        PROVE  r1[i] = "a" \/ r1[i - 1] = "a"
    <3> HIDE DEF k
    <3>1. CASE i = k + 1
      <4>1. i - 1 = k /\ k \in 1..k /\ k # 0
        BY <1>1, <3>1
      <4> QED
        BY <2>2, <2>3, <4>1
    <3>2. CASE i # k + 1
      <4>1. i \in 2..k /\ i \in 1..k /\ i - 1 \in 1..k
        BY <1>1, <3>2
      <4> QED
        BY <1>2, <2>2, <4>1
    <3> QED
      BY <3>1, <3>2
  <2>6. m # 0 => Len(r1) - at[m] = 1
    <3> HIDE DEF m, k
    <3> QED
      BY <1>1, <2>2, <2>4
  <2> QED
    BY <1>1, <1>2, <1>3, <2>1, <2>2, <2>5, <2>6 DEF Aligned, NoDashPair
<1> QED
  <2>1. k # 0 => r[k] \in LabelChars
    BY <1>1, ElementOfSeq
  <2> QED
    BY <1>5, <1>6

LEMMA DashRunsAligned ==
  ASSUME NEW s \in Seq(Char)
  PROVE  /\ DashRuns(Dashed(s)) \in Seq(LabelChars)
         /\ Aligned(Len(s), DashRuns(Dashed(s)), LetterAt(s), LetterAt(DashRuns(Dashed(s))))
<1> DEFINE r(z) == DashRuns(Dashed(z))
           T == {z \in Seq(Char) :
                   /\ r(z) \in Seq(LabelChars)
                   /\ Aligned(Len(z), r(z), LetterAt(z), LetterAt(r(z)))}
<1>1. <<>> \in T
  <2>1. <<>> \in Seq(Char) /\ Len(<<>>) = 0 /\ <<>> \in Seq(LabelChars)
    BY EmptySeq
  <2>2. Dashed(<<>>) = <<>>
    BY <2>1, DashedType, EmptySeq
  <2>3. r(<<>>) = <<>> /\ LetterAt(<<>>) = <<>>
    BY <2>2, DashRunsEmpty, LetterAtEmpty
  <2>4. Aligned(0, <<>>, <<>>, <<>>)
    BY <2>1 DEF Aligned, NoDashPair
  <2> QED
    BY <2>1, <2>3, <2>4
<1>2. ASSUME NEW z \in Seq(Char), NEW c \in Char, z \in T
      PROVE  Append(z, c) \in T
  <2> DEFINE y == Append(z, c)
             n == Len(z)
             q == r(z)
             from == LetterAt(z)
             at == LetterAt(q)
  <2> SUFFICES y \in T
    OBVIOUS
  <2>1. y \in Seq(Char) /\ Len(y) = n + 1 /\ n \in Nat
    BY AppendProperties, LenProperties
  <2>2. q \in Seq(LabelChars) /\ q \in Seq(Char) /\ Aligned(n, q, from, at)
    BY <1>2, LabelCharsType
  <2>3. r(y) = PutDash(q, DashChar(c))
    <3>1. Dashed(z) \in Seq(Char) /\ DashChar(c) \in Char
      BY DashedType, DashCharType, LabelCharsType
    <3>2. DashRuns(Append(Dashed(z), DashChar(c))) = PutDash(DashRuns(Dashed(z)), DashChar(c))
      BY <3>1, DashRunsAppend
    <3> QED
      BY <3>2, DashedAppend
  <2>4. from \in Seq(Nat) /\ Enumerates(from, z)
    BY LetterAtEnumerates
  <2>5. at \in Seq(Nat) /\ Enumerates(at, q)
    <3> HIDE DEF q
    <3> QED
      BY <2>2, LetterAtEnumerates
  <2>6. "a" \in Char /\ "-" \in Char /\ "a" \in LabelChars /\ "-" \in LabelChars
        /\ IsLetter("a") /\ ~ IsLetter("-")
    BY DEF Char, LabelChars, IsLetter, LowerChar
  <2>7. LetterAt(y) = IF IsLetter(c) THEN Append(from, n + 1) ELSE from
    BY LetterAtStep
  <2> HIDE DEF y, n, from, q, at, r
  <2>8. CASE IsLetter(c)
    <3>1. DashChar(c) = "a"
      BY <2>8, DashCharType
    <3>2. r(y) = Append(q, "a")
      BY <2>3, <3>1 DEF PutDash
    <3>3. LetterAt(r(y)) = Append(at, Len(q) + 1)
      BY <2>2, <2>6, <3>2, LetterAtStep DEF at
    <3>4. r(y) \in Seq(LabelChars)
      BY <2>2, <2>6, <3>2, AppendProperties
    <3>5. Aligned(n + 1, Append(q, "a"), Append(from, n + 1), Append(at, Len(q) + 1))
      BY <2>1, <2>2, <2>4, <2>5, AlignedLetter
    <3> QED
      BY <2>1, <2>7, <2>8, <3>2, <3>3, <3>4, <3>5
  <2>9. CASE ~ IsLetter(c)
    <3>1. DashChar(c) = "-"
      BY <2>9, DashCharType DEF LabelChars
    <3>2. r(y) = PutDash(q, "-")
      BY <2>3, <3>1
    <3>3. LetterAt(r(y)) = at
      <4>1. LetterAt(Append(q, "-")) = at
        BY <2>2, <2>6, LetterAtStep DEF at
      <4> QED
        BY <3>2, <4>1 DEF PutDash, at
    <3>4. r(y) \in Seq(LabelChars)
      BY <2>2, <2>6, <3>2, AppendProperties DEF PutDash
    <3>5. \A i \in 1..Len(from) : from[i] \in 1..n
      BY <2>4 DEF Enumerates, n
    <3>6. Aligned(n + 1, PutDash(q, "-"), from, at)
      BY <2>1, <2>2, <2>4, <2>5, <3>5, AlignedDash
    <3> QED
      BY <2>1, <2>7, <2>9, <3>2, <3>3, <3>4, <3>6
  <2> QED
    BY <2>8, <2>9
<1>3. Seq(Char) \subseteq T
  <2> HIDE DEF T
  <2> QED
    BY <1>1, <1>2, SeqSetInduction
<1> QED
  BY <1>3

(***************************************************************************)
(* Trim and Cut leave a window of the letters.                             *)
(***************************************************************************)
LEMMA LettersOf ==
  ASSUME NEW r \in Seq(LabelChars), NEW at \in Seq(Nat), Enumerates(at, r)
  PROVE  /\ Len(r) \in Nat /\ Len(at) \in Nat
         /\ \A k \in 1..Len(at) : at[k] \in 1..Len(r) /\ r[at[k]] = "a"
         /\ \A i \in 1..Len(r) : r[i] \in {"a", "-"}
         /\ \A i \in 1..Len(r) : r[i] = "a" => \E k \in 1..Len(at) : at[k] = i
         /\ \A k, l \in 1..Len(at) : k < l => at[k] < at[l]
<1>1. Len(r) \in Nat /\ Len(at) \in Nat /\ \A i \in 1..Len(r) : r[i] \in LabelChars
  BY LenProperties, ElementOfSeq
<1>2. \A i \in 1..Len(r) : IsLetter(r[i]) <=> r[i] = "a"
  BY <1>1 DEF LabelChars, IsLetter, LowerChar
<1> QED
  BY <1>1, <1>2 DEF Enumerates, LabelChars

LEMMA WindowIndex ==
  ASSUME NEW r \in Seq(LabelChars), NEW lo \in 1..Len(r), NEW hi \in lo..Len(r)
  PROVE  /\ SubSeq(r, lo, hi) \in Seq(LabelChars)
         /\ Len(SubSeq(r, lo, hi)) = (hi - lo) + 1
         /\ \A p \in 1..((hi - lo) + 1) : SubSeq(r, lo, hi)[p] = r[(lo + p) - 1]
<1>1. Len(r) \in Nat
  BY LenProperties
<1>2. lo \in Int /\ hi \in Int /\ lo <= hi /\ \A i \in lo..hi : r[i] \in LabelChars
  BY <1>1, ElementOfSeq
<1>3. /\ SubSeq(r, lo, hi) \in Seq(LabelChars)
      /\ Len(SubSeq(r, lo, hi)) = hi-lo+1
      /\ \A p \in 1..hi-lo+1 : SubSeq(r, lo, hi)[p] = r[lo+p-1]
  BY <1>2, SubSeqProperties
<1>4. hi-lo+1 = (hi - lo) + 1 /\ \A p \in 1..((hi - lo) + 1) : lo+p-1 = (lo + p) - 1
  BY <1>2
<1> DEFINE w == SubSeq(r, lo, hi)
<1> HIDE DEF w
<1> QED
  BY <1>2, <1>3, <1>4 DEF w

LEMMA FirstIsLeast ==
  ASSUME NEW r \in Seq(LabelChars), NEW at \in Seq(Nat), Enumerates(at, r),
         NEW j \in 1..Len(at)
  PROVE  /\ at[1] \in 1..Len(r) /\ at[j] \in at[1]..Len(r)
         /\ at[j] <= at[Len(at)] /\ at[Len(at)] \in 1..Len(r)
<1> DEFINE m == Len(at)
<1>1. /\ Len(r) \in Nat /\ m \in Nat
      /\ \A k \in 1..m : at[k] \in 1..Len(r)
      /\ \A k, l \in 1..m : k < l => at[k] < at[l]
  BY LettersOf
<1> HIDE DEF m
<1>2. 1 \in 1..m /\ m \in 1..m /\ j \in 1..m
  BY <1>1 DEF m
<1>3. at[1] <= at[j]
  <2>1. CASE j = 1
    BY <1>1, <1>2, <2>1
  <2>2. CASE j # 1
    <3>1. 1 < j
      BY <1>1, <1>2, <2>2
    <3>2. at[1] < at[j] /\ at[1] \in Nat /\ at[j] \in Nat
      BY <1>1, <1>2, <3>1
    <3> QED
      BY <3>2
  <2> QED
    BY <2>1, <2>2
<1>4. at[j] <= at[m]
  <2>1. CASE j = m
    BY <1>1, <1>2, <2>1
  <2>2. CASE j # m
    <3>1. j < m
      BY <1>1, <1>2, <2>2
    <3>2. at[j] < at[m] /\ at[j] \in Nat /\ at[m] \in Nat
      BY <1>1, <1>2, <3>1
    <3> QED
      BY <3>2
  <2> QED
    BY <2>1, <2>2
<1>5. at[1] \in 1..Len(r) /\ at[j] \in 1..Len(r) /\ at[m] \in 1..Len(r)
  BY <1>1, <1>2
<1> QED
  BY <1>1, <1>3, <1>4, <1>5 DEF m

LEMMA TrimWindow ==
  ASSUME NEW r \in Seq(LabelChars), NEW at \in Seq(Nat), Enumerates(at, r)
  PROVE  Trim(r) = IF Len(at) = 0 THEN <<>> ELSE SubSeq(r, at[1], at[Len(at)])
<1> DEFINE kept == {i \in DOMAIN r : r[i] # "-"}
           m == Len(at)
<1>1. /\ Len(r) \in Nat /\ m \in Nat /\ DOMAIN r = 1..Len(r)
      /\ \A k \in 1..m : at[k] \in 1..Len(r) /\ r[at[k]] = "a"
      /\ \A i \in 1..Len(r) : r[i] \in {"a", "-"}
      /\ \A i \in 1..Len(r) : r[i] = "a" => \E k \in 1..m : at[k] = i
  BY LettersOf, LenProperties
<1>2. \A i : i \in kept <=> \E k \in 1..m : at[k] = i
  <2> HIDE DEF m
  <2>1. ASSUME NEW i \in kept
        PROVE  \E k \in 1..m : at[k] = i
    BY <1>1
  <2>2. ASSUME NEW k \in 1..m
        PROVE  at[k] \in kept
    BY <1>1
  <2> QED
    BY <2>1, <2>2
<1>3. Trim(r) = IF kept = {} THEN <<>> ELSE SubSeq(r, Min(kept), Max(kept))
  BY DEF Trim
<1> HIDE DEF kept
<1>4. CASE m = 0
  <2>1. kept = {}
    BY <1>2, <1>4
  <2> QED
    BY <1>3, <1>4, <2>1
<1>5. CASE m # 0
  <2>1. 1 \in 1..m /\ m \in 1..m
    BY <1>1, <1>5
  <2>2. \A i \in kept : at[1] <= i /\ i <= at[m]
    <3>1. \A k \in 1..m : at[1] <= at[k] /\ at[k] <= at[m]
      <4>1. SUFFICES ASSUME NEW k \in 1..m
                     PROVE  at[1] <= at[k] /\ at[k] <= at[m]
        OBVIOUS
      <4>2. at[1] \in 1..Len(r) /\ at[k] \in at[1]..Len(r) /\ at[k] <= at[m]
        BY FirstIsLeast
      <4> QED
        BY <1>1, <4>2
    <3> QED
      BY <1>2, <3>1
  <2>3. at[1] \in kept /\ at[m] \in kept /\ \A i \in kept : i \in Nat
    BY <1>1, <1>2, <2>1
  <2>4. Min(kept) = at[1]
    <3>1. \A x \in kept : (\A y \in kept : x =< y) => x = at[1]
      BY <2>2, <2>3
    <3> QED
      BY <2>2, <2>3, <3>1 DEF Min
  <2>5. Max(kept) = at[m]
    <3>1. \A x \in kept : (\A y \in kept : x >= y) => x = at[m]
      BY <2>2, <2>3
    <3>2. \A y \in kept : at[m] >= y
      BY <2>2, <2>3
    <3> QED
      BY <2>3, <3>1, <3>2 DEF Max
  <2>6. kept # {}
    BY <2>3
  <2> QED
    BY <1>3, <1>5, <2>4, <2>5, <2>6
<1> QED
  BY <1>4, <1>5

(***************************************************************************)
(* The letters of a window that begins at the first letter and ends at     *)
(* another.                                                                *)
(***************************************************************************)
Shifted(at, j) == [k \in 1..j |-> (at[k] - at[1]) + 1]

LEMMA WindowLetters ==
  ASSUME NEW r \in Seq(LabelChars), NEW at \in Seq(Nat), Enumerates(at, r),
         NEW j \in 1..Len(at)
  PROVE  /\ SubSeq(r, at[1], at[j]) \in Seq(LabelChars)
         /\ Len(SubSeq(r, at[1], at[j])) = (at[j] - at[1]) + 1
         /\ LetterAt(SubSeq(r, at[1], at[j])) = Shifted(at, j)
<1> DEFINE m == Len(at)
           n == Len(r)
           lo == at[1]
           hi == at[j]
           w == SubSeq(r, lo, hi)
           f == Shifted(at, j)
           len == (hi - lo) + 1
<1>1. /\ n \in Nat /\ m \in Nat
      /\ \A k \in 1..m : at[k] \in 1..n /\ r[at[k]] = "a"
      /\ \A i \in 1..n : r[i] = "a" => \E k \in 1..m : at[k] = i
      /\ \A k, l \in 1..m : k < l => at[k] < at[l]
  BY LettersOf
<1>2. lo \in 1..n /\ hi \in lo..n
  BY FirstIsLeast
<1>3. \A k \in 1..m : at[k] >= lo
  <2>1. SUFFICES ASSUME NEW k \in 1..m PROVE at[k] >= lo
    OBVIOUS
  <2>2. at[k] \in at[1]..Len(r) /\ at[1] \in 1..Len(r)
    BY FirstIsLeast
  <2> QED
    BY <1>1, <2>2
<1>4. /\ w \in Seq(LabelChars) /\ Len(w) = len
      /\ \A p \in 1..len : w[p] = r[(lo + p) - 1]
  BY <1>2, WindowIndex
<1>5. j \in 1..m
  OBVIOUS
<1>6. f \in Seq(Nat) /\ Len(f) = j /\ \A k \in 1..j : f[k] = (at[k] - lo) + 1
  <2>1. \A k \in 1..j : (at[k] - lo) + 1 \in Nat
    <3>1. \A k \in 1..j : k \in 1..m
      BY <1>1, <1>5
    <3> QED
      BY <1>1, <1>2, <1>3, <3>1
  <2>2. j \in Nat
    BY <1>1, <1>5
  <2>3. \A k \in 1..j : f[k] = (at[k] - lo) + 1
    BY DEF Shifted
  <2>4. f = [k \in 1..j |-> (at[k] - lo) + 1]
    BY DEF Shifted
  <2> HIDE DEF lo, f
  <2> QED
    BY <2>1, <2>2, <2>3, <2>4, IsASeq
<1> HIDE DEF m, n, lo, hi, w, f
<1>7. len \in Nat
  BY <1>1, <1>2
<1>8. hi = at[j] /\ lo = at[1]
  BY DEF hi, lo
<1>9. ASSUME NEW k \in 1..j
      PROVE  f[k] \in 1..len /\ w[f[k]] = "a"
  <2>1. k \in 1..m /\ at[k] \in 1..n /\ r[at[k]] = "a" /\ at[k] >= lo
    BY <1>1, <1>3, <1>5
  <2>2. at[k] <= hi
    <3>1. CASE k = j
      BY <1>1, <1>2, <1>8, <2>1, <3>1
    <3>2. CASE k # j
      <4>1. k < j
        BY <1>1, <1>5, <3>2
      <4>2. at[k] < at[j] /\ at[j] \in 1..n
        BY <1>1, <1>5, <2>1, <4>1
      <4> QED
        BY <1>1, <1>8, <2>1, <4>2
    <3> QED
      BY <3>1, <3>2
  <2>3. f[k] = (at[k] - lo) + 1
    BY <1>6
  <2>4. f[k] \in 1..len /\ (lo + f[k]) - 1 = at[k]
    <3> DEFINE x == at[k]
    <3>1. x \in 1..n /\ x >= lo /\ x <= hi /\ f[k] = (x - lo) + 1
      BY <2>1, <2>2, <2>3
    <3> HIDE DEF x
    <3> QED
      BY SMTT(30), <1>1, <1>2, <3>1 DEF x
  <2>5. w[f[k]] = r[(lo + f[k]) - 1]
    BY <1>4, <2>4
  <2> QED
    BY <2>1, <2>4, <2>5
<1>10. ASSUME NEW p \in 1..len, w[p] = "a"
      PROVE  \E k \in 1..j : f[k] = p
  <2> DEFINE i == (lo + p) - 1
  <2>1. i \in 1..n /\ i <= hi /\ p = (i - lo) + 1
    BY <1>1, <1>2, <1>7
  <2>2. r[i] = "a"
    BY <1>4, <1>10
  <2> HIDE DEF i
  <2>3. PICK k \in 1..m : at[k] = i
    BY <1>1, <2>1, <2>2
  <2>4. k <= j
    <3>1. SUFFICES ASSUME j < k PROVE FALSE
      BY <1>1, <1>5
    <3>2. at[j] < at[k]
      BY <1>1, <1>5, <3>1
    <3> QED
      BY <1>1, <1>2, <1>8, <2>1, <2>3, <3>2
  <2>5. k \in 1..j
    BY <1>1, <1>5, <2>4
  <2>6. f[k] = p
    BY <1>6, <2>1, <2>3, <2>5
  <2> QED
    BY <2>5, <2>6
<1>11. ASSUME NEW k \in 1..j, NEW l \in 1..j, k < l
       PROVE  f[k] < f[l]
  <2>1. k \in 1..m /\ l \in 1..m
    BY <1>1, <1>5
  <2>2. at[k] < at[l] /\ at[k] \in Nat /\ at[l] \in Nat /\ lo \in Nat
    BY <1>1, <1>2, <1>11, <2>1
  <2> DEFINE x == at[k]
             y == at[l]
  <2>3. f[k] = (x - lo) + 1 /\ f[l] = (y - lo) + 1
    BY <1>6
  <2>4. x < y /\ x \in Nat /\ y \in Nat
    BY <2>2
  <2> HIDE DEF x, y
  <2>5. (x - lo) + 1 < (y - lo) + 1
    BY <2>2, <2>4
  <2> QED
    BY <2>3, <2>5
<1>12. \A p \in 1..len : IsLetter(w[p]) <=> w[p] = "a"
  <2>1. \A p \in 1..len : w[p] \in LabelChars
    BY <1>4, ElementOfSeq
  <2> QED
    BY <2>1 DEF LabelChars, IsLetter, LowerChar
<1>13. Enumerates(f, w)
  BY <1>4, <1>6, <1>9, <1>10, <1>11, <1>12 DEF Enumerates
<1>14. f = LetterAt(w)
  BY <1>4, <1>6, <1>13, LabelCharsType, EnumeratesUnique
<1> QED
  BY <1>4, <1>14 DEF w, lo, hi, f

(***************************************************************************)
(* As many letters as fit.                                                 *)
(***************************************************************************)
Fits(at, j) ==
  /\ j \in 1..Len(at)
  /\ (at[j] - at[1]) + 1 <= MaxLabel
  /\ j < Len(at) => (at[j + 1] - at[1]) + 1 > MaxLabel

LEMMA CutWindow ==
  ASSUME NEW r \in Seq(LabelChars), NEW at \in Seq(Nat), Enumerates(at, r), at # <<>>
  PROVE  \E j : Fits(at, j) /\ CutAndTrim(Trim(r)) = SubSeq(r, at[1], at[j])
<1> DEFINE m == Len(at)
           n == Len(r)
           lo == at[1]
           t == SubSeq(r, lo, at[m])
           len == (at[m] - lo) + 1
<1>1. /\ n \in Nat /\ m \in Nat
      /\ \A k \in 1..m : at[k] \in 1..n /\ r[at[k]] = "a"
      /\ \A i \in 1..n : r[i] = "a" => \E k \in 1..m : at[k] = i
      /\ \A k, l \in 1..m : k < l => at[k] < at[l]
  BY LettersOf
<1>2. m # 0 /\ m \in 1..m /\ 1 \in 1..m
  BY <1>1, EmptySeq
<1>3. lo \in 1..n /\ at[m] \in lo..n
  BY <1>2, FirstIsLeast
<1>4. Trim(r) = t
  BY <1>2, TrimWindow
<1>5. /\ t \in Seq(LabelChars) /\ Len(t) = len /\ LetterAt(t) = Shifted(at, m)
      /\ \A p \in 1..len : t[p] = r[(lo + p) - 1]
  <2>1. t \in Seq(LabelChars) /\ Len(t) = len /\ LetterAt(t) = Shifted(at, m)
    BY <1>2, WindowLetters
  <2>2. \A p \in 1..len : t[p] = r[(lo + p) - 1]
    BY <1>3, WindowIndex
  <2> QED
    BY <2>1, <2>2
<1>6. MaxLabel \in Nat \ {0}
  BY LabelAssumption
<1> HIDE DEF m, n, lo, len
<1>7. len \in Nat \ {0}
  BY <1>1, <1>3 DEF len
<1>8. CASE len <= MaxLabel
  <2>1. CutAndTrim(t) = t
    <3> HIDE DEF t
    <3> QED
      BY <1>5, <1>6, <1>7, <1>8 DEF CutAndTrim
  <2>2. Fits(at, m)
    BY <1>2, <1>8 DEF Fits, m, len, lo
  <2> QED
    BY <1>4, <2>1, <2>2 DEF lo
<1>9. CASE len > MaxLabel
  <2> DEFINE c == SubSeq(t, 1, MaxLabel)
             g == LetterAt(c)
             last == g[Len(g)]
  <2>1. CutAndTrim(t) = Trim(c)
    <3> HIDE DEF t
    <3> QED
      BY <1>5, <1>9 DEF CutAndTrim, Cut
  <2>2. /\ c \in Seq(LabelChars) /\ Len(c) = MaxLabel
        /\ \A p \in 1..MaxLabel : c[p] = t[p]
    <3>1. 1 \in 1..len /\ MaxLabel \in 1..len
      BY <1>6, <1>7, <1>9
    <3>2. /\ c \in Seq(LabelChars) /\ Len(c) = (MaxLabel - 1) + 1
          /\ \A p \in 1..((MaxLabel - 1) + 1) : c[p] = t[(1 + p) - 1]
      <4> HIDE DEF t
      <4>1. 1 \in 1..Len(t) /\ MaxLabel \in 1..Len(t)
        BY <1>5, <3>1
      <4> QED
        BY <1>5, <1>6, <4>1, WindowIndex
    <3> HIDE DEF c, t
    <3>3. (MaxLabel - 1) + 1 = MaxLabel /\ \A p \in 1..MaxLabel : (1 + p) - 1 = p
      BY <1>6
    <3> QED
      BY <3>2, <3>3
  <2>3. g \in Seq(Nat) /\ Enumerates(g, c)
    BY <2>2, LabelCharsType, LetterAtEnumerates
  <2> HIDE DEF c, g, t
  <2>4. /\ Len(g) \in Nat
        /\ \A k \in 1..Len(g) : g[k] \in 1..MaxLabel /\ c[g[k]] = "a"
        /\ \A i \in 1..MaxLabel : c[i] = "a" => \E k \in 1..Len(g) : g[k] = i
        /\ \A k, l \in 1..Len(g) : k < l => g[k] < g[l]
    <3>1. c \in Seq(LabelChars) /\ Len(c) = MaxLabel
      BY <2>2
    <3>2. /\ Len(c) \in Nat /\ Len(g) \in Nat
          /\ \A k \in 1..Len(g) : g[k] \in 1..Len(c) /\ c[g[k]] = "a"
          /\ \A i \in 1..Len(c) : c[i] \in {"a", "-"}
          /\ \A i \in 1..Len(c) : c[i] = "a" => \E k \in 1..Len(g) : g[k] = i
          /\ \A k, l \in 1..Len(g) : k < l => g[k] < g[l]
      BY <2>3, <3>1, LettersOf
    <3> QED
      BY <3>1, <3>2
  <2>5. Len(g) # 0 /\ g[1] = 1
    <3>1. 1 \in 1..MaxLabel /\ 1 \in 1..len /\ (lo + 1) - 1 = lo
      BY <1>1, <1>3, <1>6, <1>7
    <3>2. t[1] = r[(lo + 1) - 1] /\ r[lo] = "a"
      BY <1>1, <1>2, <1>5, <3>1 DEF lo
    <3>3. c[1] = "a"
      BY <2>2, <3>1, <3>2
    <3>4. PICK k \in 1..Len(g) : g[k] = 1
      BY <2>4, <3>1, <3>3
    <3>5. 1 \in 1..Len(g)
      BY <2>4, <3>4
    <3>6. k = 1
      <4>1. SUFFICES ASSUME 1 < k PROVE FALSE
        BY <2>4, <3>4
      <4>2. g[1] < g[k] /\ g[1] \in 1..MaxLabel
        BY <2>4, <3>5, <4>1
      <4> QED
        BY <1>6, <3>4, <4>2
    <3> QED
      BY <2>4, <3>4, <3>5, <3>6
  <2>6. Len(g) \in 1..Len(g) /\ last \in 1..MaxLabel /\ c[last] = "a"
    BY <2>4, <2>5
  <2>7. Trim(c) = SubSeq(c, 1, last)
    BY <2>2, <2>3, <2>5, TrimWindow
  <2> HIDE DEF last
  <2>8. last \in 1..len /\ last \in Nat
    BY <1>6, <1>7, <1>9, <2>6
  <2> DEFINE i == (lo + last) - 1
  <2>9. i \in 1..n /\ r[i] = "a" /\ i \in lo..at[m] /\ last = (i - lo) + 1
    <3>1. i \in 1..n /\ i \in lo..at[m] /\ last = (i - lo) + 1
      BY <1>1, <1>3, <2>8 DEF len
    <3>2. t[last] = r[i] /\ c[last] = t[last]
      BY <1>5, <2>2, <2>6, <2>8
    <3> QED
      BY <2>6, <3>1, <3>2
  <2>10. PICK j \in 1..m : at[j] = i
    <3> HIDE DEF i
    <3> QED
      BY <1>1, <2>9
  <2>11. SubSeq(c, 1, last) = SubSeq(r, lo, i)
    <3> DEFINE u == SubSeq(c, 1, last)
               v == SubSeq(r, lo, i)
    <3>1. /\ u \in Seq(LabelChars) /\ Len(u) = last
          /\ \A p \in 1..last : u[p] = c[p]
      <4>1. 1 \in 1..Len(c) /\ last \in 1..Len(c)
        BY <1>6, <2>2, <2>6
      <4>2. /\ u \in Seq(LabelChars) /\ Len(u) = (last - 1) + 1
            /\ \A p \in 1..((last - 1) + 1) : u[p] = c[(1 + p) - 1]
        BY <2>2, <4>1, WindowIndex
      <4> HIDE DEF u
      <4>3. (last - 1) + 1 = last /\ \A p \in 1..last : (1 + p) - 1 = p
        BY <2>8
      <4> QED
        BY <4>2, <4>3
    <3>2. /\ v \in Seq(LabelChars) /\ Len(v) = last
          /\ \A p \in 1..last : v[p] = r[(lo + p) - 1]
      <4> HIDE DEF i
      <4>1. lo \in 1..Len(r) /\ i \in lo..Len(r)
        BY <1>1, <1>3, <2>9 DEF n
      <4>2. /\ v \in Seq(LabelChars) /\ Len(v) = (i - lo) + 1
            /\ \A p \in 1..((i - lo) + 1) : v[p] = r[(lo + p) - 1]
        BY <4>1, WindowIndex
      <4> QED
        BY <2>9, <4>2
    <3> HIDE DEF u, v
    <3>3. ASSUME NEW p \in 1..last
          PROVE  u[p] = v[p]
      <4>1. p \in 1..MaxLabel /\ p \in 1..len
        BY <1>6, <1>7, <2>6, <2>8
      <4>2. u[p] = c[p] /\ c[p] = t[p] /\ t[p] = r[(lo + p) - 1] /\ v[p] = r[(lo + p) - 1]
        BY <1>5, <2>2, <3>1, <3>2, <4>1
      <4> QED
        BY <4>2
    <3>4. u = v
      BY <3>1, <3>2, <3>3, SeqEqual
    <3> QED
      BY <3>4 DEF u, v
  <2> HIDE DEF i
  <2>12. (at[j] - lo) + 1 <= MaxLabel
    BY <1>6, <2>6, <2>9, <2>10
  <2>13. ASSUME j < m
         PROVE  (at[j + 1] - lo) + 1 > MaxLabel
    <3> DEFINE x == at[j + 1]
               p == (x - lo) + 1
    <3>1. j + 1 \in 1..m /\ j < j + 1
      BY <1>1, <2>13
    <3>2. x \in 1..n /\ r[x] = "a" /\ i < x
      BY <1>1, <2>10, <3>1
    <3>3. x <= at[m]
      <4>1. at[j + 1] <= at[Len(at)]
        BY <3>1, FirstIsLeast DEF m
      <4> QED
        BY <4>1 DEF m
    <3> HIDE DEF x
    <3>4. p \in 1..len /\ (lo + p) - 1 = x /\ p > last
      BY SMTT(30), <1>1, <1>3, <2>8, <2>9, <3>2, <3>3 DEF len
    <3>5. t[p] = "a"
      BY <1>5, <3>2, <3>4
    <3>6. ASSUME p <= MaxLabel
          PROVE  FALSE
      <4> HIDE DEF p
      <4>1. p \in 1..MaxLabel
        BY <1>6, <1>7, <3>4, <3>6
      <4>2. c[p] = "a"
        BY <2>2, <3>5, <4>1
      <4>3. PICK k \in 1..Len(g) : g[k] = p
        BY <2>4, <4>1, <4>2
      <4>4. CASE k = Len(g)
        BY <1>7, <2>8, <3>4, <4>3, <4>4 DEF last
      <4>5. CASE k # Len(g)
        <5>1. k < Len(g)
          BY <2>4, <4>5
        <5>2. g[k] < last
          BY <2>4, <2>6, <5>1 DEF last
        <5> QED
          BY <1>7, <2>8, <3>4, <4>3, <5>2
      <4> QED
        BY <4>4, <4>5
    <3>7. p > MaxLabel
      <4> HIDE DEF p
      <4> QED
        BY <1>6, <1>7, <3>4, <3>6
    <3> QED
      BY <3>7 DEF p, x
  <2>14. Fits(at, j)
    BY <2>10, <2>12, <2>13 DEF Fits, m, lo
  <2>15. CutAndTrim(Trim(r)) = SubSeq(r, lo, at[j])
    BY <1>4, <2>1, <2>7, <2>10, <2>11
  <2> QED
    BY <2>14, <2>15 DEF lo
<1> QED
  BY <1>6, <1>7, <1>8, <1>9

-----------------------------------------------------------------------------
(***************************************************************************)
(* A result of Sanitize, and that it is one label that Sanitize keeps.     *)
(***************************************************************************)
LEMMA SanitizePasses ==
  ASSUME NEW s
  PROVE  Sanitize(s) = CutAndTrim(Trim(DashRuns(Dashed(s))))
  BY DEF Sanitize, Dashed

LEMMA EmptyPasses == CutAndTrim(<<>>) = <<>> /\ Len(<<>>) = 0
  BY LabelAssumption DEF CutAndTrim

LEMMA SanitizeWindow ==
  ASSUME NEW s \in Seq(Char)
  PROVE  LET r == DashRuns(Dashed(s))
             at == LetterAt(r)
         IN  /\ at = <<>> => Sanitize(s) = <<>>
             /\ at # <<>> => \E j : Fits(at, j) /\ Sanitize(s) = SubSeq(r, at[1], at[j])
<1> DEFINE r == DashRuns(Dashed(s))
           at == LetterAt(r)
<1>1. r \in Seq(LabelChars)
  BY DashRunsAligned
<1>2. at \in Seq(Nat) /\ Enumerates(at, r)
  <2> HIDE DEF r
  <2> QED
    BY <1>1, LabelCharsType, LetterAtEnumerates
<1>3. Sanitize(s) = CutAndTrim(Trim(r))
  BY SanitizePasses
<1> HIDE DEF r, at
<1>4. ASSUME at = <<>>
      PROVE  Sanitize(s) = <<>>
  <2>1. Len(at) = 0
    BY <1>4, EmptyPasses
  <2>2. Trim(r) = <<>>
    BY <1>1, <1>2, <2>1, TrimWindow
  <2> QED
    BY <1>3, <2>2, EmptyPasses
<1>5. ASSUME at # <<>>
      PROVE  \E j : Fits(at, j) /\ Sanitize(s) = SubSeq(r, at[1], at[j])
  BY <1>1, <1>2, <1>3, <1>5, CutWindow
<1> QED
  BY <1>4, <1>5 DEF r, at

LEMMA DashedSame ==
  ASSUME NEW t \in Seq(LabelChars)
  PROVE  Dashed(t) = t
<1>1. t \in Seq(Char)
  BY LabelCharsType
<1>2. /\ Dashed(t) \in Seq(LabelChars) /\ Len(Dashed(t)) = Len(t)
      /\ \A i \in 1..Len(t) : Dashed(t)[i] = DashChar(t[i])
  BY <1>1, DashedType
<1>3. \A i \in 1..Len(t) : t[i] \in LabelChars
  BY ElementOfSeq
<1>4. \A c \in LabelChars : DashChar(c) = c
  BY DEF LabelChars, DashChar, LabelChar, LowerChar
<1> QED
  BY <1>2, <1>3, <1>4, SeqEqual

LEMMA DashRunsSame ==
  ASSUME NEW t \in Seq(LabelChars), NoDashPair(t)
  PROVE  DashRuns(t) = t
<1> DEFINE T == {z \in Seq(LabelChars) : NoDashPair(z) => DashRuns(z) = z}
<1>1. <<>> \in T
  BY DashRunsEmpty, EmptySeq
<1>2. ASSUME NEW z \in Seq(LabelChars), NEW c \in LabelChars, z \in T
      PROVE  Append(z, c) \in T
  <2> DEFINE y == Append(z, c)
             n == Len(z)
  <2>1. /\ y \in Seq(LabelChars) /\ n \in Nat /\ Len(y) = n + 1 /\ y[n + 1] = c
        /\ \A i \in 1..n : y[i] = z[i]
    BY AppendProperties, LenProperties
  <2>2. SUFFICES ASSUME NoDashPair(y)
                 PROVE  DashRuns(y) = y
    BY <2>1
  <2>3. z \in Seq(Char) /\ c \in Char
    BY LabelCharsType
  <2>4. DashRuns(y) = PutDash(DashRuns(z), c)
    BY <2>3, DashRunsAppend
  <2>5. \A i \in 2..(n + 1) : y[i] = "a" \/ y[i - 1] = "a"
    BY <2>1, <2>2 DEF NoDashPair
  <2> HIDE DEF y
  <2>6. NoDashPair(z)
    <3>1. SUFFICES ASSUME NEW i \in 2..n
                   PROVE  z[i] = "a" \/ z[i - 1] = "a"
      BY DEF NoDashPair
    <3> HIDE DEF n
    <3>2. i \in 2..(n + 1) /\ i \in 1..n /\ i - 1 \in 1..n
      BY <2>1
    <3> QED
      BY <2>1, <2>5, <3>2
  <2>7. DashRuns(z) = z
    BY <1>2, <2>6
  <2>8. z = <<>> <=> n = 0
    BY EmptySeq
  <2>9. ~ (c = "-" /\ z # <<>> /\ z[n] = "-")
    <3>1. SUFFICES ASSUME c = "-", z # <<>>, z[n] = "-"
                   PROVE  FALSE
      OBVIOUS
    <3>2. n # 0
      BY <2>8, <3>1
    <3> HIDE DEF n
    <3>3. n + 1 \in 2..(n + 1) /\ (n + 1) - 1 = n /\ n \in 1..n
      BY <2>1, <3>2
    <3>4. y[n + 1] = "a" \/ y[n] = "a"
      BY <2>5, <3>3
    <3> QED
      BY <2>1, <3>1, <3>3, <3>4
  <2>10. PutDash(z, c) = y
    BY <2>9 DEF PutDash, Last, y
  <2> QED
    BY <2>4, <2>7, <2>10
<1>3. Seq(LabelChars) \subseteq T
  <2> HIDE DEF T
  <2> QED
    BY <1>1, <1>2, SeqSetInduction
<1> QED
  BY <1>3

(***************************************************************************)
(* What Sanitize does to every input (route.go:90-103): the result is one  *)
(* label of at most MaxLabel characters, with no dash at an end nor two in *)
(* a row; its letters are the first ones of the input, in order, with a    *)
(* dash exactly where something stood between two, and so many as fit.     *)
(***************************************************************************)
THEOREM SanitizeResult ==
  ASSUME NEW s \in Seq(Char)
  PROVE  LET t == Sanitize(s)
         IN  /\ t \in Seq(LabelChars)
             /\ Len(t) <= MaxLabel
             /\ NoDashPair(t)
             /\ Trim(t) = t
             /\ Flattens(s, t)
<1> DEFINE r == DashRuns(Dashed(s))
           at == LetterAt(r)
           from == LetterAt(s)
           t == Sanitize(s)
<1>1. r \in Seq(LabelChars) /\ Aligned(Len(s), r, from, at)
  BY DashRunsAligned
<1>2. at \in Seq(Nat) /\ Enumerates(at, r)
  <2> HIDE DEF r
  <2> QED
    BY <1>1, LabelCharsType, LetterAtEnumerates
<1>3. from \in Seq(Nat)
  BY LetterAtEnumerates
<1>4. /\ at = <<>> => t = <<>>
      /\ at # <<>> => \E j : Fits(at, j) /\ t = SubSeq(r, at[1], at[j])
  BY SanitizeWindow
<1>5. MaxLabel \in Nat \ {0}
  BY LabelAssumption
<1> HIDE DEF r, at, from, t
<1>6. Len(at) \in Nat /\ Len(from) = Len(at)
  BY <1>1, <1>2, LenProperties DEF Aligned
<1>7. CASE at = <<>>
  <2>1. t = <<>> /\ Len(at) = 0 /\ Len(from) = 0
    BY <1>4, <1>6, <1>7, EmptySeq
  <2>2. <<>> \in Seq(LabelChars) /\ <<>> \in Seq(Char) /\ Len(<<>>) = 0
    BY EmptySeq
  <2>3. Trim(<<>>) = <<>>
    BY <2>2 DEF Trim
  <2>4. NoDashPair(<<>>)
    BY <2>2 DEF NoDashPair
  <2>5. LetterAt(t) = <<>>
    BY <2>1, LetterAtEmpty
  <2>6. Flattens(s, t)
    <3>1. from = LetterAt(s)
      BY DEF from
    <3> QED
      BY <1>5, <2>1, <2>2, <2>5, <3>1 DEF Flattens
  <2> QED
    BY <1>5, <2>1, <2>2, <2>3, <2>4, <2>6 DEF t
<1>8. CASE at # <<>>
  <2>1. PICK j : Fits(at, j) /\ t = SubSeq(r, at[1], at[j])
    BY <1>4, <1>8
  <2>2. /\ j \in 1..Len(at)
        /\ (at[j] - at[1]) + 1 <= MaxLabel
        /\ j < Len(at) => (at[j + 1] - at[1]) + 1 > MaxLabel
    BY <2>1 DEF Fits
  <2>3. /\ t \in Seq(LabelChars) /\ Len(t) = (at[j] - at[1]) + 1
        /\ LetterAt(t) = Shifted(at, j)
    BY <1>1, <1>2, <2>1, <2>2, WindowLetters
  <2> DEFINE to == Shifted(at, j)
  <2>4. /\ Len(to) = j /\ to \in Seq(Nat) /\ Enumerates(to, t)
        /\ \A k \in 1..j : to[k] = (at[k] - at[1]) + 1
    <3>1. to \in Seq(Nat) /\ Enumerates(to, t)
      BY <2>3, LabelCharsType, LetterAtEnumerates
    <3>2. to = [k \in 1..j |-> (at[k] - at[1]) + 1] /\ j \in Nat
      BY <1>6, <2>2 DEF Shifted
    <3>3. DOMAIN to = 1..Len(to) /\ DOMAIN to = 1..j /\ Len(to) \in Nat
      BY <3>1, <3>2, LenProperties
    <3> HIDE DEF to
    <3>4. Len(to) = j
      BY <3>2, <3>3
    <3> QED
      BY <3>1, <3>2, <3>4
  <2> HIDE DEF to
  <2>5. /\ Len(r) \in Nat /\ at[1] \in 1..Len(r) /\ at[j] \in at[1]..Len(r)
        /\ \A k \in 1..Len(at) : at[k] \in Nat
    BY <1>1, <1>2, <2>2, FirstIsLeast, LettersOf
  <2>6. 1 \in 1..j /\ j \in 1..j /\ j # 0 /\ j \in Nat /\ 1 \in 1..Len(at)
    BY <1>6, <2>2
  <2>7. to[1] = 1 /\ to[j] = Len(t)
    <3>1. (at[1] - at[1]) + 1 = 1
      BY <2>5
    <3> QED
      BY <2>3, <2>4, <2>6, <3>1
  <2>8. Trim(t) = t
    <3>1. Trim(t) = SubSeq(t, to[1], to[Len(to)])
      BY <2>3, <2>4, <2>6, TrimWindow
    <3> QED
      BY <2>3, <2>4, <2>7, <3>1, SubSeqFull
  <2>9. NoDashPair(t)
    <3>1. /\ \A p \in 1..Len(t) : t[p] = r[(at[1] + p) - 1]
          /\ Len(t) = (at[j] - at[1]) + 1
      BY <1>1, <2>1, <2>3, <2>5, WindowIndex
    <3>2. \A i \in 2..Len(r) : r[i] = "a" \/ r[i - 1] = "a"
      BY <1>1 DEF Aligned, NoDashPair
    <3>3. SUFFICES ASSUME NEW p \in 2..Len(t)
                   PROVE  t[p] = "a" \/ t[p - 1] = "a"
      BY DEF NoDashPair
    <3> DEFINE i == (at[1] + p) - 1
    <3>4. Len(t) \in Nat
      BY <2>5, <3>1
    <3>5. p \in 1..Len(t) /\ p - 1 \in 1..Len(t)
      BY <3>4
    <3>6. i \in 2..Len(r) /\ (at[1] + (p - 1)) - 1 = i - 1
      BY <2>5, <3>1, <3>4
    <3>7. t[p] = r[i] /\ t[p - 1] = r[(at[1] + (p - 1)) - 1]
      BY <3>1, <3>5
    <3> HIDE DEF i
    <3> QED
      BY <3>2, <3>6, <3>7
  <2>10. ASSUME NEW i \in 2..j
         PROVE  to[i] - to[i - 1] = Gap(from, i)
    <3>1. i \in 1..j /\ i - 1 \in 1..j /\ i \in 2..Len(at) /\ i \in 1..Len(at) /\ i - 1 \in 1..Len(at)
      BY <1>6, <2>2
    <3>2. at[i] - at[i - 1] = Gap(from, i)
      BY <1>1, <3>1 DEF Aligned
    <3>3. to[i] = (at[i] - at[1]) + 1 /\ to[i - 1] = (at[i - 1] - at[1]) + 1
      BY <2>4, <3>1
    <3> DEFINE x == at[i]
               y == at[i - 1]
               z == at[1]
    <3>4. x \in Nat /\ y \in Nat /\ z \in Nat
      BY <2>5, <2>6, <3>1
    <3>5. to[i] - to[i - 1] = ((x - z) + 1) - ((y - z) + 1)
      BY <3>3
    <3>6. ((x - z) + 1) - ((y - z) + 1) = x - y
      <4> HIDE DEF x, y, z
      <4> QED
        BY <3>4
    <3> QED
      BY <3>2, <3>5, <3>6
  <2>11. ASSUME j < Len(at)
         PROVE  Len(t) + Gap(from, j + 1) > MaxLabel
    <3>1. j + 1 \in 2..Len(at) /\ (j + 1) - 1 = j /\ j + 1 \in 1..Len(at)
      BY <1>6, <2>2, <2>11
    <3>2. at[j + 1] - at[j] = Gap(from, j + 1)
      <4>1. at[j + 1] - at[(j + 1) - 1] = Gap(from, j + 1)
        BY <1>1, <3>1 DEF Aligned
      <4> QED
        BY <3>1, <4>1
    <3> DEFINE x == at[j + 1]
               y == at[j]
               z == at[1]
    <3>3. x \in Nat /\ y \in Nat /\ z \in Nat /\ (x - z) + 1 > MaxLabel
      BY <2>2, <2>5, <2>6, <2>11, <3>1
    <3>4. Len(t) = (y - z) + 1 /\ x - y = Gap(from, j + 1)
      BY <2>3, <3>2
    <3> HIDE DEF x, y, z
    <3>5. ((y - z) + 1) + (x - y) = (x - z) + 1
      BY <3>3
    <3> QED
      BY <3>3, <3>4, <3>5
  <2>12. Flattens(s, t)
    <3>1. from = LetterAt(s) /\ to = LetterAt(t)
      BY <2>3 DEF from, to
    <3>2. Len(to) <= Len(from)
      BY <1>6, <2>2, <2>4
    <3>3. \A i \in 2..Len(to) :
            to[i] - to[i - 1] = IF from[i] = from[i - 1] + 1 THEN 1 ELSE 2
      BY <2>4, <2>10 DEF Gap
    <3>4. to[1] = 1 /\ to[Len(to)] = Len(t) /\ Len(t) <= MaxLabel
      BY <2>2, <2>3, <2>4, <2>7
    <3>5. ASSUME Len(to) < Len(from)
          PROVE  Len(t) + (IF from[Len(to) + 1] = from[Len(to)] + 1 THEN 1 ELSE 2) > MaxLabel
      <4>1. j < Len(at) /\ (j + 1) - 1 = j
        BY <1>6, <2>4, <2>6, <3>5
      <4>2. Gap(from, j + 1) = IF from[j + 1] = from[j] + 1 THEN 1 ELSE 2
        BY <4>1 DEF Gap
      <4> QED
        BY <2>4, <2>11, <4>1, <4>2
    <3> QED
      BY <3>1, <3>2, <3>3, <3>4, <3>5 DEF Flattens
  <2> QED
    BY <2>2, <2>3, <2>8, <2>9, <2>12 DEF t
<1> QED
  BY <1>7, <1>8

(***************************************************************************)
(* Sanitizing again changes nothing: the hostname that the CLI has made of *)
(* what was typed (up.go:117) is the one the daemon stores (daemon.go:145), *)
(* also where the cut leaves a dash at the end (route.go:99-101).          *)
(***************************************************************************)
THEOREM SanitizeSame ==
  ASSUME NEW s \in Seq(Char)
  PROVE  Sanitize(Sanitize(s)) = Sanitize(s)
<1> DEFINE t == Sanitize(s)
<1>1. t \in Seq(LabelChars) /\ Len(t) <= MaxLabel /\ NoDashPair(t) /\ Trim(t) = t
  BY SanitizeResult
<1>2. Sanitize(t) = CutAndTrim(Trim(DashRuns(Dashed(t))))
  BY SanitizePasses
<1> HIDE DEF t
<1>3. Dashed(t) = t /\ DashRuns(t) = t
  BY <1>1, DashedSame, DashRunsSame
<1>4. CutAndTrim(t) = t
  <2>1. Len(t) \in Nat /\ MaxLabel \in Nat
    BY <1>1, LenProperties, LabelAssumption
  <2> QED
    BY <1>1, <2>1 DEF CutAndTrim
<1>5. Sanitize(t) = t
  BY <1>1, <1>2, <1>3, <1>4
<1> QED
  BY <1>5 DEF t

(***************************************************************************)
(* So no input ends in anything but one label that both sides agree on.    *)
(***************************************************************************)
THEOREM NoneNotOneLabel == NotOneLabel = {}
<1>1. ASSUME NEW s \in Inputs
      PROVE  /\ \A i \in DOMAIN Sanitize(s) : Sanitize(s)[i] \in {"a", "-"}
             /\ Flattens(s, Sanitize(s))
             /\ Sanitize(Sanitize(s)) = Sanitize(s)
  <2>1. s \in Seq(Char)
    BY InputsType
  <2>2. Sanitize(s) \in Seq(LabelChars)
    BY <2>1, SanitizeResult
  <2>3. \A i \in DOMAIN Sanitize(s) : Sanitize(s)[i] \in LabelChars
    BY <2>2, LenProperties, ElementOfSeq
  <2> QED
    BY <2>1, <2>3, SanitizeResult, SanitizeSame DEF LabelChars
<1> QED
  BY <1>1 DEF NotOneLabel

-----------------------------------------------------------------------------
(***************************************************************************)
(* The names of the hosts.                                                 *)
(***************************************************************************)
LEMMA HostNameType ==
  ASSUME NEW h \in HostNames
  PROVE  /\ h \in Seq(LabelChars) /\ h \in Seq(Char) /\ h # <<>>
         /\ Lower(h) = h /\ Labels(h) = <<h>>
<1>1. PICK s \in Inputs : h = Sanitize(s) /\ h # <<>>
  BY DEF HostNames
<1>2. h \in Seq(LabelChars) /\ h \in Seq(Char)
  BY <1>1, InputsType, SanitizeResult, LabelCharsType
<1>3. \A i \in 1..Len(h) : h[i] \in LabelChars
  BY <1>2, ElementOfSeq
<1>4. \A i \in 1..Len(h) : h[i] # "."
  BY <1>3 DEF LabelChars
<1>5. \A i \in 1..Len(h) : LowerChar(h[i]) = h[i]
  BY <1>3 DEF LabelChars, LowerChar
<1>6. Lower(h) = h
  BY <1>2, <1>5, LowerType, SeqEqual
<1> QED
  BY <1>1, <1>2, <1>4, <1>6, LabelsOne

LEMMA UnderType ==
  ASSUME NEW h \in HostNames
  PROVE  /\ Under(h) \in Seq(Char)
         /\ Lower(Under(h)) = h \o <<".">> \o Lower(Domain)
         /\ Under(h) # <<>> /\ Last(Under(h)) # "."
<1> DEFINE dot == <<".">>
           hd == h \o dot
           u == hd \o Domain
<1>1. h \in Seq(Char) /\ Lower(h) = h /\ dot \in Seq(Char) /\ Lower(dot) = dot
  BY HostNameType, LowerDot
<1>2. Domain \in Seq(Char) /\ Len(Domain) \in Nat \ {0} /\ Domain[Len(Domain)] # "."
  BY DomainType, DomainAssumption
<1>3. hd \in Seq(Char)
  BY <1>1, ConcatProperties
<1> HIDE DEF hd
<1>4. /\ u \in Seq(Char) /\ Len(u) = Len(hd) + Len(Domain) /\ Len(hd) \in Nat
      /\ \A i \in 1..(Len(hd) + Len(Domain)) :
            u[i] = IF i <= Len(hd) THEN hd[i] ELSE Domain[i - Len(hd)]
  BY <1>2, <1>3, ConcatProperties, LenProperties
<1>5. Lower(u) = h \o dot \o Lower(Domain)
  <2>1. Lower(hd) = Lower(h) \o Lower(dot)
    BY <1>1, LowerConcat DEF hd
  <2>2. Lower(u) = Lower(hd) \o Lower(Domain)
    BY <1>2, <1>3, LowerConcat
  <2> QED
    BY <1>1, <2>1, <2>2
<1> HIDE DEF u
<1>6. Len(u) # 0 /\ u[Len(u)] # "."
  <2> DEFINE i == Len(u)
  <2>1. i \in 1..(Len(hd) + Len(Domain)) /\ ~ (i <= Len(hd)) /\ i - Len(hd) = Len(Domain)
    BY <1>2, <1>4
  <2> HIDE DEF i
  <2>2. u[i] = Domain[i - Len(hd)]
    BY <1>4, <2>1
  <2>3. u[i] = Domain[Len(Domain)]
    BY <2>1, <2>2
  <2> QED
    BY <1>2, <1>4, <2>1, <2>3 DEF i
<1>7. u # <<>>
  BY <1>4, <1>6, EmptySeq
<1> QED
  BY <1>4, <1>5, <1>6, <1>7 DEF u, hd, Under, Last

LEMMA UnderAnswered ==
  ASSUME NEW h \in HostNames, NEW name \in {Under(h), Fqdn(Under(h))}
  PROVE  /\ Reply([query |-> TRUE, names |-> <<name>>, type |-> "A"]) = "alias"
         /\ Reply([query |-> TRUE, names |-> <<name>>, type |-> "AAAA"]) = "empty"
<1> DEFINE u == Under(h)
           f == Append(u, ".")
<1>1. u \in Seq(Char) /\ Fqdn(u) = f
  BY UnderType DEF Fqdn
<1>2. Fqdn(f) = f
  <2>1. f # <<>> /\ Len(f) = Len(u) + 1 /\ f[Len(u) + 1] = "."
    BY <1>1, LowerDot, AppendProperties
  <2> HIDE DEF f
  <2> QED
    BY <2>1 DEF Fqdn, Last
<1>3. Fqdn(name) = f
  BY <1>1, <1>2
<1>4. Lower(Fqdn(name)) = Append(Lower(u), ".")
  BY <1>1, <1>3, LowerAppendDot
<1>5. Lower(u) \in Seq(Char) /\ h \in Seq(Char) /\ Lower(u) = h \o <<".">> \o Lower(Domain)
  BY <1>1, LowerType, UnderType, HostNameType
<1> HIDE DEF u
<1>6. Owns(name)
  BY <1>4, <1>5, OwnsDotted
<1> QED
  BY <1>6 DEF Reply

LEMMA UnderInSite ==
  ASSUME NEW h \in HostNames
  PROVE  InSite(Under(h))
<1> DEFINE q == Labels(Lower(Domain))
           ls == <<h>> \o q
<1>1. h \in Seq(Char) /\ h # <<>> /\ Labels(h) = <<h>>
  BY HostNameType
<1>2. Labels(Lower(Under(h))) = ls
  <2>1. Labels(h \o <<".">> \o Lower(Domain)) = Labels(h) \o q
    BY <1>1, DomainType, LabelsConcat
  <2> QED
    BY <1>1, <2>1, UnderType
<1>3. q \in Seq(Seq(Char)) /\ Len(q) \in Nat
  BY DomainType, LabelsType, LabelSeqType
<1>4. <<h>> \in Seq(Seq(Char)) /\ Len(<<h>>) = 1 /\ <<h>>[1] = h
  BY <1>1
<1> HIDE DEF q
<1>5. /\ ls \in Seq(Seq(Char)) /\ Len(ls) = 1 + Len(q)
      /\ \A i \in 1..(1 + Len(q)) : ls[i] = IF i <= 1 THEN h ELSE q[i - 1]
  <2> DEFINE o == <<h>>
  <2>1. o \in Seq(Seq(Char)) /\ Len(o) = 1 /\ o[1] = h
    BY <1>4
  <2> HIDE DEF o
  <2>2. /\ o \o q \in Seq(Seq(Char)) /\ Len(o \o q) = Len(o) + Len(q)
        /\ \A i \in 1..(Len(o) + Len(q)) :
              (o \o q)[i] = IF i <= Len(o) THEN o[i] ELSE q[i - Len(o)]
    BY <1>3, <2>1, ConcatProperties
  <2> DEFINE w == o \o q
  <2> HIDE DEF w
  <2>3. /\ w \in Seq(Seq(Char)) /\ Len(w) = 1 + Len(q)
        /\ \A i \in 1..(1 + Len(q)) : w[i] = IF i <= 1 THEN o[i] ELSE q[i - 1]
    BY <2>1, <2>2 DEF w
  <2>4. \A i \in 1..(1 + Len(q)) : i <= 1 => i = 1
    BY <1>3
  <2>5. \A i \in 1..(1 + Len(q)) : w[i] = IF i <= 1 THEN h ELSE q[i - 1]
    BY <2>1, <2>3, <2>4
  <2> QED
    BY <2>3, <2>5 DEF w, o
<1> HIDE DEF ls
<1>6. ls # <<>>
  BY <1>3, <1>5, EmptySeq
<1>7. Head(ls) = h
  <2>1. 1 \in 1..(1 + Len(q))
    BY <1>3
  <2> QED
    BY <1>5, <2>1
<1>8. Tail(ls) = q
  <2>1. /\ Tail(ls) \in Seq(Seq(Char)) /\ Len(Tail(ls)) = Len(ls)-1
        /\ \A i \in 1..Len(Tail(ls)) : Tail(ls)[i] = ls[i+1]
    BY <1>5, <1>6, HeadTailProperties
  <2> DEFINE t == Tail(ls)
  <2> HIDE DEF t
  <2>2. Len(t) = Len(q) /\ t \in Seq(Seq(Char)) /\ \A i \in 1..Len(q) : t[i] = ls[i + 1]
    BY <1>3, <1>5, <2>1 DEF t
  <2>3. \A i \in 1..Len(q) : i + 1 \in 1..(1 + Len(q)) /\ ~ (i + 1 <= 1) /\ (i + 1) - 1 = i
    BY <1>3
  <2>4. \A i \in 1..Len(q) : t[i] = q[i]
    BY <1>5, <2>2, <2>3
  <2>5. t = q
    BY <1>3, <2>2, <2>4, SeqEqual
  <2> QED
    BY <2>5 DEF t
<1>9. Labels(Lower(Under(h))) = ls
  BY <1>2 DEF ls
<1> QED
  BY <1>1, <1>6, <1>7, <1>8, <1>9 DEF InSite, q

LEMMA UnderServed ==
  ASSUME NEW h \in HostNames
  PROVE  Served(HostNames, Under(h)) = {h}
<1>1. ASSUME NEW k \in HostNames, Lower(Under(k)) = Lower(Under(h))
      PROVE  k = h
  <2> DEFINE d == Lower(Domain)
             kd == k \o <<".">>
             hd == h \o <<".">>
  <2>1. k \in Seq(Char) /\ h \in Seq(Char) /\ d \in Seq(Char)
    BY HostNameType, DomainType
  <2>2. kd = Append(k, ".") /\ hd = Append(h, ".") /\ "." \in Char
        /\ kd \in Seq(Char) /\ hd \in Seq(Char)
    BY <2>1, LowerDot, AppendIsConcat, ConcatProperties
  <2>3. kd \o d = hd \o d
    BY <1>1, UnderType
  <2> HIDE DEF d, kd, hd
  <2>4. kd = hd
    BY <2>1, <2>2, <2>3, ConcatSimplifications
  <2> QED
    BY <2>1, <2>2, <2>4, CharSame
<1>2. Served(HostNames, Under(h)) = {k \in HostNames : Lower(Under(k)) = Lower(Under(h))}
  BY UnderInSite DEF Served
<1> QED
  BY <1>1, <1>2

(***************************************************************************)
(* Every hostname that Sanitize can return resolves to the alias under the *)
(* domain, with or without the last dot, gets an empty answer for AAAA, is *)
(* covered by the wildcard site, and only its own handle takes requests for *)
(* it, since two hostnames that differ stay different (dnsd.go:113-129).   *)
(***************************************************************************)
THEOREM NoneUnresolved == Unresolved = {}
  BY UnderAnswered, UnderInSite, UnderServed DEF Unresolved

=============================================================================
