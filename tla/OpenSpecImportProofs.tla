------------------------ MODULE OpenSpecImportProofs ------------------------
(***************************************************************************)
(* Theorems about OpenSpecImport: its types, that an import is complete    *)
(* and that it takes nothing over, for any files, importers and people.    *)
(***************************************************************************)
EXTENDS OpenSpecImport, SequenceTheorems, FiniteSetTheorems, WellFoundedInduction, TLAPS

(***************************************************************************)
(* Numbers: a set of naturals has a least element, a bounded one a         *)
(* greatest element too.                                                   *)
(***************************************************************************)
LEMMA LeastNumber ==
  ASSUME NEW T \in SUBSET Nat, T # {}
  PROVE  \E m \in T : \A k \in T : m <= k
PROOF
<1> DEFINE Segments == {0 .. t : t \in T}
           R == StrictSubsetOrdering(Nat)
<1>1. Segments \subseteq FiniteSubsetsOf(Nat) /\ Segments # {}
  <2>1. \A t \in T : 0 .. t \in FiniteSubsetsOf(Nat)
    BY FS_Interval DEF FiniteSubsetsOf
  <2> QED BY <2>1
<1>2. IsWellFoundedOn(R, FiniteSubsetsOf(Nat))
  BY FS_StrictSubsetOrderingWellFounded
<1>3. PICK x \in Segments : \A y \in Segments : ~ (<<y, x>> \in R)
  <2> HIDE DEF Segments, R
  <2> QED BY <1>1, <1>2, WFMin
<1>4. PICK m \in T : x = 0 .. m
  OBVIOUS
<1>5. ASSUME NEW k \in T, k < m PROVE FALSE
  <2>1. 0 .. k \in SUBSET Nat /\ 0 .. m \in SUBSET Nat /\ 0 .. k \subseteq 0 .. m
    BY <1>5
  <2>2. m \in 0 .. m /\ m \notin 0 .. k
    BY <1>5
  <2>3. <<0 .. k, 0 .. m>> \in R
    BY <2>1, <2>2 DEF StrictSubsetOrdering
  <2> QED BY <2>3, <1>3, <1>4
<1> QED BY <1>5

LEMMA GreatestNumber ==
  ASSUME NEW c \in Nat, NEW T \in SUBSET (1 .. c), T # {}
  PROVE  \E m \in T : \A k \in T : m >= k
PROOF
<1> DEFINE Gaps == {c - t : t \in T}
<1>1. \A t \in T : t \in Nat /\ c - t \in Nat
  OBVIOUS
<1>2. PICK g \in Gaps : \A h \in Gaps : g <= h
  <2>1. Gaps \in SUBSET Nat /\ Gaps # {}
    BY <1>1
  <2> HIDE DEF Gaps
  <2> QED BY <2>1, LeastNumber
<1>3. PICK m \in T : g = c - m
  OBVIOUS
<1>4. ASSUME NEW k \in T PROVE m >= k
  <2>1. c - m <= c - k
    BY <1>2, <1>3
  <2> QED BY <2>1, <1>1
<1> QED BY <1>4

(* Induction up to n, for a set                                            *)
LEMMA UpTo ==
  ASSUME NEW n \in Nat, NEW G,
         n # 0 => 1 \in G,
         \A m \in 1 .. n : m # n /\ m \in G => m + 1 \in G
  PROVE  \A m \in 1 .. n : m \in G
PROOF
<1> DEFINE Bad == {m \in 1 .. n : m \notin G}
<1> SUFFICES ASSUME Bad # {} PROVE FALSE
  OBVIOUS
<1>1. \A m \in 1 .. n : m \in Nat /\ n # 0 /\ (m # 1 => m - 1 \in 1 .. n /\ m - 1 # n /\ m - 1 + 1 = m)
  OBVIOUS
<1>2. PICK m \in Bad : \A k \in Bad : m <= k
  <2>1. Bad \in SUBSET Nat
    BY <1>1
  <2> HIDE DEF Bad
  <2> QED BY <2>1, LeastNumber
<1>3. m # 1
  BY <1>1
<1>4. m - 1 \in Bad
  BY <1>1, <1>3
<1>5. ~ (m <= m - 1)
  BY <1>1
<1> QED BY <1>2, <1>4, <1>5

(***************************************************************************)
(* Sequences                                                               *)
(***************************************************************************)

(* What a sequence holds is what stands at its positions.                  *)
LEMMA Elements ==
  ASSUME NEW T, NEW s \in Seq(T)
  PROVE  /\ ToSet(s) = {s[i] : i \in 1 .. Len(s)}
         /\ ToSet(s) \subseteq T
         /\ s \in Seq(ToSet(s))
PROOF
<1>1. Len(s) \in Nat /\ s \in [1 .. Len(s) -> T] /\ DOMAIN s = 1 .. Len(s)
  BY LenProperties
<1>2. ToSet(s) = {s[i] : i \in 1 .. Len(s)}
  BY <1>1 DEF ToSet
<1>3. s \in [1 .. Len(s) -> ToSet(s)]
  BY <1>1, <1>2
<1> QED BY <1>1, <1>2, <1>3, SeqDef

LEMMA ElementsOfConcat ==
  ASSUME NEW T, NEW s \in Seq(T), NEW t \in Seq(T)
  PROVE  s \o t \in Seq(T) /\ ToSet(s \o t) = ToSet(s) \cup ToSet(t)
PROOF
<1>1. /\ s \o t \in Seq(T)
      /\ Len(s) \in Nat /\ Len(t) \in Nat /\ Len(s \o t) = Len(s) + Len(t)
      /\ \A i \in 1 .. Len(s) + Len(t) :
           (s \o t)[i] = IF i <= Len(s) THEN s[i] ELSE t[i - Len(s)]
  BY ConcatProperties, LenProperties
<1>2. /\ ToSet(s) = {s[i] : i \in 1 .. Len(s)}
      /\ ToSet(t) = {t[i] : i \in 1 .. Len(t)}
      /\ ToSet(s \o t) = {(s \o t)[i] : i \in 1 .. Len(s) + Len(t)}
  BY <1>1, Elements
<1>3. ASSUME NEW x \in ToSet(s \o t) PROVE x \in ToSet(s) \cup ToSet(t)
  <2>1. PICK i \in 1 .. Len(s) + Len(t) : x = (s \o t)[i]
    BY <1>2
  <2>2. CASE i <= Len(s)
    BY <1>1, <1>2, <2>1, <2>2
  <2>3. CASE ~ (i <= Len(s))
    <3>1. i - Len(s) \in 1 .. Len(t) /\ x = t[i - Len(s)]
      BY <1>1, <2>1, <2>3
    <3> QED BY <3>1, <1>2
  <2> QED BY <2>2, <2>3
<1>4. ASSUME NEW x \in ToSet(s) PROVE x \in ToSet(s \o t)
  <2>1. PICK i \in 1 .. Len(s) : x = s[i]
    BY <1>2
  <2>2. i \in 1 .. Len(s) + Len(t) /\ (s \o t)[i] = x
    BY <1>1, <2>1
  <2> QED BY <1>2, <2>2
<1>5. ASSUME NEW x \in ToSet(t) PROVE x \in ToSet(s \o t)
  <2>1. PICK i \in 1 .. Len(t) : x = t[i]
    BY <1>2
  <2>2. /\ i + Len(s) \in 1 .. Len(s) + Len(t)
        /\ ~ (i + Len(s) <= Len(s)) /\ (i + Len(s)) - Len(s) = i
    BY <1>1
  <2>3. (s \o t)[i + Len(s)] = x
    BY <1>1, <2>1, <2>2
  <2> QED BY <1>2, <2>2, <2>3
<1> QED BY <1>1, <1>3, <1>4, <1>5

(* FlattenSeq takes the last value of a function g that is defined         *)
(* recursively; it exists because it can be extended, step by step.        *)
IsFlattening(s, m, g) ==
  g = [i \in 1 .. m |-> IF i = 1 THEN s[i] ELSE g[i - 1] \o s[i]]

LEMMA FlattenExtended ==
  ASSUME NEW s, NEW m \in Nat, NEW h,
         IsFlattening(s, m, h)
  PROVE  \E g : IsFlattening(s, m + 1, g)
PROOF
<1> DEFINE g == [i \in 1 .. m + 1 |->
                   IF i # m + 1 THEN h[i] ELSE IF i = 1 THEN s[i] ELSE h[m] \o s[i]]
<1>1. \A i \in 1 .. m : i # m + 1 /\ i \in 1 .. m + 1 /\ (i # 1 => i - 1 \in 1 .. m)
  OBVIOUS
<1>2. m + 1 \in 1 .. m + 1 /\ (m + 1) - 1 = m /\ (m + 1 # 1 => m \in 1 .. m)
  OBVIOUS
<1>3. \A i \in 1 .. m + 1 : i = m + 1 \/ i \in 1 .. m
  OBVIOUS
<1>4. \A i \in 1 .. m : g[i] = h[i]
  BY <1>1, Zenon
<1>5. g[m + 1] = IF m + 1 = 1 THEN s[m + 1] ELSE h[m] \o s[m + 1]
  BY <1>2, Zenon
<1>6. \A i \in 1 .. m : h[i] = IF i = 1 THEN s[i] ELSE h[i - 1] \o s[i]
  BY Zenon DEF IsFlattening
<1>7. g = [i \in 1 .. m + 1 |-> g[i]]
  BY Zenon
<1> HIDE DEF g
<1>8. ASSUME NEW i \in 1 .. m + 1
      PROVE  g[i] = IF i = 1 THEN s[i] ELSE g[i - 1] \o s[i]
  <2>1. CASE i \in 1 .. m
    <3>1. i # 1 => g[i - 1] = h[i - 1]
      BY <2>1, <1>1, <1>4
    <3> QED BY <2>1, <3>1, <1>4, <1>6
  <2>2. CASE i = m + 1
    <3>1. m + 1 # 1 => g[(m + 1) - 1] = h[m]
      BY <1>2, <1>4
    <3> QED BY <2>2, <3>1, <1>5
  <2> QED BY <2>1, <2>2, <1>3
<1>9. g = [i \in 1 .. m + 1 |-> IF i = 1 THEN s[i] ELSE g[i - 1] \o s[i]]
  BY <1>7, <1>8, Zenon
<1> QED BY <1>9 DEF IsFlattening

(* What FlattenSeq yields has the elements of all the sequences.           *)
LEMMA Flattened ==
  ASSUME NEW T, NEW s \in Seq(Seq(T))
  PROVE  /\ FlattenSeq(s) \in Seq(T)
         /\ ToSet(FlattenSeq(s)) = UNION {ToSet(s[i]) : i \in 1 .. Len(s)}
PROOF
<1> DEFINE n == Len(s)
           Up(m) == UNION {ToSet(s[i]) : i \in 1 .. m}
<1>1. n \in Nat /\ \A i \in 1 .. n : s[i] \in Seq(T)
  BY LenProperties, ElementOfSeq
<1>2. CASE n = 0
  <2>1. s = << >> /\ FlattenSeq(s) = s
    BY <1>2, EmptySeq DEF FlattenSeq
  <2>2. << >> \in Seq(T) /\ ToSet(<< >>) = {}
    BY EmptySeq DEF ToSet
  <2>3. 1 .. n = {}
    BY <1>2
  <2> QED BY <2>1, <2>2, <2>3
<1>3. CASE n # 0
  <2> DEFINE G == {m \in Nat : \E g : IsFlattening(s, m, g)}
  <2>1. 0 \in G
    <3>1. IsFlattening(s, 0, << >>)
      BY DEF IsFlattening
    <3> QED BY <3>1
  <2>2. \A m \in Nat : m \in G => m + 1 \in G
    BY FlattenExtended
  <2>3. \E g : IsFlattening(s, n, g)
    <3>1. n # 0 => 1 \in G
      BY <2>1, <2>2
    <3>2. \A m \in 1 .. n : m # n /\ m \in G => m + 1 \in G
      BY <2>2
    <3>3. n \in 1 .. n
      BY <1>1, <1>3
    <3> HIDE DEF G, n
    <3>4. n \in G
      BY <1>1, <3>1, <3>2, <3>3, UpTo
    <3> QED BY <3>4 DEF G
  <2> DEFINE f == CHOOSE f : IsFlattening(s, n, f)
  <2>4. IsFlattening(s, n, f)
    BY <2>3
  <2>5. FlattenSeq(s) = f[n]
    BY <1>3 DEF FlattenSeq, IsFlattening
  <2>6. \A i \in 1 .. n : f[i] = IF i = 1 THEN s[i] ELSE f[i - 1] \o s[i]
    <3> HIDE DEF f
    <3> QED BY <2>4, Zenon DEF IsFlattening
  <2> HIDE DEF f, G
  <2> DEFINE H == {m \in 1 .. n : f[m] \in Seq(T) /\ ToSet(f[m]) = Up(m)}
  <2>7. 1 \in H
    <3>1. 1 \in 1 .. n /\ f[1] = s[1]
      BY <1>1, <1>3, <2>6
    <3>2. Up(1) = ToSet(s[1])
      <4>1. 1 .. 1 = {1}
        OBVIOUS
      <4> QED BY <4>1
    <3> QED BY <1>1, <3>1, <3>2
  <2>8. ASSUME NEW m \in 1 .. n, m # n, m \in H PROVE m + 1 \in H
    <3>1. m + 1 \in 1 .. n /\ m + 1 # 1 /\ (m + 1) - 1 = m
      BY <1>1, <2>8
    <3>2. f[m + 1] = f[m] \o s[m + 1]
      BY <2>6, <3>1
    <3>3. f[m + 1] \in Seq(T) /\ ToSet(f[m + 1]) = Up(m) \cup ToSet(s[m + 1])
      BY <1>1, <2>8, <3>1, <3>2, ElementsOfConcat
    <3>4. Up(m + 1) = Up(m) \cup ToSet(s[m + 1])
      <4>1. 1 .. m + 1 = (1 .. m) \cup {m + 1}
        BY <1>1
      <4> QED BY <4>1
    <3> QED BY <3>1, <3>3, <3>4
  <2>9. n \in 1 .. n
    BY <1>1, <1>3
  <2>10. n \in H
    <3> HIDE DEF H, n
    <3> QED BY <1>1, <1>3, <2>7, <2>8, <2>9, UpTo
  <2> QED BY <2>5, <2>10
<1> QED BY <1>2, <1>3

(* A function on 1 .. n is a sequence.                                     *)
LEMMA Tabulated ==
  ASSUME NEW n \in Nat, NEW S, NEW s \in [1 .. n -> S]
  PROVE  /\ Len(s) = n /\ DOMAIN s = 1 .. n
         /\ ToSet(s) = {s[i] : i \in 1 .. n}
         /\ s \in Seq(S) /\ s \in Seq(ToSet(s))
PROOF
<1>1. DOMAIN s = 1 .. n
  OBVIOUS
<1>2. ToSet(s) = {s[i] : i \in 1 .. n}
  BY <1>1 DEF ToSet
<1>3. s \in [1 .. n -> ToSet(s)]
  BY <1>2
<1>4. s \in Seq(S) /\ s \in Seq(ToSet(s))
  BY <1>3, SeqDef
<1>5. Len(s) \in Nat /\ DOMAIN s = 1 .. Len(s)
  BY <1>4, LenProperties
<1>6. Len(s) = n
  BY <1>1, <1>5
<1> QED BY <1>1, <1>2, <1>4, <1>6

(* Of any two sequences                                                    *)
LEMMA Joined ==
  ASSUME NEW s, s \in Seq(ToSet(s)), NEW t, t \in Seq(ToSet(t))
  PROVE  s \o t \in Seq(ToSet(s \o t)) /\ ToSet(s \o t) = ToSet(s) \cup ToSet(t)
PROOF
<1> DEFINE T == ToSet(s) \cup ToSet(t)
<1>1. s \in Seq(T) /\ t \in Seq(T)
  BY SeqMonotonic
<1> QED BY <1>1, ElementsOfConcat

LEMMA NoElements == << >> \in Seq(ToSet(<< >>)) /\ ToSet(<< >>) = {}
BY EmptySeq DEF ToSet

(* Of sequences that are made for each position of another one             *)
LEMMA FlattenedEach ==
  ASSUME NEW n \in Nat, NEW T, NEW s \in [1 .. n -> Seq(T)]
  PROVE  /\ FlattenSeq(s) \in Seq(T)
         /\ ToSet(FlattenSeq(s)) = UNION {ToSet(s[i]) : i \in 1 .. n}
PROOF
<1>1. s \in Seq(Seq(T)) /\ Len(s) = n
  BY Tabulated
<1> QED BY <1>1, Flattened

(* Among keeps what is in S, and nothing else.                             *)
LEMMA ElementsAmong ==
  ASSUME NEW T, NEW s \in Seq(T), NEW S
  PROVE  Among(s, S) \in Seq(T) /\ ToSet(Among(s, S)) = ToSet(s) \cap S
PROOF
<1> DEFINE n == Len(s)
           each == [i \in DOMAIN s |-> IF s[i] \in S THEN <<s[i]>> ELSE << >>]
<1>1. n \in Nat /\ DOMAIN s = 1 .. n /\ \A i \in 1 .. n : s[i] \in T
  BY LenProperties, ElementOfSeq
<1>2. \A i \in 1 .. n : /\ each[i] \in Seq(T)
                        /\ ToSet(each[i]) = IF s[i] \in S THEN {s[i]} ELSE {}
  <2> SUFFICES ASSUME NEW i \in 1 .. n
               PROVE  /\ each[i] \in Seq(T)
                      /\ ToSet(each[i]) = IF s[i] \in S THEN {s[i]} ELSE {}
    OBVIOUS
  <2>1. CASE s[i] \in S
    <3>1. each[i] = <<s[i]>>
      BY <1>1, <2>1
    <3>2. <<s[i]>> \in Seq(T) /\ ToSet(<<s[i]>>) = {s[i]}
      BY <1>1 DEF ToSet
    <3> QED BY <2>1, <3>1, <3>2
  <2>2. CASE s[i] \notin S
    <3>1. each[i] = << >>
      BY <1>1, <2>2
    <3> QED BY <2>2, <3>1, NoElements, EmptySeq
  <2> QED BY <2>1, <2>2
<1>3. each \in [1 .. n -> Seq(T)]
  BY <1>1, <1>2
<1>4. Among(s, S) = FlattenSeq(each)
  BY DEF Among
<1> HIDE DEF each
<1>5. /\ Among(s, S) \in Seq(T)
      /\ ToSet(Among(s, S)) = UNION {ToSet(each[i]) : i \in 1 .. n}
  BY <1>1, <1>2, <1>3, <1>4, FlattenedEach
<1>6. ToSet(s) = {s[i] : i \in 1 .. n}
  BY Elements
<1>7. UNION {ToSet(each[i]) : i \in 1 .. n} = ToSet(s) \cap S
  <2>1. ASSUME NEW x \in ToSet(s) \cap S PROVE \E i \in 1 .. n : x \in ToSet(each[i])
    BY <1>2, <1>6
  <2>2. ASSUME NEW i \in 1 .. n, NEW x \in ToSet(each[i]) PROVE x \in ToSet(s) \cap S
    BY <1>2, <1>6, <2>2
  <2> QED BY <2>1, <2>2
<1> QED BY <1>5, <1>7

LEMMA ElementsOfPairs ==
  ASSUME NEW T, NEW s \in Seq(T), NEW t \in Seq(T)
  PROVE  Pairs(s, t) \in Seq(T \X T) /\ ToSet(Pairs(s, t)) = ToSet(s) \X ToSet(t)
PROOF
<1> DEFINE row(i) == [j \in DOMAIN t |-> <<s[i], t[j]>>]
           each == [i \in DOMAIN s |-> row(i)]
<1>1. /\ Len(s) \in Nat /\ DOMAIN s = 1 .. Len(s) /\ \A i \in 1 .. Len(s) : s[i] \in T
      /\ Len(t) \in Nat /\ DOMAIN t = 1 .. Len(t) /\ \A j \in 1 .. Len(t) : t[j] \in T
      /\ ToSet(s) = {s[i] : i \in 1 .. Len(s)} /\ ToSet(t) = {t[j] : j \in 1 .. Len(t)}
  BY LenProperties, ElementOfSeq, Elements
<1>2. ASSUME NEW i \in 1 .. Len(s), NEW r, r = row(i)
      PROVE  r \in Seq(T \X T) /\ ToSet(r) = {s[i]} \X ToSet(t)
  <2> DEFINE R == {s[i]} \X ToSet(t)
  <2>1. r \in [1 .. Len(t) -> R] /\ \A j \in 1 .. Len(t) : r[j] = <<s[i], t[j]>>
    BY <1>1, <1>2
  <2>2. R \subseteq T \X T /\ \A x \in R : \E j \in 1 .. Len(t) : x = <<s[i], t[j]>>
    BY <1>1
  <2> HIDE DEF row, R
  <2>3. r \in Seq(R) /\ ToSet(r) = {r[j] : j \in 1 .. Len(t)}
    <3>1. Len(t) \in Nat /\ r \in [1 .. Len(t) -> R]
      BY <1>1, <2>1
    <3> QED BY <3>1, Tabulated
  <2>4. ToSet(r) = R
    BY <2>1, <2>2, <2>3
  <2>5. r \in Seq(T \X T)
    BY <2>2, <2>3, SeqMonotonic
  <2> QED BY <2>4, <2>5 DEF R
<1> DEFINE TT == T \X T
<1>3. each \in [1 .. Len(s) -> Seq(TT)] /\ \A i \in 1 .. Len(s) : each[i] = row(i)
  BY <1>1, <1>2
<1>4. Pairs(s, t) = FlattenSeq(each)
  BY DEF Pairs
<1> HIDE DEF each, row, TT
<1>5. /\ Pairs(s, t) \in Seq(TT)
      /\ ToSet(Pairs(s, t)) = UNION {ToSet(each[i]) : i \in 1 .. Len(s)}
  BY <1>1, <1>3, <1>4, FlattenedEach
<1>6. UNION {ToSet(each[i]) : i \in 1 .. Len(s)} = ToSet(s) \X ToSet(t)
  <2>1. ASSUME NEW x \in ToSet(s) \X ToSet(t)
        PROVE  \E i \in 1 .. Len(s) : x \in ToSet(each[i])
    <3>1. PICK i \in 1 .. Len(s) : x \in {s[i]} \X ToSet(t)
      BY <1>1
    <3> QED BY <3>1, <1>2, <1>3
  <2>2. ASSUME NEW i \in 1 .. Len(s), NEW x \in ToSet(each[i])
        PROVE  x \in ToSet(s) \X ToSet(t)
    <3>1. x \in {s[i]} \X ToSet(t)
      BY <1>2, <1>3
    <3> QED BY <3>1, <1>1
  <2> QED BY <2>1, <2>2
<1> QED BY <1>5, <1>6 DEF TT

(***************************************************************************)
(* The files                                                               *)
(***************************************************************************)
ChangesOf == DOMAIN Changes

LEMMA ChangesType ==
  /\ ChangesOf = 1 .. Len(Changes) /\ Len(Changes) \in Nat
  /\ \A i \in ChangesOf : Changes[i].name # NoChange
BY DirectoryAssumption, LenProperties DEF ChangesOf

(* The files of a change are a sequence, and each of them is of it.        *)
LEMMA FilesOfChange ==
  ASSUME NEW i \in ChangesOf
  PROVE  /\ ChangeFiles(Changes[i]) \in Seq(ToSet(ChangeFiles(Changes[i])))
         /\ \A f \in ToSet(ChangeFiles(Changes[i])) : f.change = Changes[i].name
PROOF
<1> DEFINE c == Changes[i]
           present == Among(<<"proposal", "design", "task">>, c.documents)
           F(j) == File(<<c.name, present[j]>>, present[j], c.name \o <<present[j]>>, c.name)
           G(j) == File(<<c.name, c.specs[j].place>>, "spec",
                        c.name \o c.specs[j].capability \o <<"spec">>, c.name)
           documents == [j \in DOMAIN present |-> F(j)]
           specs == [j \in DOMAIN c.specs |-> G(j)]
           D == {F(j) : j \in DOMAIN present}
           S == {G(j) : j \in DOMAIN c.specs}
<1>1. /\ Len(present) \in Nat /\ DOMAIN present = 1 .. Len(present)
      /\ Len(c.specs) \in Nat /\ DOMAIN c.specs = 1 .. Len(c.specs)
  <2>1. <<"proposal", "design", "task">> \in Seq({"proposal", "design", "task"})
    OBVIOUS
  <2>2. present \in Seq({"proposal", "design", "task"})
    BY <2>1, ElementsAmong
  <2>3. c.specs \in Seq(ToSet(c.specs))
    BY DirectoryAssumption DEF ChangesOf
  <2> HIDE DEF present, c
  <2> QED BY <2>2, <2>3, LenProperties
<1>2. ChangeFiles(c) = documents \o specs
  BY DEF ChangeFiles
<1>3. documents \in [DOMAIN present -> D] /\ specs \in [DOMAIN c.specs -> S]
  BY Zenon
<1>4. \A f \in D \cup S : f.change = c.name
  <2>1. \A path, type, name, change : File(path, type, name, change).change = change
    BY DEF File
  <2>2. \A j : F(j).change = c.name
    <3> HIDE DEF c, present
    <3> QED BY <2>1
  <2>3. \A j : G(j).change = c.name
    <3> HIDE DEF c
    <3> QED BY <2>1
  <2> HIDE DEF F, G
  <2> QED BY <2>2, <2>3
<1> HIDE DEF documents, specs, D, S, present, c
<1>5. documents \in Seq(D) /\ specs \in Seq(S)
  BY <1>1, <1>3, Tabulated
<1>6. documents \in Seq(D \cup S) /\ specs \in Seq(D \cup S)
  BY <1>5, SeqMonotonic
<1>7. documents \o specs \in Seq(D \cup S)
  BY <1>6, ElementsOfConcat
<1>8. /\ ChangeFiles(c) \in Seq(ToSet(ChangeFiles(c)))
      /\ ToSet(ChangeFiles(c)) \subseteq D \cup S
  BY <1>2, <1>7, Elements
<1> QED BY <1>4, <1>8 DEF c

LEMMA FilesOfAll ==
  /\ GlobalFiles \in Seq(ToSet(GlobalFiles))
  /\ \A f \in ToSet(GlobalFiles) : f.change = NoChange
PROOF
<1> DEFINE G(j) == File(<<NoChange, GlobalSpecs[j].place>>, "spec",
                        GlobalSpecs[j].capability \o <<"spec">>, NoChange)
           S == {G(j) : j \in DOMAIN GlobalSpecs}
<1>1. Len(GlobalSpecs) \in Nat /\ DOMAIN GlobalSpecs = 1 .. Len(GlobalSpecs)
  BY DirectoryAssumption, LenProperties
<1>2. GlobalFiles = [j \in DOMAIN GlobalSpecs |-> G(j)]
  BY DEF GlobalFiles
<1>3. GlobalFiles \in [DOMAIN GlobalSpecs -> S]
  BY <1>2, Zenon
<1>4. \A f \in S : f.change = NoChange
  BY DEF File
<1> HIDE DEF S, G
<1>5. GlobalFiles \in Seq(S)
  BY <1>1, <1>3, Tabulated
<1> QED BY <1>4, <1>5, Elements

(* Whatever an import is restricted to, it finds some of all the files;    *)
(* and each of these is a global one or of one of the changes.             *)
LEMMA FilesFound ==
  /\ \A only \in Scopes : FilesOf[only] \in Seq(AllFiles)
  /\ \A f \in AllFiles : f.change = NoChange \/ \E i \in ChangesOf : f.change = Changes[i].name
PROOF
<1> DEFINE T == UNION {ToSet(ChangeFiles(Changes[i])) : i \in ChangesOf}
           Found(only, i) ==
             IF only \in {NoChange, Changes[i].name} THEN ChangeFiles(Changes[i]) ELSE << >>
           each(only) == [i \in DOMAIN Changes |-> Found(only, i)]
           global(only) == IF only = NoChange THEN GlobalFiles ELSE << >>
           U == T \cup ToSet(GlobalFiles)
<1>1. ASSUME NEW only
      PROVE  /\ FlattenSeq(each(only)) \in Seq(T)
             /\ only = NoChange => ToSet(FlattenSeq(each(only))) = T
  <2> DEFINE e == each(only)
  <2>1. ASSUME NEW i \in ChangesOf
        PROVE  /\ e[i] \in Seq(T)
               /\ only = NoChange => ToSet(e[i]) = ToSet(ChangeFiles(Changes[i]))
    <3>1. e[i] = ChangeFiles(Changes[i]) \/ e[i] = << >>
      BY DEF ChangesOf
    <3>2. only = NoChange => e[i] = ChangeFiles(Changes[i])
      BY DEF ChangesOf
    <3>3. ToSet(ChangeFiles(Changes[i])) \subseteq T
      OBVIOUS
    <3> HIDE DEF e, T
    <3>4. ChangeFiles(Changes[i]) \in Seq(T) /\ << >> \in Seq(T)
      BY <3>3, FilesOfChange, SeqMonotonic, EmptySeq
    <3> QED BY <3>1, <3>2, <3>4
  <2>2. e \in [1 .. Len(Changes) -> Seq(T)] /\ e = [i \in ChangesOf |-> e[i]]
    <3>1. e = [i \in ChangesOf |-> e[i]]
      BY Zenon DEF ChangesOf
    <3> HIDE DEF e, T
    <3> QED BY <2>1, <3>1, ChangesType
  <2> HIDE DEF e
  <2>3. /\ FlattenSeq(e) \in Seq(T)
        /\ ToSet(FlattenSeq(e)) = UNION {ToSet(e[i]) : i \in ChangesOf}
    <3> HIDE DEF T
    <3> QED BY <2>2, ChangesType, FlattenedEach
  <2>4. only = NoChange => UNION {ToSet(e[i]) : i \in ChangesOf} = T
    BY <2>1
  <2> QED BY <2>3, <2>4 DEF e
<1>2. \A only : Discovered(only) = FlattenSeq(each(only)) \o global(only)
  BY DEF Discovered
<1>3. \A only : global(only) \in Seq(ToSet(GlobalFiles))
  BY FilesOfAll, EmptySeq
<1>4. T \subseteq U /\ ToSet(GlobalFiles) \subseteq U
  OBVIOUS
<1>5. \A f \in U : f.change = NoChange \/ \E i \in ChangesOf : f.change = Changes[i].name
  BY FilesOfChange, FilesOfAll
<1> HIDE DEF T, each
<1>6. \A only : FlattenSeq(each(only)) \in Seq(U) /\ global(only) \in Seq(U)
  <2> HIDE DEF U, global
  <2> QED BY <1>1, <1>3, <1>4, SeqMonotonic
<1>7. AllFiles = U
  <2>1. AllFiles = ToSet(FlattenSeq(each(NoChange))) \cup ToSet(global(NoChange))
    <3> HIDE DEF U, global
    <3> QED BY <1>2, <1>6, ElementsOfConcat DEF AllFiles
  <2> QED BY <1>1, <2>1
<1>8. \A only \in Scopes : FilesOf[only] = Discovered(only)
  BY DEF FilesOf
<1>9. \A only : Discovered(only) \in Seq(U)
  <2> HIDE DEF U, global
  <2> QED BY <1>2, <1>6, ElementsOfConcat
<1> QED BY <1>5, <1>7, <1>8, <1>9

(* What is planned for the files of one change                             *)
LEMMA Planned ==
  ASSUME NEW files \in Seq(AllFiles)
  PROVE  /\ Plan(files) \in Seq(AllFiles \X AllFiles)
         /\ \A f, g \in ToSet(files) :
              <<f, g>> \in ToSet(Plan(files)) <=>
                <<f.type, g.type>> \in {<<"spec", "proposal">>, <<"design", "proposal">>,
                                        <<"task", "spec">>, <<"task", "design">>}
         /\ ToSet(Plan(files)) \subseteq ToSet(files) \X ToSet(files)
PROOF
<1> DEFINE PP == AllFiles \X AllFiles
           Typed(t) == OfType(files, t)
           a == Pairs(Typed("spec"), Typed("proposal"))
           b == Pairs(Typed("design"), Typed("proposal"))
           before == Typed("spec") \o Typed("design")
           c == Pairs(Typed("task"), before)
           ab == a \o b
<1>1. \A t : /\ Typed(t) \in Seq(AllFiles)
             /\ ToSet(Typed(t)) = {f \in ToSet(files) : f.type = t}
  <2> TAKE t
  <2> DEFINE S == {f \in ToSet(files) : f.type = t}
  <2>1. Typed(t) \in Seq(AllFiles) /\ ToSet(Typed(t)) = ToSet(files) \cap S
    BY ElementsAmong DEF OfType
  <2> QED BY <2>1
<1> HIDE DEF Typed
<1>2. /\ before \in Seq(AllFiles)
      /\ ToSet(before) = ToSet(Typed("spec")) \cup ToSet(Typed("design"))
  BY <1>1, ElementsOfConcat
<1>3. /\ a \in Seq(PP) /\ ToSet(a) = ToSet(Typed("spec")) \X ToSet(Typed("proposal"))
      /\ b \in Seq(PP) /\ ToSet(b) = ToSet(Typed("design")) \X ToSet(Typed("proposal"))
      /\ c \in Seq(PP)
      /\ ToSet(c) = ToSet(Typed("task")) \X (ToSet(Typed("spec")) \cup ToSet(Typed("design")))
  <2>1. a \in Seq(PP) /\ ToSet(a) = ToSet(Typed("spec")) \X ToSet(Typed("proposal"))
    BY <1>1, ElementsOfPairs
  <2>2. b \in Seq(PP) /\ ToSet(b) = ToSet(Typed("design")) \X ToSet(Typed("proposal"))
    BY <1>1, ElementsOfPairs
  <2>3. c \in Seq(PP) /\ ToSet(c) = ToSet(Typed("task")) \X ToSet(before)
    <3>1. Typed("task") \in Seq(AllFiles) /\ before \in Seq(AllFiles)
      BY <1>1, <1>2
    <3> HIDE DEF before
    <3> QED BY <3>1, ElementsOfPairs
  <2> QED BY <2>1, <2>2, <2>3, <1>2
<1>4. Plan(files) = ab \o c
  BY DEF Plan, Typed
<1> HIDE DEF PP, a, b, c
<1>5. ab \in Seq(PP) /\ ToSet(ab) = ToSet(a) \cup ToSet(b)
  BY <1>3, ElementsOfConcat
<1> HIDE DEF ab
<1>6. Plan(files) \in Seq(PP) /\ ToSet(Plan(files)) = ToSet(a) \cup ToSet(b) \cup ToSet(c)
  BY <1>3, <1>4, <1>5, ElementsOfConcat
<1>7. \A t, f : f \in ToSet(Typed(t)) <=> f \in ToSet(files) /\ f.type = t
  BY <1>1
<1>8. ToSet(Plan(files)) \subseteq ToSet(files) \X ToSet(files)
  BY <1>3, <1>6, <1>7
<1>9. ASSUME NEW f \in ToSet(files), NEW g \in ToSet(files)
      PROVE  <<f, g>> \in ToSet(Plan(files)) <=>
                <<f.type, g.type>> \in {<<"spec", "proposal">>, <<"design", "proposal">>,
                                        <<"task", "spec">>, <<"task", "design">>}
  <2>1. <<f, g>> \in ToSet(Plan(files)) <=>
          \/ f.type = "spec" /\ g.type = "proposal"
          \/ f.type = "design" /\ g.type = "proposal"
          \/ f.type = "task" /\ (g.type = "spec" \/ g.type = "design")
    BY <1>3, <1>6, <1>7
  <2> QED BY <2>1
<1> QED BY <1>6, <1>8, <1>9 DEF PP

(* The plan of an import: the pairs of its stored files of which one       *)
(* depends on the other.                                                   *)
LEMMA PlanOfAll ==
  ASSUME NEW only \in Scopes, NEW stored
  PROVE  /\ LinkPlan(only, stored) \in Seq(AllFiles \X AllFiles)
         /\ \A pair \in ToSet(LinkPlan(only, stored)) : DependsOn(pair[1], pair[2])
         /\ \A f, g \in ToSet(FilesOf[only]) :
              DependsOn(f, g) /\ stored[f.path] # 0 /\ stored[g.path] # 0
                => <<f, g>> \in ToSet(LinkPlan(only, stored))
PROOF
<1> DEFINE PP == AllFiles \X AllFiles
           Kept(i) == Among(FilesOf[only],
                        {f \in AllFiles : f.change = Changes[i].name /\ stored[f.path] # 0})
           each == [i \in DOMAIN Changes |-> Plan(Kept(i))]
<1>1. FilesOf[only] \in Seq(AllFiles) /\ ToSet(FilesOf[only]) \subseteq AllFiles
  BY FilesFound, Elements
<1>2. \A i : /\ Kept(i) \in Seq(AllFiles)
             /\ \A f : f \in ToSet(Kept(i)) <=>
                         /\ f \in ToSet(FilesOf[only])
                         /\ f.change = Changes[i].name /\ stored[f.path] # 0
  <2> TAKE i
  <2> DEFINE S == {f \in AllFiles : f.change = Changes[i].name /\ stored[f.path] # 0}
  <2>1. Kept(i) \in Seq(AllFiles) /\ ToSet(Kept(i)) = ToSet(FilesOf[only]) \cap S
    <3> HIDE DEF S
    <3> QED BY <1>1, ElementsAmong DEF S
  <2> QED BY <1>1, <2>1
<1> HIDE DEF Kept
<1>3. /\ each \in [1 .. Len(Changes) -> Seq(PP)]
      /\ \A i \in ChangesOf : each[i] = Plan(Kept(i))
  BY <1>2, Planned, ChangesType DEF ChangesOf
<1>4. LinkPlan(only, stored) = FlattenSeq(each)
  BY DEF LinkPlan, Kept
<1> HIDE DEF each, PP
<1>5. /\ LinkPlan(only, stored) \in Seq(PP)
      /\ ToSet(LinkPlan(only, stored)) = UNION {ToSet(each[i]) : i \in ChangesOf}
  BY <1>3, <1>4, ChangesType, FlattenedEach
<1>6. ASSUME NEW pair \in ToSet(LinkPlan(only, stored)) PROVE DependsOn(pair[1], pair[2])
  <2>1. PICK i \in ChangesOf : pair \in ToSet(Plan(Kept(i)))
    BY <1>3, <1>5
  <2>2. PICK f \in ToSet(Kept(i)), g \in ToSet(Kept(i)) : pair = <<f, g>>
    BY <1>2, <2>1, Planned
  <2>3. <<f.type, g.type>> \in {<<"spec", "proposal">>, <<"design", "proposal">>,
                                <<"task", "spec">>, <<"task", "design">>}
    BY <1>2, <2>1, <2>2, Planned
  <2>4. f.change = g.change /\ f.change # NoChange
    BY <1>2, ChangesType
  <2> QED BY <2>2, <2>3, <2>4 DEF DependsOn
<1>7. ASSUME NEW f \in ToSet(FilesOf[only]), NEW g \in ToSet(FilesOf[only]),
             DependsOn(f, g), stored[f.path] # 0, stored[g.path] # 0
      PROVE  <<f, g>> \in ToSet(LinkPlan(only, stored))
  <2>1. PICK i \in ChangesOf : f.change = Changes[i].name
    BY <1>1, <1>7, FilesFound DEF DependsOn
  <2>2. f \in ToSet(Kept(i)) /\ g \in ToSet(Kept(i))
    BY <1>2, <1>7, <2>1 DEF DependsOn
  <2>3. <<f, g>> \in ToSet(Plan(Kept(i)))
    BY <1>2, <1>7, <2>2, Planned DEF DependsOn
  <2> QED BY <1>3, <1>5, <2>3
<1> QED BY <1>5, <1>6, <1>7 DEF PP

(***************************************************************************)
(* The inductive invariant                                                 *)
(***************************************************************************)
ArtifactRecords == [state : {"live"}, name : Names, path : Paths \cup {NoFile}]

FilesRecords == [at : {"files"}, only : Scopes, force : BOOLEAN, next : Nat,
                 index : [Paths -> Ids \cup {0}], name : [Paths -> Names \cup {<< >>}],
                 stored : [Paths -> Ids \cup {0}], failed : SUBSET Paths]

LinksRecords == [at : {"links"}, only : Scopes, stored : [Paths -> Ids \cup {0}],
                 failed : SUBSET Paths, plan : Seq(AllFiles \X AllFiles)]

Shapes ==
  /\ artifacts \in [Ids -> {Unborn, Deleted} \cup ArtifactRecords]
  /\ links \subseteq Ids \X Ids
  /\ import \in [Importers -> {Idle} \cup FilesRecords \cup LinksRecords]
  /\ imports \in 0 .. MaxImports /\ events \in 0 .. MaxEvents
  /\ crossed \in BOOLEAN

\* An id that an import has in hand is that of a row, or of one that was.
IdsBorn(ids) == \A p \in Paths : ids[p] # 0 => artifacts[ids[p]] # Unborn

\* While no name is given up: the index is right, and a file it does not know
\* has no artifact but perhaps one that got the name of the file.
IndexFits(r) ==
  \A f \in AllFiles :
    /\ r.index[f.path] # 0 => /\ r.index[f.path] \in From(f.path)
                              /\ artifacts[r.index[f.path]].name = r.name[f.path]
    /\ r.index[f.path] = 0 => \A i \in From(f.path) : artifacts[i].name = f.name

StoredFits(r) == \A p \in Paths : r.stored[p] # 0 => r.stored[p] \in From(p)

Handled(r, f) == f.path \in r.failed \/ r.stored[f.path] # 0

AtFilesOK(r) ==
  /\ r.next \in 1 .. Len(FilesOf[r.only]) + 1
  /\ IdsBorn(r.index) /\ IdsBorn(r.stored)
  /\ ~crossed => /\ IndexFits(r) /\ StoredFits(r)
                 /\ \A j \in 1 .. Len(FilesOf[r.only]) :
                      j < r.next => Handled(r, FilesOf[r.only][j])

\* What is not linked yet is planned.
PlanLeft(r) ==
  \A f, g \in ToSet(FilesOf[r.only]) :
    DependsOn(f, g) /\ r.stored[f.path] \in Live /\ r.stored[g.path] \in Live
      => \/ <<r.stored[f.path], r.stored[g.path]>> \in links
         \/ <<f, g>> \in ToSet(r.plan)

AtLinksOK(r) ==
  /\ IdsBorn(r.stored)
  /\ \A pair \in ToSet(r.plan) : DependsOn(pair[1], pair[2])
  /\ PlanLeft(r)
  /\ ~crossed => /\ StoredFits(r)
                 /\ \A f \in ToSet(FilesOf[r.only]) : Handled(r, f)

RecordOK(r) == /\ r.at = "files" => AtFilesOK(r)
               /\ r.at = "links" => AtLinksOK(r)

NamesUnique == \A i, j \in Live : artifacts[i].name = artifacts[j].name => i = j

OneEach == \A p \in Paths : \A i, j \in From(p) : i = j

LinksFit == \A l \in links : \E f, g \in AllFiles :
              DependsOn(f, g) /\ l[1] \in From(f.path) /\ l[2] \in From(g.path)

World == NamesUnique /\ (~crossed => OneEach /\ LinksFit)

Inv == Shapes /\ World /\ \A k \in Importers : RecordOK(import[k])

(***************************************************************************)
(* The tables                                                              *)
(***************************************************************************)
LEMMA BoundsType == /\ MaxArtifacts \in Nat /\ MaxImports \in Nat /\ MaxEvents \in Nat
                    /\ 0 \notin Ids /\ Ids \subseteq Nat
BY BoundAssumption DEF Ids

LEMMA LiveRecords ==
  ASSUME Shapes
  PROVE  /\ \A i \in Live : i \in Ids /\ artifacts[i] \in ArtifactRecords /\ artifacts[i] # Unborn
         /\ 0 \notin Live
         /\ \A p : From(p) \subseteq Live
PROOF
<1>1. \A i \in Live : i \in Ids /\ artifacts[i].state = "live"
  BY DEF Live
<1>2. Unborn.state # "live" /\ Deleted.state # "live"
  BY DEF Unborn, Deleted
<1>3. \A i \in Live : artifacts[i] \in ArtifactRecords /\ artifacts[i] # Unborn
  BY <1>1, <1>2 DEF Shapes
<1> QED BY <1>1, <1>3, BoundsType DEF From

LEMMA PairsOfFiles ==
  ASSUME NEW only \in Scopes
  PROVE  /\ FilesOf[only] \in Seq(AllFiles) /\ Len(FilesOf[only]) \in Nat
         /\ ToSet(FilesOf[only]) = {FilesOf[only][j] : j \in 1 .. Len(FilesOf[only])}
         /\ \A j \in 1 .. Len(FilesOf[only]) : FilesOf[only][j] \in AllFiles
         /\ ToSet(FilesOf[only]) \subseteq AllFiles
BY FilesFound, Elements, LenProperties, ElementOfSeq

LEMMA PathsOfFiles == \A f \in AllFiles : f.path \in Paths /\ f.name \in Names
BY DEF Paths, Names

LEMMA SetOfPair == \A a, b : ToSet(<<a, b>>) = {a, b}
PROOF
<1> TAKE a, b
<1>1. DOMAIN <<a, b>> = {1, 2}
  OBVIOUS
<1> QED BY <1>1 DEF ToSet

(* What the index says of a path                                           *)
LEMMA Indexed ==
  ASSUME Shapes, NEW latest \in BOOLEAN
  PROVE  /\ Index(latest) \in [Paths -> Ids \cup {0}]
         /\ \A p \in Paths : /\ Index(latest)[p] # 0 => Index(latest)[p] \in From(p)
                             /\ Index(latest)[p] = 0 => From(p) = {}
PROOF
<1>1. ASSUME NEW p \in Paths, From(p) # {}
      PROVE  Max(From(p)) \in From(p) /\ Min(From(p)) \in From(p)
  <2>1. From(p) \in SUBSET (1 .. MaxArtifacts) /\ From(p) \in SUBSET Nat
    BY LiveRecords, BoundsType DEF Ids
  <2>2. \E m \in From(p) : \A n \in From(p) : m >= n
    BY <1>1, <2>1, BoundsType, GreatestNumber
  <2>3. \E m \in From(p) : \A n \in From(p) : m <= n
    BY <1>1, <2>1, LeastNumber
  <2>4. Max(From(p)) \in From(p)
    BY <2>2, Zenon DEF Max
  <2>5. Min(From(p)) \in From(p)
    BY <2>3, Zenon DEF Min
  <2> QED BY <2>4, <2>5
<1>2. \A p \in Paths : From(p) \subseteq Ids /\ 0 \notin From(p)
  BY LiveRecords, BoundsType
<1>3. \A p \in Paths : Index(latest)[p] = IF From(p) = {} THEN 0
                                          ELSE IF latest THEN Max(From(p)) ELSE Min(From(p))
  BY Zenon DEF Index
<1>4. Index(latest) = [p \in Paths |-> Index(latest)[p]]
  BY Zenon DEF Index
<1>5. \A p \in Paths : /\ Index(latest)[p] \in Ids \cup {0}
                       /\ Index(latest)[p] # 0 => Index(latest)[p] \in From(p)
                       /\ Index(latest)[p] = 0 => From(p) = {}
  BY <1>1, <1>2, <1>3
<1> QED BY <1>4, <1>5

(***************************************************************************)
(* What a step leaves of an import that is under way                       *)
(***************************************************************************)

\* What the import has in hand does not come back from the dead, and links
\* are lost only with an artifact; while no name is given up, the artifacts
\* of a file stay, and those that are added get its name.
Grown ==
  /\ \A i \in Ids : artifacts[i] # Unborn => artifacts'[i] # Unborn
  /\ \A i \in Ids : artifacts[i] # Unborn /\ i \in Live' => i \in Live
  /\ \A i, j \in Live' : <<i, j>> \in links => <<i, j>> \in links'
  /\ ~crossed' =>
       /\ ~crossed
       /\ \A f \in AllFiles :
            /\ \A i \in From(f.path) : i \in From(f.path)' /\ artifacts'[i].name = artifacts[i].name
            /\ \A i \in From(f.path)' : i \in From(f.path) \/ artifacts'[i].name = f.name

LEMMA RecordKept ==
  ASSUME Grown, NEW r \in {Idle} \cup FilesRecords \cup LinksRecords, RecordOK(r)
  PROVE  RecordOK(r)'
PROOF
<1>1. \A p \in Paths : \E f \in AllFiles : p = f.path
  BY DEF Paths
<1>2. ASSUME r \in FilesRecords \cup LinksRecords
      PROVE  /\ IdsBorn(r.stored) => IdsBorn(r.stored)'
             /\ ~crossed' /\ StoredFits(r) => StoredFits(r)'
  <2>1. \A p \in Paths : r.stored[p] \in Ids \cup {0}
    BY <1>2 DEF FilesRecords, LinksRecords
  <2>2. IdsBorn(r.stored) => IdsBorn(r.stored)'
    BY <2>1 DEF Grown, IdsBorn
  <2>3. ~crossed' /\ StoredFits(r) => StoredFits(r)'
    BY <1>1 DEF Grown, StoredFits
  <2> QED BY <2>2, <2>3
<1>3. ASSUME r \in FilesRecords, r.at = "files" PROVE AtFilesOK(r)'
  <2>1. AtFilesOK(r)
    BY <1>3 DEF RecordOK
  <2>2. IdsBorn(r.index)'
    <3>1. \A p \in Paths : r.index[p] \in Ids \cup {0}
      BY <1>3 DEF FilesRecords
    <3> QED BY <2>1, <3>1 DEF Grown, IdsBorn, AtFilesOK
  <2>3. ~crossed' => ~crossed
    BY DEF Grown
  <2>4. ~crossed' => IndexFits(r)'
    BY <2>1, <2>3 DEF Grown, IndexFits, AtFilesOK
  <2> QED BY <1>2, <1>3, <2>1, <2>2, <2>3, <2>4 DEF AtFilesOK, Handled
<1>4. ASSUME r \in LinksRecords, r.at = "links" PROVE AtLinksOK(r)'
  <2>1. AtLinksOK(r)
    BY <1>4 DEF RecordOK
  <2>2. PlanLeft(r)'
    <3> SUFFICES ASSUME NEW f \in ToSet(FilesOf[r.only]), NEW g \in ToSet(FilesOf[r.only]),
                        DependsOn(f, g), r.stored[f.path] \in Live', r.stored[g.path] \in Live',
                        <<f, g>> \notin ToSet(r.plan)
                 PROVE  <<r.stored[f.path], r.stored[g.path]>> \in links'
      BY DEF PlanLeft
    <3>1. r.only \in Scopes /\ f \in AllFiles /\ g \in AllFiles
      BY <1>4, PairsOfFiles DEF LinksRecords
    <3>2. f.path \in Paths /\ g.path \in Paths
      BY <3>1, PathsOfFiles
    <3>3. /\ r.stored[f.path] \in Ids /\ r.stored[f.path] # 0
          /\ r.stored[g.path] \in Ids /\ r.stored[g.path] # 0
      BY BoundsType DEF Live
    <3>4. r.stored[f.path] \in Live /\ r.stored[g.path] \in Live
      BY <2>1, <3>2, <3>3 DEF Grown, AtLinksOK, IdsBorn
    <3>5. <<r.stored[f.path], r.stored[g.path]>> \in links
      BY <2>1, <3>4 DEF AtLinksOK, PlanLeft
    <3> QED BY <3>5 DEF Grown
  <2>3. ~crossed' => ~crossed
    BY DEF Grown
  <2> QED BY <1>2, <1>4, <2>1, <2>2, <2>3 DEF AtLinksOK, Handled
<1>5. Idle.at = "idle" /\ \A q : (q \in FilesRecords => q.at = "files")
                               /\ (q \in LinksRecords => q.at = "links")
  BY DEF Idle, FilesRecords, LinksRecords
<1>6. CASE r = Idle
  BY <1>5, <1>6 DEF RecordOK
<1>7. CASE r \in FilesRecords
  BY <1>3, <1>5, <1>7 DEF RecordOK
<1>8. CASE r \in LinksRecords
  BY <1>4, <1>5, <1>8 DEF RecordOK
<1> QED BY <1>6, <1>7, <1>8

(***************************************************************************)
(* What the steps make of the record of an import                          *)
(***************************************************************************)
LEMMA RecordTypes ==
  /\ \A r \in FilesRecords : /\ r.at = "files" /\ r.only \in Scopes /\ r.next \in Nat
                             /\ r.index \in [Paths -> Ids \cup {0}]
                             /\ r.name \in [Paths -> Names \cup {<< >>}]
                             /\ r.stored \in [Paths -> Ids \cup {0}]
                             /\ r.failed \in SUBSET Paths
                             /\ r.force \in BOOLEAN
  /\ \A r \in LinksRecords : /\ r.at = "links" /\ r.only \in Scopes
                             /\ r.stored \in [Paths -> Ids \cup {0}]
                             /\ r.failed \in SUBSET Paths
                             /\ r.plan \in Seq(AllFiles \X AllFiles)
  /\ Idle.at = "idle"
BY DEF FilesRecords, LinksRecords, Idle

LEMMA RecordOfFiles ==
  ASSUME Shapes, NEW k \in Importers
  PROVE  /\ import[k].at = "files" => import[k] \in FilesRecords
         /\ import[k].at = "links" => import[k] \in LinksRecords
BY RecordTypes DEF Shapes

(* The file is done with, by artifact i.                                   *)
LEMMA Advanced ==
  ASSUME NEW r \in FilesRecords, AtFilesOK(r)', r.next <= Len(FilesOf[r.only]),
         NEW f, f = FilesOf[r.only][r.next],
         NEW i \in Ids \cup {0}, i # 0 => artifacts'[i] # Unborn,
         ~crossed' => i \in From(f.path)',
         NEW q, q = [r EXCEPT !.next = @ + 1, !.stored[f.path] = i]
  PROVE  q \in FilesRecords /\ RecordOK(q)'
PROOF
<1>1. /\ r.only \in Scopes /\ r.next \in Nat /\ r.index \in [Paths -> Ids \cup {0}]
      /\ r.stored \in [Paths -> Ids \cup {0}]
  BY RecordTypes
<1>2. r.next \in 1 .. Len(FilesOf[r.only]) /\ Len(FilesOf[r.only]) \in Nat
  BY <1>1, PairsOfFiles DEF AtFilesOK
<1>3. f \in AllFiles /\ f.path \in Paths
  BY <1>1, <1>2, PairsOfFiles, PathsOfFiles
<1>4. q \in FilesRecords
  <2> DEFINE now == [r.stored EXCEPT ![f.path] = i]
  <2>1. now \in [Paths -> Ids \cup {0}] /\ r.next + 1 \in Nat
    BY <1>1, <1>3
  <2>2. q = [r EXCEPT !.next = r.next + 1, !.stored = now]
    OBVIOUS
  <2> HIDE DEF now
  <2> QED BY <2>1, <2>2 DEF FilesRecords
<1>5. /\ q.only = r.only /\ q.next = r.next + 1 /\ q.index = r.index /\ q.name = r.name
      /\ q.failed = r.failed
      /\ q.stored = [r.stored EXCEPT ![f.path] = i]
  BY DEF FilesRecords
<1>6. q.stored[f.path] = i /\ \A p \in Paths : p # f.path => q.stored[p] = r.stored[p]
  BY <1>1, <1>3, <1>5
<1>7. q.next \in 1 .. Len(FilesOf[q.only]) + 1
  BY <1>2, <1>5
<1>8. IdsBorn(q.index)' /\ IdsBorn(q.stored)'
  BY <1>5, <1>6 DEF AtFilesOK, IdsBorn
<1>9. ASSUME ~crossed' PROVE /\ IndexFits(q)' /\ StoredFits(q)'
                             /\ \A j \in 1 .. Len(FilesOf[q.only]) :
                                  j < q.next => Handled(q, FilesOf[q.only][j])
  <2>1. IndexFits(q)'
    BY <1>5, <1>9 DEF AtFilesOK, IndexFits
  <2>2. StoredFits(q)'
    BY <1>6, <1>9 DEF AtFilesOK, StoredFits
  <2>3. i # 0
    BY <1>9, BoundsType DEF From, Live
  <2>4. ASSUME NEW j \in 1 .. Len(FilesOf[r.only]), j < r.next + 1
        PROVE  Handled(q, FilesOf[r.only][j])
    <3>1. FilesOf[r.only][j].path \in Paths
      BY <1>1, PairsOfFiles, PathsOfFiles
    <3>2. CASE j = r.next
      BY <1>6, <2>3, <3>2 DEF Handled
    <3>3. CASE j # r.next
      <4>1. j < r.next
        BY <1>2, <2>4, <3>3
      <4>2. Handled(r, FilesOf[r.only][j])
        BY <1>9, <4>1 DEF AtFilesOK, Handled
      <4> QED BY <1>5, <1>6, <2>3, <3>1, <4>2 DEF Handled
    <3> QED BY <3>2, <3>3
  <2> QED BY <1>5, <2>1, <2>2, <2>4
<1> QED BY <1>4, <1>7, <1>8, <1>9, RecordTypes DEF AtFilesOK, RecordOK, Handled

(* The file is reported as failed.                                         *)
LEMMA Reported ==
  ASSUME NEW r \in FilesRecords, AtFilesOK(r)', r.next <= Len(FilesOf[r.only]),
         NEW f, f = FilesOf[r.only][r.next],
         NEW q, q = [r EXCEPT !.next = @ + 1, !.failed = @ \cup {f.path}]
  PROVE  q \in FilesRecords /\ RecordOK(q)'
PROOF
<1>1. /\ r.only \in Scopes /\ r.next \in Nat /\ r.failed \in SUBSET Paths
  BY RecordTypes
<1>2. r.next \in 1 .. Len(FilesOf[r.only]) /\ Len(FilesOf[r.only]) \in Nat
  BY <1>1, PairsOfFiles DEF AtFilesOK
<1>3. f \in AllFiles /\ f.path \in Paths
  BY <1>1, <1>2, PairsOfFiles, PathsOfFiles
<1>4. q \in FilesRecords
  <2> DEFINE now == r.failed \cup {f.path}
  <2>1. now \in SUBSET Paths /\ r.next + 1 \in Nat
    BY <1>1, <1>3
  <2>2. q = [r EXCEPT !.next = r.next + 1, !.failed = now]
    OBVIOUS
  <2> HIDE DEF now
  <2> QED BY <2>1, <2>2 DEF FilesRecords
<1>5. /\ q.only = r.only /\ q.next = r.next + 1 /\ q.index = r.index /\ q.name = r.name
      /\ q.failed = r.failed \cup {f.path} /\ q.stored = r.stored
  BY DEF FilesRecords
<1>6. q.next \in 1 .. Len(FilesOf[q.only]) + 1
  BY <1>2, <1>5
<1>7. ASSUME ~crossed' PROVE /\ IndexFits(q)' /\ StoredFits(q)'
                             /\ \A j \in 1 .. Len(FilesOf[q.only]) :
                                  j < q.next => Handled(q, FilesOf[q.only][j])
  <2>1. IndexFits(q)' /\ StoredFits(q)'
    BY <1>5, <1>7 DEF AtFilesOK, IndexFits, StoredFits
  <2>2. ASSUME NEW j \in 1 .. Len(FilesOf[r.only]), j < r.next + 1
        PROVE  Handled(q, FilesOf[r.only][j])
    <3>1. CASE j = r.next
      BY <1>5, <3>1 DEF Handled
    <3>2. CASE j # r.next
      <4>1. j < r.next
        BY <1>2, <2>2, <3>2
      <4>2. Handled(r, FilesOf[r.only][j])
        BY <1>7, <4>1 DEF AtFilesOK, Handled
      <4> QED BY <1>5, <4>2 DEF Handled
    <3> QED BY <3>1, <3>2
  <2> QED BY <1>5, <2>1, <2>2
<1> QED BY <1>4, <1>5, <1>6, <1>7, RecordTypes DEF AtFilesOK, RecordOK, Handled, IdsBorn

(* A step of import k that the others survive                              *)
LEMMA StepOfImport ==
  ASSUME Inv, Grown, World', NEW k \in Importers,
         NEW q \in {Idle} \cup FilesRecords \cup LinksRecords, RecordOK(q)',
         import' = [import EXCEPT ![k] = q],
         artifacts' \in [Ids -> {Unborn, Deleted} \cup ArtifactRecords],
         links' \subseteq Ids \X Ids,
         imports' \in 0 .. MaxImports, events' \in 0 .. MaxEvents, crossed' = crossed
  PROVE  Inv'
PROOF
<1>1. /\ import \in [Importers -> {Idle} \cup FilesRecords \cup LinksRecords]
      /\ crossed \in BOOLEAN
  BY DEF Inv, Shapes
<1>2. import' \in [Importers -> {Idle} \cup FilesRecords \cup LinksRecords]
  BY <1>1
<1>3. import'[k] = q /\ \A j \in Importers : j # k => import'[j] = import[j]
  BY <1>1
<1>4. ASSUME NEW j \in Importers PROVE RecordOK(import[j])'
  <2>1. CASE j = k
    <3>1. import'[j] = q
      BY <1>3, <2>1
    <3> QED BY <3>1
  <2>2. CASE j # k
    <3>1. PICK r \in {Idle} \cup FilesRecords \cup LinksRecords : r = import[j]
      BY <1>1
    <3>2. RecordOK(r)
      BY <3>1 DEF Inv
    <3>3. RecordOK(r)'
      BY <3>2, RecordKept
    <3>4. import'[j] = r
      BY <1>3, <2>2, <3>1
    <3> QED BY <3>3, <3>4
  <2> QED BY <2>1, <2>2
<1>5. Shapes'
  BY <1>1, <1>2 DEF Shapes, FilesRecords, LinksRecords, ArtifactRecords
<1> QED BY <1>4, <1>5 DEF Inv

(* A step that leaves the tables alone                                     *)
LEMMA TablesKept ==
  ASSUME Inv, UNCHANGED <<artifacts, links, crossed>>
  PROVE  /\ Grown /\ World'
         /\ artifacts' \in [Ids -> {Unborn, Deleted} \cup ArtifactRecords]
         /\ links' \subseteq Ids \X Ids
         /\ crossed' = crossed
PROOF
<1>1. Live' = Live /\ \A p : From(p)' = From(p)
  BY DEF Live, From
<1>2. Grown
  BY <1>1 DEF Grown
<1>3. World'
  BY <1>1 DEF Inv, World, NamesUnique, OneEach, LinksFit
<1> QED BY <1>2, <1>3 DEF Inv, Shapes

(* The record of an import that goes through the files, and where it is    *)
LEMMA ThisFile ==
  ASSUME Inv, NEW k \in Importers, AtFile(k)
  PROVE  /\ import[k] \in FilesRecords /\ AtFilesOK(import[k])
         /\ import[k].next \in 1 .. Len(FilesOf[import[k].only])
         /\ import[k].next <= Len(FilesOf[import[k].only])
         /\ Current(k) = FilesOf[import[k].only][import[k].next]
         /\ Current(k) \in AllFiles
         /\ Current(k).path \in Paths /\ Current(k).name \in Names
PROOF
<1>1. import[k] \in FilesRecords /\ AtFilesOK(import[k]) /\ import[k].only \in Scopes
  BY RecordOfFiles, RecordTypes DEF AtFile, Inv, RecordOK
<1>2. import[k].next \in 1 .. Len(FilesOf[import[k].only])
  BY <1>1, PairsOfFiles DEF AtFile, AtFilesOK
<1>3. Current(k) = FilesOf[import[k].only][import[k].next] /\ Current(k) \in AllFiles
  BY <1>1, <1>2, PairsOfFiles DEF Current
<1> QED BY <1>1, <1>2, <1>3, PathsOfFiles DEF AtFile

(* Advance and Fail, whatever the step does to the tables                  *)
LEMMA AdvanceStep ==
  ASSUME Inv, Grown, World', NEW k \in Importers, AtFile(k), NEW f, f = Current(k),
         NEW i \in Ids \cup {0}, Advance(k, i),
         i # 0 => artifacts'[i] # Unborn,
         ~crossed => i \in From(f.path)',
         artifacts' \in [Ids -> {Unborn, Deleted} \cup ArtifactRecords],
         links' \subseteq Ids \X Ids, events' \in 0 .. MaxEvents
  PROVE  Inv'
PROOF
<1>1. PICK r \in FilesRecords : r = import[k]
  BY ThisFile
<1>2. f \in AllFiles
  BY ThisFile
<1>3. RecordOK(r)'
  BY <1>1, RecordKept DEF Inv
<1>4. AtFilesOK(r)'
  BY <1>3, RecordTypes DEF RecordOK
<1>5. r.next <= Len(FilesOf[r.only]) /\ f = FilesOf[r.only][r.next]
  BY <1>1, <1>2, ThisFile
<1>6. PICK q : q = [r EXCEPT !.next = @ + 1, !.stored[f.path] = i]
  OBVIOUS
<1>7. import' = [import EXCEPT ![k] = q]
  BY <1>1, <1>2, <1>6 DEF Advance, Inv, Shapes
<1>8. ~crossed' => i \in From(f.path)'
  BY DEF Advance
<1>9. q \in FilesRecords /\ RecordOK(q)'
  BY <1>4, <1>5, <1>6, <1>8, Advanced
<1>10. imports' \in 0 .. MaxImports /\ crossed' = crossed
  BY DEF Advance, Inv, Shapes
<1> QED BY <1>7, <1>9, <1>10, StepOfImport

LEMMA FailStep ==
  ASSUME Inv, NEW k \in Importers, AtFile(k), Fail(k),
         UNCHANGED <<artifacts, links>>, events' \in 0 .. MaxEvents
  PROVE  Inv'
PROOF
<1>1. PICK r \in FilesRecords : r = import[k]
  BY ThisFile
<1>2. PICK f \in AllFiles : f = Current(k)
  BY ThisFile
<1>3. /\ Grown /\ World' /\ links' \subseteq Ids \X Ids
      /\ artifacts' \in [Ids -> {Unborn, Deleted} \cup ArtifactRecords]
      /\ crossed' = crossed /\ imports' \in 0 .. MaxImports
  <2>1. UNCHANGED <<artifacts, links, crossed>> /\ imports' = imports
    BY DEF Fail
  <2> QED BY <2>1, TablesKept DEF Inv, Shapes
<1>4. RecordOK(r)'
  BY <1>1, <1>3, RecordKept DEF Inv
<1>5. AtFilesOK(r)'
  BY <1>4, RecordTypes DEF RecordOK
<1>6. r.next <= Len(FilesOf[r.only]) /\ f = FilesOf[r.only][r.next]
  BY <1>1, <1>2, ThisFile
<1>7. PICK q : q = [r EXCEPT !.next = @ + 1, !.failed = @ \cup {f.path}]
  OBVIOUS
<1>8. import' = [import EXCEPT ![k] = q]
  BY <1>1, <1>2, <1>7 DEF Fail, Inv, Shapes
<1>9. q \in FilesRecords /\ RecordOK(q)'
  BY <1>5, <1>6, <1>7, Reported
<1> QED BY <1>3, <1>8, <1>9, StepOfImport

(***************************************************************************)
(* The steps of an import                                                  *)
(***************************************************************************)
LEMMA InvAfterBegin ==
  ASSUME Inv, NEW k \in Importers, NEW only \in Scopes, NEW force \in BOOLEAN,
         Begin(k, only, force)
  PROVE  Inv'
PROOF
<1>1. PICK latest \in BOOLEAN : LET index == Index(latest) IN
        import' = [import EXCEPT ![k] =
         [at |-> "files", only |-> only, force |-> force, next |-> 1,
          index |-> index,
          name |-> [p \in Paths |-> IF index[p] = 0 THEN << >> ELSE artifacts[index[p]].name],
          stored |-> [p \in Paths |-> 0], failed |-> {}]]
  BY DEF Begin
<1>2. PICK index :
        /\ index = Index(latest)
        /\ import' = [import EXCEPT ![k] =
             [at |-> "files", only |-> only, force |-> force, next |-> 1,
              index |-> index,
              name |-> [p \in Paths |-> IF index[p] = 0 THEN << >> ELSE artifacts[index[p]].name],
              stored |-> [p \in Paths |-> 0], failed |-> {}]]
  BY <1>1
<1>3. PICK names : names = [p \in Paths |-> IF index[p] = 0 THEN << >>
                                            ELSE artifacts[index[p]].name]
  OBVIOUS
<1>4. PICK none : none = [p \in Paths |-> 0]
  OBVIOUS
<1>5. PICK q : q = [at |-> "files", only |-> only, force |-> force, next |-> 1,
                    index |-> index, name |-> names, stored |-> none, failed |-> {}]
  OBVIOUS
<1>6. import' = [import EXCEPT ![k] = q]
  BY <1>2, <1>3, <1>4, <1>5
<1>7. /\ UNCHANGED <<artifacts, links, crossed>> /\ events' = events
      /\ imports' = imports + 1 /\ imports < MaxImports
  BY DEF Begin
<1>8. /\ index \in [Paths -> Ids \cup {0}]
      /\ \A p \in Paths : /\ index[p] # 0 => index[p] \in From(p)
                          /\ index[p] = 0 => From(p) = {}
  BY <1>2, Indexed DEF Inv
<1>9. \A p \in Paths : From(p) \subseteq Live
  BY LiveRecords DEF Inv
<1>10. \A i \in Live : artifacts[i].name \in Names /\ artifacts[i] # Unborn
  <2>1. \A a \in ArtifactRecords : a.name \in Names
    BY DEF ArtifactRecords
  <2> QED BY <2>1, LiveRecords DEF Inv
<1>11. names \in [Paths -> Names \cup {<< >>}] /\ none \in [Paths -> Ids \cup {0}]
  BY <1>3, <1>4, <1>8, <1>9, <1>10
<1>12. q \in FilesRecords
  BY <1>5, <1>8, <1>11 DEF FilesRecords
<1>13. AtFilesOK(q)
  <2>1. /\ q.only = only /\ q.next = 1 /\ q.index = index /\ q.name = names
        /\ q.stored = none /\ q.failed = {}
    BY <1>5
  <2>2. q.next \in 1 .. Len(FilesOf[q.only]) + 1
    BY <2>1, PairsOfFiles
  <2>3. IdsBorn(q.index) /\ IdsBorn(q.stored)
    BY <1>4, <1>8, <1>9, <1>10, <2>1 DEF IdsBorn
  <2>4. IndexFits(q)
    <3>1. \A p \in Paths : index[p] # 0 => names[p] = artifacts[index[p]].name
      BY <1>3
    <3> QED BY <1>8, <2>1, <3>1, PathsOfFiles DEF IndexFits
  <2>5. StoredFits(q)
    BY <1>4, <2>1 DEF StoredFits
  <2>6. \A j \in 1 .. Len(FilesOf[q.only]) : ~ (j < q.next)
    BY <2>1
  <2> QED BY <2>2, <2>3, <2>4, <2>5, <2>6 DEF AtFilesOK
<1>14. RecordOK(q)'
  <2>1. RecordOK(q)
    BY <1>12, <1>13, RecordTypes DEF RecordOK
  <2>2. Grown
    BY <1>7, TablesKept
  <2> QED BY <1>12, <2>1, <2>2, RecordKept
<1>15. imports' \in 0 .. MaxImports /\ events' \in 0 .. MaxEvents
  BY <1>7, BoundsType DEF Inv, Shapes
<1> QED BY <1>6, <1>7, <1>12, <1>14, <1>15, TablesKept, StepOfImport

LEMMA InvAfterSkip ==
  ASSUME Inv, NEW k \in Importers, Skip(k)
  PROVE  Inv'
PROOF
<1>1. PICK f : f = Current(k)
  OBVIOUS
<1>2. PICK i : i = import[k].index[f.path]
  OBVIOUS
<1>3. AtFile(k) /\ i # 0 /\ Advance(k, i) /\ UNCHANGED <<artifacts, links, events>>
  BY <1>1, <1>2 DEF Skip, IsKnown
<1>4. UNCHANGED <<artifacts, links, crossed>>
  BY <1>3 DEF Advance
<1>5. /\ import[k] \in FilesRecords /\ AtFilesOK(import[k])
      /\ f \in AllFiles /\ f.path \in Paths
  BY <1>1, <1>3, ThisFile
<1>6. i \in Ids \cup {0} /\ artifacts[i] # Unborn
  BY <1>2, <1>3, <1>5, RecordTypes DEF AtFilesOK, IdsBorn
<1>7. ~crossed => i \in From(f.path)
  BY <1>2, <1>3, <1>5 DEF AtFilesOK, IndexFits
<1>8. ~crossed => i \in From(f.path)'
  BY <1>4, <1>7 DEF From, Live
<1>9. events' \in 0 .. MaxEvents /\ artifacts'[i] # Unborn
  BY <1>3, <1>6 DEF Inv, Shapes
<1> QED BY <1>1, <1>3, <1>4, <1>6, <1>8, <1>9, TablesKept, AdvanceStep

LEMMA InvAfterFailFile ==
  ASSUME Inv, NEW k \in Importers, FailFile(k)
  PROVE  Inv'
PROOF
<1>1. AtFile(k) /\ Fail(k) /\ UNCHANGED <<artifacts, links>>
  BY DEF FailFile
<1>2. events' \in 0 .. MaxEvents
  BY BoundsType DEF FailFile, Event, Inv, Shapes
<1> QED BY <1>1, <1>2, FailStep

(* While no name is given up, the UPDATE finds the artifact that the index *)
(* has for the file, and so leaves its path as it is.                      *)
LEMMA RewriteFindsItsOwn ==
  ASSUME Inv, NEW k \in Importers, AtFile(k), IsKnown(k), ~crossed
  PROVE  LET i == import[k].index[Current(k).path]
         IN /\ i \in From(Current(k).path)
            /\ Named(import[k].name[Current(k).path]) = {i}
PROOF
<1> DEFINE f == Current(k)
           i == import[k].index[f.path]
<1>1. AtFilesOK(import[k]) /\ f \in AllFiles
  BY ThisFile
<1>2. i \in From(f.path) /\ artifacts[i].name = import[k].name[f.path]
  BY <1>1 DEF AtFilesOK, IndexFits, IsKnown
<1>3. i \in Live
  BY <1>2 DEF From
<1>4. \A j \in Live : artifacts[j].name = artifacts[i].name => j = i
  BY <1>3 DEF Inv, World, NamesUnique
<1> QED BY <1>2, <1>3, <1>4 DEF Named

LEMMA InvAfterRewrite ==
  ASSUME Inv, NEW k \in Importers, Rewrite(k)
  PROVE  Inv'
PROOF
<1>1. PICK f : f = Current(k)
  OBVIOUS
<1>2. PICK found : found = Named(import[k].name[f.path])
  OBVIOUS
<1>3. /\ AtFile(k) /\ IsKnown(k) /\ links' = links /\ events' = events
      /\ \/ found = {} /\ Advance(k, 0) /\ UNCHANGED artifacts
         \/ \E i \in found : /\ artifacts' = [artifacts EXCEPT ![i].path = f.path]
                             /\ Advance(k, i)
  BY <1>1, <1>2 DEF Rewrite
<1>4. f \in AllFiles /\ f.path \in Paths
  BY <1>1, <1>3, ThisFile
<1>5. events' \in 0 .. MaxEvents /\ links' \subseteq Ids \X Ids
  BY <1>3 DEF Inv, Shapes
<1>6. CASE found = {} /\ Advance(k, 0) /\ UNCHANGED artifacts
  <2>1. crossed
    BY <1>1, <1>2, <1>3, <1>6, RewriteFindsItsOwn
  <2>2. UNCHANGED <<artifacts, links, crossed>>
    BY <1>3, <1>6 DEF Advance
  <2> QED BY <1>1, <1>3, <1>5, <1>6, <2>1, <2>2, TablesKept, AdvanceStep
<1>7. ASSUME NEW i \in found, artifacts' = [artifacts EXCEPT ![i].path = f.path], Advance(k, i)
      PROVE  Inv'
  <2>1. i \in Live /\ i \in Ids /\ artifacts[i] \in ArtifactRecords
    BY <1>2, LiveRecords DEF Named, Inv
  <2>2. PICK a : a = [artifacts[i] EXCEPT !.path = f.path]
    OBVIOUS
  <2>3. /\ a \in ArtifactRecords /\ a.state = "live" /\ a.path = f.path
        /\ a.name = artifacts[i].name /\ a # Unborn
    BY <1>4, <2>1, <2>2 DEF ArtifactRecords, Unborn
  <2>4. artifacts' = [artifacts EXCEPT ![i] = a]
    BY <1>7, <2>2
  <2>5. artifacts \in [Ids -> {Unborn, Deleted} \cup ArtifactRecords]
    BY DEF Inv, Shapes
  <2>6. artifacts' \in [Ids -> {Unborn, Deleted} \cup ArtifactRecords]
    BY <2>3, <2>4, <2>5
  <2>7. artifacts'[i] = a /\ \A j \in Ids : j # i => artifacts'[j] = artifacts[j]
    BY <2>1, <2>4, <2>5
  <2>8. Live' = Live /\ \A j \in Live : artifacts'[j].name = artifacts[j].name
    BY <2>1, <2>3, <2>7 DEF Live
  <2>9. crossed' = crossed
    BY <1>7 DEF Advance
  <2>10. ASSUME ~crossed PROVE \A p : From(p)' = From(p)
    <3>1. i \in From(f.path)
      BY <1>1, <1>2, <1>3, <2>10, RewriteFindsItsOwn
    <3>2. artifacts'[i].path = artifacts[i].path
      BY <2>3, <2>7, <3>1 DEF From
    <3>3. \A j \in Live : artifacts'[j].path = artifacts[j].path
      BY <2>7, <3>2 DEF Live
    <3> QED BY <2>8, <3>3 DEF From
  <2>11. Grown
    <3>1. \A j \in Ids : artifacts[j] # Unborn => artifacts'[j] # Unborn
      BY <2>3, <2>7
    <3> QED BY <1>3, <2>8, <2>9, <2>10, <3>1, LiveRecords DEF Grown, Inv
  <2>12. World'
    <3>1. NamesUnique'
      BY <2>8 DEF Inv, World, NamesUnique
    <3>2. ~crossed' => OneEach' /\ LinksFit'
      BY <1>3, <2>9, <2>10 DEF Inv, World, OneEach, LinksFit
    <3> QED BY <3>1, <3>2 DEF World
  <2>13. ~crossed => i \in From(f.path)'
    BY <2>1, <2>3, <2>7, <2>8 DEF From
  <2> QED BY <1>1, <1>3, <1>5, <1>7, <2>1, <2>3, <2>6, <2>7, <2>11, <2>12, <2>13, AdvanceStep
<1> QED BY <1>3, <1>6, <1>7

(* An INSERT, of a file that has no artifact or of what no import has made *)
LEMMA Inserted ==
  ASSUME Inv, NEW i \in Ids, NEW name \in Names, NEW path \in Paths \cup {NoFile},
         Insert(i, name, path), UNCHANGED <<links, crossed>>,
         \A f \in AllFiles : ~crossed /\ f.path = path => From(path) = {} /\ f.name = name
  PROVE  /\ Grown /\ World'
         /\ artifacts' \in [Ids -> {Unborn, Deleted} \cup ArtifactRecords]
         /\ artifacts'[i] # Unborn /\ i \in From(path)'
PROOF
<1>1. PICK a : a = Artifact(name, path)
  OBVIOUS
<1>2. /\ a \in ArtifactRecords /\ a.state = "live" /\ a.name = name /\ a.path = path
      /\ a # Unborn
  BY <1>1 DEF Artifact, ArtifactRecords, Unborn
<1>3. artifacts \in [Ids -> {Unborn, Deleted} \cup ArtifactRecords]
  BY DEF Inv, Shapes
<1>4. artifacts[i] = Unborn /\ artifacts' = [artifacts EXCEPT ![i] = a] /\ Named(name) = {}
  BY <1>1 DEF Insert
<1>5. artifacts' \in [Ids -> {Unborn, Deleted} \cup ArtifactRecords]
  BY <1>2, <1>3, <1>4
<1>6. artifacts'[i] = a /\ \A j \in Ids : j # i => artifacts'[j] = artifacts[j]
  BY <1>3, <1>4
<1>7. i \notin Live /\ Live' = Live \cup {i} /\ Live \subseteq Ids
  <2>1. i \notin Live
    BY <1>4, LiveRecords DEF Inv
  <2> QED BY <1>2, <1>6, <2>1 DEF Live
<1>8. \A j \in Live : artifacts'[j] = artifacts[j]
  BY <1>6, <1>7
<1>9. From(path)' = From(path) \cup {i} /\ \A p : p # path => From(p)' = From(p)
  BY <1>2, <1>6, <1>7, <1>8 DEF From
<1>10. \A p : From(p) \subseteq From(p)' /\ From(p) \subseteq Live
  BY <1>9 DEF From
<1>11. Grown
  <2>1. \A j \in Ids : artifacts[j] # Unborn => artifacts'[j] # Unborn
    BY <1>2, <1>6
  <2>2. \A j \in Ids : artifacts[j] # Unborn /\ j \in Live' => j \in Live
    BY <1>4, <1>7
  <2>3. ASSUME ~crossed, NEW f \in AllFiles
        PROVE  /\ \A j \in From(f.path) :
                    j \in From(f.path)' /\ artifacts'[j].name = artifacts[j].name
               /\ \A j \in From(f.path)' : j \in From(f.path) \/ artifacts'[j].name = f.name
    <3>1. \A j \in From(f.path) :
            j \in From(f.path)' /\ artifacts'[j].name = artifacts[j].name
      BY <1>8, <1>10
    <3>2. f.path = path => artifacts'[i].name = f.name
      BY <1>2, <1>6, <2>3
    <3> QED BY <1>9, <3>1, <3>2
  <2> QED BY <2>1, <2>2, <2>3 DEF Grown
<1>12. NamesUnique'
  <2>1. \A j \in Live : artifacts'[j].name # artifacts'[i].name
    BY <1>2, <1>4, <1>6, <1>8 DEF Named
  <2> QED BY <1>7, <1>8, <2>1 DEF Inv, World, NamesUnique
<1>13. ASSUME ~crossed PROVE OneEach' /\ LinksFit'
  <2>1. OneEach'
    <3> SUFFICES ASSUME NEW p \in Paths PROVE \A j, l \in From(p)' : j = l
      BY DEF OneEach
    <3>1. CASE p = path
      <4>1. PICK f \in AllFiles : p = f.path
        BY DEF Paths
      <4> QED BY <1>9, <1>13, <3>1, <4>1
    <3>2. CASE p # path
      BY <1>9, <1>13, <3>2 DEF Inv, World, OneEach
    <3> QED BY <3>1, <3>2
  <2>2. LinksFit'
    BY <1>10, <1>13 DEF Inv, World, LinksFit
  <2> QED BY <2>1, <2>2
<1>14. World'
  BY <1>12, <1>13 DEF World
<1> QED BY <1>2, <1>5, <1>6, <1>9, <1>11, <1>14

LEMMA InvAfterCreate ==
  ASSUME Inv, NEW k \in Importers, Create(k)
  PROVE  Inv'
PROOF
<1>1. PICK f : f = Current(k)
  OBVIOUS
<1>2. /\ AtFile(k) /\ ~IsKnown(k) /\ links' = links /\ events' = events
      /\ \/ Named(f.name) # {} /\ Fail(k) /\ UNCHANGED artifacts
         \/ \E i \in Ids : Insert(i, f.name, f.path) /\ Advance(k, i)
  BY <1>1 DEF Create
<1>3. f \in AllFiles /\ f.path \in Paths /\ f.name \in Names /\ AtFilesOK(import[k])
  BY <1>1, <1>2, ThisFile
<1>4. events' \in 0 .. MaxEvents /\ links' \subseteq Ids \X Ids
  BY <1>2 DEF Inv, Shapes
<1>5. CASE Named(f.name) # {} /\ Fail(k) /\ UNCHANGED artifacts
  BY <1>2, <1>4, <1>5, FailStep
<1>6. ASSUME NEW i \in Ids, Insert(i, f.name, f.path), Advance(k, i) PROVE Inv'
  <2>1. Named(f.name) = {}
    BY <1>6 DEF Insert
  <2>2. ~crossed => From(f.path) = {}
    BY <1>1, <1>2, <1>3, <2>1 DEF AtFilesOK, IndexFits, IsKnown, Named, From
  <2>3. \A g \in AllFiles : g.path = f.path => g.name = f.name
    BY <1>3, PathAssumption
  <2>4. UNCHANGED <<links, crossed>>
    BY <1>2, <1>6 DEF Advance
  <2>5. /\ Grown /\ World'
        /\ artifacts' \in [Ids -> {Unborn, Deleted} \cup ArtifactRecords]
        /\ artifacts'[i] # Unborn /\ i \in From(f.path)'
    BY <1>3, <1>6, <2>2, <2>3, <2>4, Inserted
  <2> QED BY <1>1, <1>2, <1>4, <1>6, <2>5, AdvanceStep
<1> QED BY <1>2, <1>5, <1>6

LEMMA InvAfterBeginLinks ==
  ASSUME Inv, NEW k \in Importers, BeginLinks(k)
  PROVE  Inv'
PROOF
<1>1. PICK r : r = import[k]
  OBVIOUS
<1>2. PICK plan : plan = LinkPlan(r.only, r.stored)
  OBVIOUS
<1>3. PICK q : q = [at |-> "links", only |-> r.only, stored |-> r.stored,
                    failed |-> r.failed, plan |-> plan]
  OBVIOUS
<1>4. /\ r.at = "files" /\ ~ (r.next <= Len(FilesOf[r.only]))
      /\ import' = [import EXCEPT ![k] = q]
      /\ UNCHANGED <<artifacts, links, imports, events, crossed>>
  BY <1>1, <1>2, <1>3 DEF BeginLinks, AtFile, Inv, Shapes
<1>5. r \in FilesRecords /\ AtFilesOK(r)
  BY <1>1, <1>4, RecordOfFiles DEF Inv, RecordOK
<1>6. /\ plan \in Seq(AllFiles \X AllFiles)
      /\ \A pair \in ToSet(plan) : DependsOn(pair[1], pair[2])
      /\ \A f, g \in ToSet(FilesOf[r.only]) :
           DependsOn(f, g) /\ r.stored[f.path] # 0 /\ r.stored[g.path] # 0
             => <<f, g>> \in ToSet(plan)
  BY <1>2, <1>5, RecordTypes, PlanOfAll
<1>7. /\ q.at = "links" /\ q.only = r.only /\ q.stored = r.stored /\ q.failed = r.failed
      /\ q.plan = plan
  BY <1>3
<1>8. q \in LinksRecords
  BY <1>3, <1>5, <1>6, RecordTypes DEF LinksRecords
<1>9. AtLinksOK(q)
  <2>1. PlanLeft(q)
    BY <1>6, <1>7, LiveRecords DEF PlanLeft, Inv
  <2>2. ASSUME ~crossed, NEW f \in ToSet(FilesOf[q.only]) PROVE Handled(q, f)
    <3>1. /\ r.only \in Scopes /\ r.next \in Nat
          /\ Len(FilesOf[r.only]) \in Nat
      BY <1>5, RecordTypes, PairsOfFiles
    <3>2. PICK j \in 1 .. Len(FilesOf[r.only]) : f = FilesOf[r.only][j]
      BY <1>7, <2>2, <3>1, PairsOfFiles
    <3>3. j < r.next
      BY <1>4, <3>1
    <3> QED BY <1>5, <1>7, <2>2, <3>2, <3>3 DEF AtFilesOK, Handled
  <2> QED BY <1>5, <1>6, <1>7, <2>1, <2>2 DEF AtLinksOK, AtFilesOK, StoredFits
<1>10. Grown /\ RecordOK(q)'
  <2>1. RecordOK(q)
    BY <1>7, <1>9 DEF RecordOK
  <2>2. Grown
    BY <1>4, TablesKept
  <2> QED BY <1>8, <2>1, <2>2, RecordKept
<1>11. imports' \in 0 .. MaxImports /\ events' \in 0 .. MaxEvents
  BY <1>4 DEF Inv, Shapes
<1> QED BY <1>4, <1>8, <1>10, <1>11, TablesKept, StepOfImport

LEMMA InvAfterLink ==
  ASSUME Inv, NEW k \in Importers, Link(k)
  PROVE  Inv'
PROOF
<1>1. PICK r : r = import[k]
  OBVIOUS
<1>2. PICK pair : pair = Head(r.plan)
  OBVIOUS
<1>3. PICK a, b : a = r.stored[pair[1].path] /\ b = r.stored[pair[2].path]
  OBVIOUS
<1>4. PICK q : q = [r EXCEPT !.plan = Tail(@)]
  OBVIOUS
<1>5. /\ r.at = "links" /\ r.plan # << >> /\ ToSet(<<a, b>>) \subseteq Live
      /\ links' = links \cup {<<a, b>>}
      /\ import' = [import EXCEPT ![k] = q]
      /\ UNCHANGED <<artifacts, imports, events, crossed>>
  BY <1>1, <1>2, <1>3, <1>4 DEF Link, AtLink, NextLink, Inv, Shapes
<1>6. r \in LinksRecords /\ AtLinksOK(r)
  BY <1>1, <1>5, RecordOfFiles DEF Inv, RecordOK
<1>7. a \in Live /\ b \in Live
  BY <1>5, SetOfPair
<1>8. /\ pair \in ToSet(r.plan) /\ Tail(r.plan) \in Seq(AllFiles \X AllFiles)
      /\ \A x \in ToSet(r.plan) : x = pair \/ x \in ToSet(Tail(r.plan))
      /\ ToSet(Tail(r.plan)) \subseteq ToSet(r.plan)
  <2> DEFINE s == r.plan
             T == AllFiles \X AllFiles
  <2>1. s \in Seq(T) /\ s # << >>
    BY <1>5, <1>6, RecordTypes
  <2> HIDE DEF s, T
  <2>2. /\ Tail(s) \in Seq(T) /\ Head(s) = s[1] /\ Len(s) \in Nat /\ Len(s) # 0
        /\ Len(Tail(s)) = Len(s) - 1
        /\ \A i \in 1 .. Len(s) - 1 : Tail(s)[i] = s[i + 1]
    BY <2>1, HeadTailProperties, LenProperties, EmptySeq
  <2>3. /\ ToSet(s) = {s[i] : i \in 1 .. Len(s)}
        /\ ToSet(Tail(s)) = {Tail(s)[i] : i \in 1 .. Len(s) - 1}
    BY <2>1, <2>2, Elements
  <2>4. pair = s[1] /\ 1 \in 1 .. Len(s)
    BY <1>2, <2>2 DEF s
  <2>5. ASSUME NEW x \in ToSet(s), x # pair PROVE x \in ToSet(Tail(s))
    <3>1. PICK i \in 1 .. Len(s) : x = s[i]
      BY <2>3
    <3>2. i - 1 \in 1 .. Len(s) - 1 /\ (i - 1) + 1 = i
      BY <2>2, <2>4, <2>5, <3>1
    <3>3. Tail(s)[i - 1] = x
      BY <2>2, <3>1, <3>2
    <3> QED BY <2>3, <3>2, <3>3
  <2>6. ASSUME NEW x \in ToSet(Tail(s)) PROVE x \in ToSet(s)
    <3>1. PICK i \in 1 .. Len(s) - 1 : x = Tail(s)[i]
      BY <2>3
    <3>2. i + 1 \in 1 .. Len(s) /\ x = s[i + 1]
      BY <2>2, <3>1
    <3> QED BY <2>3, <3>2
  <2> QED BY <2>2, <2>3, <2>4, <2>5, <2>6 DEF s, T
<1>9. PICK f \in AllFiles, g \in AllFiles : pair = <<f, g>>
  BY <1>6, <1>8, RecordTypes, Elements
<1>10. /\ a = r.stored[f.path] /\ b = r.stored[g.path] /\ DependsOn(f, g)
       /\ f.path \in Paths /\ g.path \in Paths
  BY <1>3, <1>6, <1>8, <1>9, PathsOfFiles DEF AtLinksOK
<1>11. Live' = Live /\ \A p : From(p)' = From(p)
  BY <1>5 DEF Live, From
<1>12. Grown
  BY <1>5, <1>11 DEF Grown
<1>13. World'
  <2>1. NamesUnique' /\ (~crossed => OneEach')
    BY <1>5, <1>11 DEF Inv, World, NamesUnique, OneEach
  <2>2. ASSUME ~crossed PROVE LinksFit'
    <3>1. 0 \notin Live
      BY LiveRecords DEF Inv
    <3>2. a \in From(f.path) /\ b \in From(g.path)
      BY <1>6, <1>7, <1>10, <2>2, <3>1 DEF AtLinksOK, StoredFits
    <3>3. <<a, b>>[1] = a /\ <<a, b>>[2] = b
      OBVIOUS
    <3>4. \A l \in links' : l \in links \/ l = <<a, b>>
      BY <1>5
    <3>5. \A l \in links : \E c, d \in AllFiles :
            DependsOn(c, d) /\ l[1] \in From(c.path) /\ l[2] \in From(d.path)
      BY <2>2 DEF Inv, World, LinksFit
    <3>6. \A l \in links' : \E c, d \in AllFiles :
            DependsOn(c, d) /\ l[1] \in From(c.path) /\ l[2] \in From(d.path)
      BY <1>10, <3>2, <3>3, <3>4, <3>5
    <3> QED BY <1>11, <3>6 DEF LinksFit
  <2> QED BY <1>5, <2>1, <2>2 DEF World
<1>14. /\ q.at = "links" /\ q.only = r.only /\ q.stored = r.stored /\ q.failed = r.failed
       /\ q.plan = Tail(r.plan) /\ q \in LinksRecords
  BY <1>4, <1>6, <1>8 DEF LinksRecords
<1>15. RecordOK(q)'
  <2>1. RecordOK(r)'
    BY <1>1, <1>6, <1>12, RecordKept DEF Inv
  <2>2. AtLinksOK(r)'
    BY <1>5, <2>1 DEF RecordOK
  <2>3. PlanLeft(q)'
    <3> SUFFICES ASSUME NEW c \in ToSet(FilesOf[r.only]), NEW d \in ToSet(FilesOf[r.only]),
                        DependsOn(c, d), r.stored[c.path] \in Live', r.stored[d.path] \in Live',
                        <<r.stored[c.path], r.stored[d.path]>> \notin links'
                 PROVE  <<c, d>> \in ToSet(Tail(r.plan))
      BY <1>14 DEF PlanLeft
    <3>1. <<c, d>> \in ToSet(r.plan)
      BY <2>2 DEF AtLinksOK, PlanLeft
    <3>2. <<c, d>> # pair
      BY <1>5, <1>9, <1>10
    <3> QED BY <1>8, <3>1, <3>2
  <2>4. AtLinksOK(q)'
    BY <1>8, <1>14, <2>2, <2>3 DEF AtLinksOK, IdsBorn, StoredFits, Handled
  <2> QED BY <1>14, <2>4 DEF RecordOK
<1>16. /\ links' \subseteq Ids \X Ids
       /\ artifacts' \in [Ids -> {Unborn, Deleted} \cup ArtifactRecords]
       /\ imports' \in 0 .. MaxImports /\ events' \in 0 .. MaxEvents /\ crossed' = crossed
  BY <1>5, <1>7, LiveRecords DEF Inv, Shapes
<1> QED BY <1>5, <1>12, <1>13, <1>14, <1>15, <1>16, StepOfImport

LEMMA InvAfterEnd ==
  ASSUME Inv, NEW k \in Importers, End(k)
  PROVE  Inv'
PROOF
<1>1. /\ import' = [import EXCEPT ![k] = Idle]
      /\ UNCHANGED <<artifacts, links, imports, events, crossed>>
  BY DEF End
<1>2. PICK q : q = Idle
  OBVIOUS
<1>3. RecordOK(q)'
  BY <1>2 DEF Idle, RecordOK
<1>4. imports' \in 0 .. MaxImports /\ events' \in 0 .. MaxEvents
  BY <1>1 DEF Inv, Shapes
<1> QED BY <1>1, <1>2, <1>3, <1>4, TablesKept, StepOfImport

(***************************************************************************)
(* The steps of people                                                     *)
(***************************************************************************)
LEMMA EditStep ==
  ASSUME Inv, Edit, World',
         \A k \in Importers : RecordOK(import[k]) => RecordOK(import[k])',
         artifacts' \in [Ids -> {Unborn, Deleted} \cup ArtifactRecords],
         links' \subseteq Ids \X Ids, crossed' \in BOOLEAN
  PROVE  Inv'
PROOF
<1>1. import' = import /\ imports' = imports /\ events' \in 0 .. MaxEvents
  BY BoundsType DEF Edit, Event, Inv, Shapes
<1>2. Shapes'
  BY <1>1 DEF Inv, Shapes, FilesRecords, LinksRecords, ArtifactRecords
<1> QED BY <1>2 DEF Inv

\* The imports go on, unless a name is given up that none of them has seen.
LEMMA ImportsGoOn ==
  ASSUME Inv, import' = import, Running # {} => Grown
  PROVE  \A k \in Importers : RecordOK(import[k]) => RecordOK(import[k])'
PROOF
<1> SUFFICES ASSUME NEW k \in Importers, RecordOK(import[k]) PROVE RecordOK(import[k])'
  OBVIOUS
<1>1. PICK r \in {Idle} \cup FilesRecords \cup LinksRecords : r = import[k]
  BY DEF Inv, Shapes
<1>2. r = import'[k]
  BY <1>1
<1>3. RecordOK(r)'
  <2>1. CASE r = Idle
    BY <2>1 DEF Idle, RecordOK
  <2>2. CASE r # Idle
    <3>1. Grown
      BY <1>1, <2>2 DEF Running
    <3> QED BY <1>1, <3>1, RecordKept
  <2> QED BY <2>1, <2>2
<1> QED BY <1>2, <1>3

LEMMA InvAfterUserCreate ==
  ASSUME Inv, NEW name \in UserNames, UserCreate(name)
  PROVE  Inv'
PROOF
<1>1. Edit /\ UNCHANGED <<links, crossed>> /\ import' = import
  BY DEF UserCreate, Edit
<1>2. PICK i \in Ids : Insert(i, name, NoFile)
  BY DEF UserCreate
<1>3. \A f \in AllFiles : f.path # NoFile
  BY PathsOfFiles, PathAssumption
<1>4. name \in Names
  BY DEF Names
<1>5. /\ Grown /\ World'
      /\ artifacts' \in [Ids -> {Unborn, Deleted} \cup ArtifactRecords]
  BY <1>1, <1>2, <1>3, <1>4, Inserted
<1>6. links' \subseteq Ids \X Ids /\ crossed' \in BOOLEAN
  BY <1>1 DEF Inv, Shapes
<1> QED BY <1>1, <1>5, <1>6, ImportsGoOn, EditStep

LEMMA InvAfterUserRename ==
  ASSUME Inv, NEW i \in Ids, NEW name \in UserNames, UserRename(i, name)
  PROVE  Inv'
PROOF
<1>1. /\ Edit /\ import' = import /\ links' = links
      /\ i \in Live /\ Named(name) = {}
      /\ artifacts' = [artifacts EXCEPT ![i].name = name]
      /\ crossed' = (crossed \/ Running # {})
  BY DEF UserRename, Edit, GiveUpName
<1>2. artifacts[i] \in ArtifactRecords /\ name \in Names
  BY <1>1, LiveRecords DEF Inv, Names
<1>3. PICK a : a = [artifacts[i] EXCEPT !.name = name]
  OBVIOUS
<1>4. /\ a \in ArtifactRecords /\ a.state = "live" /\ a.name = name /\ a # Unborn
      /\ a.path = artifacts[i].path
  BY <1>2, <1>3 DEF ArtifactRecords, Unborn
<1>5. /\ artifacts \in [Ids -> {Unborn, Deleted} \cup ArtifactRecords]
      /\ crossed \in BOOLEAN
  BY DEF Inv, Shapes
<1>6. artifacts' = [artifacts EXCEPT ![i] = a]
  BY <1>1, <1>3
<1>7. artifacts' \in [Ids -> {Unborn, Deleted} \cup ArtifactRecords]
  BY <1>4, <1>5, <1>6
<1>8. artifacts'[i] = a /\ \A j \in Ids : j # i => artifacts'[j] = artifacts[j]
  BY <1>5, <1>6
<1>9. Live' = Live /\ Live \subseteq Ids
  BY <1>1, <1>4, <1>8 DEF Live
<1>10. \A p : From(p)' = From(p)
  BY <1>4, <1>8, <1>9 DEF From
<1>11. NamesUnique'
  <2>1. \A j \in Live : j # i => artifacts'[j].name # name /\ artifacts'[j] = artifacts[j]
    BY <1>1, <1>8, <1>9 DEF Named
  <2>2. artifacts'[i].name = name
    BY <1>4, <1>8
  <2> QED BY <1>9, <2>1, <2>2 DEF Inv, World, NamesUnique
<1>12. World'
  BY <1>1, <1>10, <1>11 DEF Inv, World, OneEach, LinksFit
<1>13. ASSUME Running # {} PROVE Grown
  BY <1>1, <1>4, <1>8, <1>9, <1>13, LiveRecords DEF Grown, Inv
<1>14. links' \subseteq Ids \X Ids /\ crossed' \in BOOLEAN
  BY <1>1, <1>5 DEF Inv, Shapes
<1> QED BY <1>1, <1>7, <1>12, <1>13, <1>14, ImportsGoOn, EditStep

LEMMA InvAfterUserDelete ==
  ASSUME Inv, NEW i \in Ids, UserDelete(i)
  PROVE  Inv'
PROOF
<1>1. /\ Edit /\ import' = import /\ i \in Live
      /\ links' = {l \in links : i \notin ToSet(l)}
      /\ artifacts' = [artifacts EXCEPT ![i] = Deleted]
      /\ crossed' = (crossed \/ Running # {})
  BY DEF UserDelete, Edit, GiveUpName
<1>2. /\ artifacts \in [Ids -> {Unborn, Deleted} \cup ArtifactRecords]
      /\ crossed \in BOOLEAN
  BY DEF Inv, Shapes
<1>3. artifacts' \in [Ids -> {Unborn, Deleted} \cup ArtifactRecords]
  BY <1>1, <1>2
<1>4. artifacts'[i] = Deleted /\ \A j \in Ids : j # i => artifacts'[j] = artifacts[j]
  BY <1>1, <1>2
<1>5. Deleted.state = "deleted" /\ Deleted # Unborn
  BY DEF Deleted, Unborn
<1>6. Live' = Live \ {i} /\ Live \subseteq Ids
  BY <1>1, <1>4, <1>5 DEF Live
<1>7. \A p : From(p)' = From(p) \ {i}
  BY <1>4, <1>6 DEF From
<1>8. \A l \in links' : l \in links /\ l[1] # i /\ l[2] # i
  <2> SUFFICES ASSUME NEW l \in links' PROVE l \in links /\ l[1] # i /\ l[2] # i
    OBVIOUS
  <2>1. l \in links /\ i \notin ToSet(l)
    BY <1>1
  <2>2. PICK a \in Ids, b \in Ids : l = <<a, b>>
    BY <2>1 DEF Inv, Shapes
  <2>3. i # a /\ i # b
    BY <2>1, <2>2, SetOfPair
  <2> QED BY <2>1, <2>2, <2>3
<1>9. World'
  <2>1. NamesUnique'
    BY <1>4, <1>6 DEF Inv, World, NamesUnique
  <2>2. ASSUME ~crossed PROVE OneEach' /\ LinksFit'
    <3>1. OneEach'
      BY <1>7, <2>2 DEF Inv, World, OneEach
    <3>2. LinksFit'
      BY <1>7, <1>8, <2>2 DEF Inv, World, LinksFit
    <3> QED BY <3>1, <3>2
  <2> QED BY <1>1, <2>1, <2>2 DEF World
<1>10. ASSUME Running # {} PROVE Grown
  <2>1. \A j \in Ids : artifacts[j] # Unborn => artifacts'[j] # Unborn
    BY <1>4, <1>5
  <2>2. ASSUME NEW j \in Live', NEW l \in Live', <<j, l>> \in links
        PROVE  <<j, l>> \in links'
    BY <1>1, <1>6, <2>2, SetOfPair
  <2> QED BY <1>1, <1>6, <1>10, <2>1, <2>2 DEF Grown
<1>11. links' \subseteq Ids \X Ids /\ crossed' \in BOOLEAN
  BY <1>1, <1>2 DEF Inv, Shapes
<1> QED BY <1>1, <1>3, <1>9, <1>10, <1>11, ImportsGoOn, EditStep

(***************************************************************************)
(* The specification                                                       *)
(***************************************************************************)
LEMMA InvInitially == Init => Inv
PROOF
<1> SUFFICES ASSUME Init PROVE Inv
  OBVIOUS
<1>1. /\ artifacts = [i \in Ids |-> Unborn] /\ links = {}
      /\ import = [k \in Importers |-> Idle]
      /\ imports = 0 /\ events = 0 /\ crossed = FALSE
  BY DEF Init
<1>2. Unborn.state # "live"
  BY DEF Unborn
<1>3. Live = {} /\ \A p : From(p) = {}
  BY <1>1, <1>2 DEF Live, From
<1>4. Shapes
  <2>1. imports \in 0 .. MaxImports /\ events \in 0 .. MaxEvents
    BY <1>1, BoundsType
  <2>2. artifacts \in [Ids -> {Unborn, Deleted} \cup ArtifactRecords]
    BY <1>1
  <2>3. import \in [Importers -> {Idle} \cup FilesRecords \cup LinksRecords]
    BY <1>1
  <2> QED BY <1>1, <2>1, <2>2, <2>3 DEF Shapes
<1>5. World
  BY <1>1, <1>3 DEF World, NamesUnique, OneEach, LinksFit
<1>6. \A k \in Importers : RecordOK(import[k])
  BY <1>1 DEF Idle, RecordOK
<1> QED BY <1>4, <1>5, <1>6 DEF Inv

LEMMA InvUnchanged == Inv /\ UNCHANGED vars => Inv'
PROOF
<1> SUFFICES ASSUME Inv, UNCHANGED vars PROVE Inv'
  OBVIOUS
<1>1. UNCHANGED <<artifacts, links, import, imports, events, crossed>>
  BY DEF vars
<1>2. Grown /\ World'
  BY <1>1, TablesKept
<1>3. \A k \in Importers : RecordOK(import[k])'
  BY <1>1, <1>2, ImportsGoOn DEF Inv
<1>4. Shapes'
  BY <1>1 DEF Inv, Shapes, FilesRecords, LinksRecords, ArtifactRecords
<1> QED BY <1>2, <1>3, <1>4 DEF Inv

LEMMA InvStep == Inv /\ [Next]_vars => Inv'
PROOF
<1> SUFFICES ASSUME Inv, Next PROVE Inv'
  BY InvUnchanged
<1>1. ASSUME NEW k \in Importers, NEW only \in Scopes, NEW force \in BOOLEAN,
             Begin(k, only, force)
      PROVE  Inv'
  BY <1>1, InvAfterBegin
<1>2. ASSUME NEW k \in Importers, Skip(k) PROVE Inv'
  BY <1>2, InvAfterSkip
<1>3. ASSUME NEW k \in Importers, Rewrite(k) PROVE Inv'
  BY <1>3, InvAfterRewrite
<1>4. ASSUME NEW k \in Importers, Create(k) PROVE Inv'
  BY <1>4, InvAfterCreate
<1>5. ASSUME NEW k \in Importers, FailFile(k) PROVE Inv'
  BY <1>5, InvAfterFailFile
<1>6. ASSUME NEW k \in Importers, BeginLinks(k) PROVE Inv'
  BY <1>6, InvAfterBeginLinks
<1>7. ASSUME NEW k \in Importers, Link(k) PROVE Inv'
  BY <1>7, InvAfterLink
<1>8. ASSUME NEW k \in Importers, End(k) PROVE Inv'
  BY <1>8, InvAfterEnd
<1>9. ASSUME NEW name \in UserNames, UserCreate(name) PROVE Inv'
  BY <1>9, InvAfterUserCreate
<1>10. ASSUME NEW i \in Ids, UserDelete(i) PROVE Inv'
  BY <1>10, InvAfterUserDelete
<1>11. ASSUME NEW i \in Ids, NEW name \in UserNames, UserRename(i, name) PROVE Inv'
  BY <1>11, InvAfterUserRename
<1> QED BY <1>1, <1>2, <1>3, <1>4, <1>5, <1>6, <1>7, <1>8, <1>9, <1>10, <1>11 DEF Next

LEMMA InvAlways == Spec => []Inv
PROOF
<1>1. Init => Inv
  BY InvInitially
<1>2. Inv /\ [Next]_vars => Inv'
  BY InvStep
<1> QED BY <1>1, <1>2, PTL DEF Spec

(***************************************************************************)
(* The theorems                                                            *)
(***************************************************************************)

(* The tables and the local variables of each import have their types: the *)
(* import goes through its files and no further, what it has in hand are   *)
(* ids of the table, and what it plans to link are files.                  *)
THEOREM TypeCorrect == Spec => []TypeOK
PROOF
<1>1. Inv => TypeOK
  <2> SUFFICES ASSUME Inv PROVE TypeOK
    OBVIOUS
  <2>1. artifacts \in [Ids -> {Unborn, Deleted}
                          \cup [state : {"live"}, name : Names, path : Paths \cup {NoFile}]]
    BY DEF Inv, Shapes, ArtifactRecords
  <2>2. ASSUME NEW k \in Running
        PROVE  /\ import[k].at \in {"files", "links"} /\ import[k].only \in Scopes
               /\ import[k].stored \in [Paths -> Ids \cup {0}] /\ import[k].failed \subseteq Paths
               /\ import[k].at = "files" =>
                    /\ import[k].index \in [Paths -> Ids \cup {0}]
                    /\ import[k].name \in [Paths -> Names \cup {<< >>}]
                    /\ import[k].next \in 1 .. Len(FilesOf[import[k].only]) + 1
               /\ import[k].at = "links" => ToSet(import[k].plan) \subseteq AllFiles \X AllFiles
    <3>1. k \in Importers /\ import[k] \in FilesRecords \cup LinksRecords
      BY DEF Running, Inv, Shapes
    <3>2. CASE import[k] \in FilesRecords
      <4>1. AtFilesOK(import[k])
        BY <3>1, <3>2, RecordTypes DEF Inv, RecordOK
      <4> QED BY <3>2, <4>1, RecordTypes DEF AtFilesOK
    <3>3. CASE import[k] \in LinksRecords
      <4> DEFINE T == AllFiles \X AllFiles
      <4>1. import[k].plan \in Seq(T)
        BY <3>3, RecordTypes
      <4>2. ToSet(import[k].plan) \subseteq T
        <5> HIDE DEF T
        <5> QED BY <4>1, Elements
      <4> QED BY <3>3, <4>2, RecordTypes
    <3> QED BY <3>1, <3>2, <3>3
  <2> QED BY <2>1, <2>2 DEF TypeOK, Inv, Shapes
<1> QED BY <1>1, InvAlways, PTL

(* An import that is through has linked what it has in hand as the         *)
(* documents depend on each other, whatever was done beside it; and while  *)
(* no name is given up during an import, each file it does not report has  *)
(* one artifact, and the links are those of the documents and no others.   *)
THEOREM ImportComplete == Spec => []ImportIsComplete
PROOF
<1>1. Inv => ImportIsComplete
  <2> SUFFICES ASSUME Inv, NEW k \in Importers, IsComplete(k)
               PROVE  LET files == ToSet(FilesOf[import[k].only])
                          stored == import[k].stored
                          done == {f \in files : f.path \notin import[k].failed}
                      IN /\ \A f, g \in files :
                              DependsOn(f, g) /\ {stored[f.path], stored[g.path]} \subseteq Live
                                => <<stored[f.path], stored[g.path]>> \in links
                         /\ ~crossed =>
                              /\ \A f \in done : Cardinality(From(f.path)) = 1
                              /\ \A f, g \in done :
                                   DependsOn(f, g) => From(f.path) \X From(g.path) \subseteq links
                              /\ \A l \in links : \E f, g \in AllFiles :
                                   DependsOn(f, g) /\ l \in From(f.path) \X From(g.path)
    BY Zenon DEF ImportIsComplete
  <2> DEFINE files == ToSet(FilesOf[import[k].only])
             stored == import[k].stored
             done == {f \in files : f.path \notin import[k].failed}
  <2>1. /\ import[k] \in LinksRecords /\ AtLinksOK(import[k]) /\ import[k].only \in Scopes
        /\ import[k].plan = << >>
    BY RecordOfFiles, RecordTypes DEF IsComplete, Inv, RecordOK
  <2>2. ToSet(import[k].plan) = {}
    BY <2>1, NoElements
  <2>3. \A f, g \in files :
          DependsOn(f, g) /\ stored[f.path] \in Live /\ stored[g.path] \in Live
            => <<stored[f.path], stored[g.path]>> \in links
    BY <2>1, <2>2 DEF AtLinksOK, PlanLeft
  <2>4. \A f \in files : f \in AllFiles /\ f.path \in Paths
    BY <2>1, PairsOfFiles, PathsOfFiles
  <2>5. ASSUME ~crossed, NEW f \in done PROVE From(f.path) = {stored[f.path]}
    <3>1. stored[f.path] # 0
      BY <2>1, <2>5 DEF AtLinksOK, Handled
    <3>2. stored[f.path] \in From(f.path)
      BY <2>1, <2>4, <2>5, <3>1 DEF AtLinksOK, StoredFits
    <3>3. \A i, j \in From(f.path) : i = j
      BY <2>4, <2>5 DEF Inv, World, OneEach
    <3> QED BY <3>2, <3>3
  <2> HIDE DEF files, stored
  <2>6. ASSUME ~crossed, NEW f \in done PROVE Cardinality(From(f.path)) = 1
    BY <2>5, <2>6, FS_Singleton
  <2>7. ASSUME ~crossed, NEW f \in done, NEW g \in done, DependsOn(f, g)
        PROVE  From(f.path) \X From(g.path) \subseteq links
    <3>1. From(f.path) = {stored[f.path]} /\ From(g.path) = {stored[g.path]}
      BY <2>5, <2>7
    <3>2. stored[f.path] \in Live /\ stored[g.path] \in Live
      BY <3>1 DEF From
    <3>3. <<stored[f.path], stored[g.path]>> \in links
      BY <2>3, <2>7, <3>2
    <3> QED BY <3>1, <3>3
  <2>8. ASSUME ~crossed, NEW l \in links
        PROVE  \E f, g \in AllFiles : DependsOn(f, g) /\ l \in From(f.path) \X From(g.path)
    <3>1. PICK a \in Ids, b \in Ids : l = <<a, b>>
      BY DEF Inv, Shapes
    <3>2. PICK f \in AllFiles, g \in AllFiles :
            DependsOn(f, g) /\ l[1] \in From(f.path) /\ l[2] \in From(g.path)
      BY <2>8 DEF Inv, World, LinksFit
    <3>3. l \in From(f.path) \X From(g.path)
      BY <3>1, <3>2
    <3> QED BY <3>2, <3>3
  <2> QED BY <2>3, <2>6, <2>7, <2>8 DEF files, stored
<1> QED BY <1>1, InvAlways, PTL

(* An import writes a file only over the artifact of this file, unless a   *)
(* name has been given up during an import.                                *)
THEOREM TakesNothingOver == Spec => NothingTakenOver
PROOF
<1>1. Inv /\ [Next]_vars =>
        [\A i \in Live \cap Live' : artifacts'[i].path # artifacts[i].path => crossed]_vars
  <2> SUFFICES ASSUME Inv, Next, ~crossed, NEW i \in Live, i \in Live'
               PROVE  artifacts'[i].path = artifacts[i].path
    OBVIOUS
  <2>1. i \in Ids /\ artifacts[i] \in ArtifactRecords /\ artifacts[i] # Unborn
    BY LiveRecords DEF Inv
  <2>2. artifacts \in [Ids -> {Unborn, Deleted} \cup ArtifactRecords]
    BY DEF Inv, Shapes
  <2>3. CASE artifacts' = artifacts
    BY <2>3
  <2>4. ASSUME NEW j, NEW name, NEW path, Insert(j, name, path)
        PROVE  artifacts'[i].path = artifacts[i].path
    <3>1. j # i /\ artifacts' = [artifacts EXCEPT ![j] = Artifact(name, path)]
      BY <2>1, <2>4 DEF Insert
    <3> QED BY <2>1, <2>2, <3>1
  <2>5. ASSUME NEW k \in Importers, Rewrite(k)
        PROVE  artifacts'[i].path = artifacts[i].path
    <3>1. PICK p : p = Current(k).path
      OBVIOUS
    <3>2. PICK j : j = import[k].index[p]
      OBVIOUS
    <3>3. Named(import[k].name[p]) = {j} /\ j \in From(p)
      BY <2>5, <3>1, <3>2, RewriteFindsItsOwn DEF Rewrite
    <3>4. artifacts' = artifacts \/ artifacts' = [artifacts EXCEPT ![j].path = p]
      BY <2>5, <3>1, <3>3 DEF Rewrite
    <3>5. artifacts[j].path = p /\ j \in Live
      BY <3>3 DEF From
    <3>6. CASE artifacts' = [artifacts EXCEPT ![j].path = p]
      <4>1. CASE i = j
        <5>1. artifacts'[i] = [artifacts[i] EXCEPT !.path = p]
          BY <2>1, <2>2, <3>6, <4>1
        <5> QED BY <2>1, <3>5, <4>1, <5>1 DEF ArtifactRecords
      <4>2. CASE i # j
        BY <2>1, <2>2, <3>6, <4>2
      <4> QED BY <4>1, <4>2
    <3> QED BY <3>4, <3>6
  <2>6. ASSUME NEW k \in Importers, Create(k)
        PROVE  artifacts'[i].path = artifacts[i].path
    BY <2>3, <2>4, <2>6 DEF Create
  <2>7. ASSUME NEW name \in UserNames, UserCreate(name)
        PROVE  artifacts'[i].path = artifacts[i].path
    BY <2>4, <2>7 DEF UserCreate
  <2>8. ASSUME NEW j \in Ids, UserDelete(j)
        PROVE  artifacts'[i].path = artifacts[i].path
    <3>1. artifacts' = [artifacts EXCEPT ![j] = Deleted]
      BY <2>8 DEF UserDelete
    <3>2. i # j
      BY <2>1, <2>2, <3>1 DEF Live, Deleted
    <3> QED BY <2>1, <2>2, <3>1, <3>2
  <2>9. ASSUME NEW j \in Ids, NEW name \in UserNames, UserRename(j, name)
        PROVE  artifacts'[i].path = artifacts[i].path
    <3>1. artifacts' = [artifacts EXCEPT ![j].name = name]
      BY <2>9 DEF UserRename
    <3>2. CASE i = j
      <4>1. artifacts'[i] = [artifacts[i] EXCEPT !.name = name]
        BY <2>1, <2>2, <3>1, <3>2
      <4> QED BY <2>1, <4>1 DEF ArtifactRecords
    <3>3. CASE i # j
      BY <2>1, <2>2, <3>1, <3>3
    <3> QED BY <3>2, <3>3
  <2>10. ASSUME NEW k \in Importers,
                \/ \E only \in Scopes, force \in BOOLEAN : Begin(k, only, force)
                \/ Skip(k) \/ FailFile(k) \/ BeginLinks(k) \/ Link(k) \/ End(k)
         PROVE  artifacts' = artifacts
    BY <2>10 DEF Begin, Skip, FailFile, BeginLinks, Link, End
  <2> QED BY <2>3, <2>5, <2>6, <2>7, <2>8, <2>9, <2>10 DEF Next
<1> QED BY <1>1, InvAlways, PTL DEF Spec, NothingTakenOver
=============================================================================
