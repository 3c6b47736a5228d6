--------------------------- MODULE WallpaperProofs ---------------------------
(***************************************************************************)
(* Proofs about Wallpaper, for any images, inks and number of changes: the *)
(* veil comes with the image, and stays while it is analyzed again; and    *)
(* about WallpaperContrast, for any number of steps and halvings: the veil *)
(* is enough, and the least.                                               *)
(***************************************************************************)
EXTENDS MCWallpaper, FiniteSetTheorems, WellFoundedInduction, TLAPS

USE StepAssumption

-----------------------------------------------------------------------------
(***************************************************************************)
(* How strong the veil is.  Induction over the naturals is by their least  *)
(* elements: the library states that of one relation, and the provers can  *)
(* use it, while its theorems about any predicate are beyond them.         *)
(***************************************************************************)
\* The order of the naturals.
Before == {p \in Nat \X Nat : p[1] < p[2]}

\* A set of naturals has a least element.
LEMMA LeastNat ==
  ASSUME NEW S, S \subseteq Nat, S # {}
  PROVE  \E n \in S : \A m \in S : n <= m
<1>1. IsWellFoundedOn(Before, Nat)
  <2>1. Before = OpToRel(<, Nat)
    BY DEF Before, OpToRel
  <2> QED BY <2>1, NatLessThanWellFounded
<1>2. PICK n \in S : \A m \in S : ~ (<<m, n>> \in Before)
  <2> HIDE DEF Before
  <2> QED BY <1>1, WFMin
<1>3. \A m \in S : n <= m
  <2> TAKE m \in S
  <2>1. n \in Nat /\ m \in Nat /\ <<m, n>> \notin Before
    BY <1>2
  <2>2. <<m, n>> \in Nat \X Nat /\ <<m, n>>[1] = m /\ <<m, n>>[2] = n
    BY <2>1
  <2>3. ~ (m < n)
    BY <2>1, <2>2 DEF Before
  <2> QED BY <2>1, <2>3
<1> QED BY <1>3

-----------------------------------------------------------------------------
(***************************************************************************)
(* The bisection of requiredScrim.                                         *)
(***************************************************************************)
\* A set of n + 1 elements has twice as many subsets as one of n, which is what the
\* provers have to be told of powers.
LEMMA Doubling ==
  ASSUME NEW n \in Nat
  PROVE  2 ^ n \in Nat /\ 2 ^ (n + 1) = 2 * 2 ^ n
<1> DEFINE A == SUBSET (1..n)
           with(T) == T \cup {n + 1}
           B == {with(T) : T \in A}
<1>1. IsFiniteSet(1..n) /\ Cardinality(1..n) = n /\ IsFiniteSet(1..(n + 1))
      /\ Cardinality(1..(n + 1)) = n + 1
  BY FS_Interval
<1>2. IsFiniteSet(A) /\ Cardinality(A) = 2 ^ n /\ Cardinality(SUBSET (1..(n + 1))) = 2 ^ (n + 1)
  BY <1>1, FS_SUBSET
<1>3. IsFiniteSet(B) /\ Cardinality(B) = 2 ^ n
  <2> DEFINE f == [T \in A |-> with(T)]
  <2>1. \A T \in A : n + 1 \notin T
    BY <1>1
  <2>2. f \in Bijection(A, B)
    <3>1. f \in [A -> B]
      OBVIOUS
    <3>2. \A S, T \in A : f[S] = f[T] => S = T
      BY <2>1
    <3>3. \A b \in B : \E T \in A : f[T] = b
      OBVIOUS
    <3> HIDE DEF f, A, B
    <3> QED BY <3>1, <3>2, <3>3 DEF Bijection, Injection, Surjection, IsInjective
  <2>3. ExistsBijection(A, B)
    BY <2>2 DEF ExistsBijection
  <2> QED BY <1>2, <2>3, FS_Bijection
<1>4. A \cup B = SUBSET (1..(n + 1)) /\ A \cap B = {}
  <2>1. 1..(n + 1) = 1..n \cup {n + 1} /\ n + 1 \notin 1..n
    OBVIOUS
  <2>2. A \cap B = {}
    BY <2>1
  <2>3. A \cup B \subseteq SUBSET (1..(n + 1))
    BY <2>1
  <2>4. ASSUME NEW S \in SUBSET (1..(n + 1)) PROVE S \in A \cup B
    <3>1. CASE n + 1 \in S
      <4>1. S \ {n + 1} \in A /\ S = with(S \ {n + 1})
        BY <2>1, <3>1
      <4> QED BY <4>1
    <3>2. CASE n + 1 \notin S
      BY <2>1, <3>2
    <3> QED BY <3>1, <3>2
  <2> QED BY <2>2, <2>3, <2>4
<1>5. 2 ^ n \in Nat
  BY <1>2, FS_CardinalityType
<1>6. Cardinality(A \cup B) = 2 ^ n + 2 ^ n - Cardinality({})
  <2>1. Cardinality(A \cup B) = Cardinality(A) + Cardinality(B) - Cardinality(A \cap B)
    <3> HIDE DEF A, B
    <3> QED BY <1>2, <1>3, FS_Union, Zenon
  <2> HIDE DEF A, B
  <2> QED BY <2>1, <1>2, <1>3, <1>4
<1>7. 2 ^ (n + 1) = 2 ^ n + 2 ^ n
  <2>1. Cardinality({}) = 0
    BY FS_EmptySet
  <2>2. Cardinality(A \cup B) = 2 ^ (n + 1)
    BY <1>2, <1>4
  <2> HIDE DEF A, B
  <2> QED BY <2>1, <2>2, <1>5, <1>6
<1> QED BY <1>5, <1>7

\* One halving of the search for the strength that makes readable.
Halved(pair, readableFrom) ==
  LET middle == (pair[1] + pair[2]) \div 2
  IN IF middle >= readableFrom THEN <<pair[1], middle>> ELSE <<middle, pair[2]>>

\* The search, cut after n halvings.
IsSearch(f, n, readableFrom) ==
  f = [i \in 0..n |-> IF i = 0 THEN <<0, Full>> ELSE Halved(f[i - 1], readableFrom)]

\* The recursion of requiredScrim has a value.
LEMMA SearchExists ==
  ASSUME NEW x
  PROVE  \A n \in Nat : \E f : IsSearch(f, n, x)
<1> DEFINE Cut == {n \in Nat : ~ \E f : IsSearch(f, n, x)}
<1> SUFFICES ASSUME Cut # {} PROVE FALSE
  OBVIOUS
<1>1. PICK n \in Cut : \A m \in Cut : n <= m
  <2>1. Cut \subseteq Nat
    OBVIOUS
  <2> HIDE DEF Cut
  <2> QED BY <2>1, LeastNat
<1>2. n # 0
  <2> DEFINE f == [i \in 0..0 |-> <<0, Full>>]
  <2>1. IsSearch(f, 0, x)
    BY DEF IsSearch
  <2> QED BY <2>1
<1>3. n - 1 \in Nat /\ n - 1 \notin Cut
  BY <1>1, <1>2
<1>4. PICK g : IsSearch(g, n - 1, x)
  BY <1>3
<1> DEFINE f == [i \in 0..n |-> IF i = n THEN Halved(g[n - 1], x) ELSE g[i]]
<1>5. \A i \in 0..n : f[i] = IF i = 0 THEN <<0, Full>> ELSE Halved(f[i - 1], x)
  <2> TAKE i \in 0..n
  <2>1. CASE i = n
    BY <2>1, <1>1, <1>2
  <2>2. CASE i # n
    <3>1. i \in 0..(n - 1) /\ f[i] = g[i]
      BY <2>2, <1>1
    <3>2. g[i] = IF i = 0 THEN <<0, Full>> ELSE Halved(g[i - 1], x)
      BY <3>1, <1>4 DEF IsSearch
    <3>3. i # 0 => i - 1 \in 0..n /\ i - 1 # n
      BY <1>1
    <3> QED BY <3>1, <3>2, <3>3
  <2> QED BY <2>1, <2>2
<1>6. IsSearch(f, n, x)
  BY <1>5 DEF IsSearch
<1> QED BY <1>1, <1>6

\* The search keeps an unreadable strength below a readable one, half as far apart
\* after every halving.
LEMMA SearchHalves ==
  ASSUME NEW x \in 1..Full, NEW f, IsSearch(f, Halvings, x)
  PROVE  /\ f[Halvings] \in Nat \X Nat
         /\ f[Halvings][1] < x /\ x <= f[Halvings][2]
         /\ f[Halvings][2] - f[Halvings][1] = Steps
<1> DEFINE Fits(i) == /\ f[i] \in Nat \X Nat
                      /\ f[i][1] < x /\ x <= f[i][2]
                      /\ f[i][2] - f[i][1] = Steps * 2 ^ (Halvings - i)
           Unfit == {i \in Nat : i <= Halvings /\ ~ Fits(i)}
<1>1. Full \in Nat /\ Full = Steps * 2 ^ Halvings /\ x \in Nat
  BY Doubling DEF Full, Unit
<1>2. \A i \in 0..Halvings : f[i] = IF i = 0 THEN <<0, Full>> ELSE Halved(f[i - 1], x)
  BY DEF IsSearch
<1>3. Fits(0)
  BY <1>1, <1>2
<1>4. ASSUME NEW i \in 1..Halvings, Fits(i - 1)
      PROVE  Fits(i)
  <2>1. PICK lower \in Nat, upper \in Nat : f[i - 1] = <<lower, upper>>
    BY <1>4
  <2> DEFINE far == Steps * 2 ^ (Halvings - i)
  <2>2. far \in Nat /\ Steps * 2 ^ (Halvings - (i - 1)) = 2 * far
    <3>1. Halvings - i \in Nat /\ Halvings - (i - 1) = (Halvings - i) + 1
      OBVIOUS
    <3>2. 2 ^ (Halvings - i) \in Nat /\ 2 ^ (Halvings - (i - 1)) = 2 * 2 ^ (Halvings - i)
      BY <3>1, Doubling
    <3> QED BY <3>2
  <2>3. lower < x /\ x <= upper /\ upper = lower + 2 * far
    BY <1>4, <2>1, <2>2
  <2>4. (lower + upper) \div 2 = lower + far
    <3> HIDE DEF far
    <3> QED BY <2>2, <2>3
  <2>5. f[i] = IF lower + far >= x THEN <<lower, lower + far>> ELSE <<lower + far, upper>>
    <3>1. f[i] = Halved(<<lower, upper>>, x)
      BY <1>2, <2>1
    <3> HIDE DEF far
    <3> QED BY <3>1, <2>4 DEF Halved
  <2> HIDE DEF far
  <2>6. f[i] \in Nat \X Nat /\ f[i][1] < x /\ x <= f[i][2] /\ f[i][2] - f[i][1] = far
    BY <2>2, <2>3, <2>5, <1>1
  <2> QED BY <2>6 DEF far
<1>5. Unfit = {}
  <2> SUFFICES ASSUME Unfit # {} PROVE FALSE
    OBVIOUS
  <2> HIDE DEF Fits
  <2>1. PICK i \in Unfit : \A j \in Unfit : i <= j
    <3>1. Unfit \subseteq Nat
      OBVIOUS
    <3> HIDE DEF Unfit
    <3> QED BY <3>1, LeastNat
  <2>2. i # 0 /\ i - 1 \notin Unfit
    BY <2>1, <1>3
  <2> QED BY <2>1, <2>2, <1>4
<1>6. Fits(Halvings)
  <2> HIDE DEF Fits
  <2> QED BY <1>5
<1>7. Steps * 2 ^ (Halvings - Halvings) = Steps
  OBVIOUS
<1> QED BY <1>6, <1>7

\* Rounding up to a step adds less than one.
LEMMA RoundUpBounds ==
  ASSUME NEW n \in Nat
  PROVE  /\ Unit \in Nat /\ Unit > 0
         /\ RoundUp(n) \in Nat
         /\ n <= RoundUp(n) * Unit /\ RoundUp(n) * Unit < n + Unit
<1>1. Unit \in Nat /\ Unit > 0
  BY Doubling DEF Unit
<1>2. \A a, b \in Nat : b > 0 =>
        a \div b \in Nat /\ (a \div b) * b <= a /\ a < (a \div b) * b + b
  OBVIOUS
<1>3. n + Unit - 1 \in Nat
  BY <1>1
<1>4. /\ RoundUp(n) \in Nat /\ RoundUp(n) * Unit <= n + Unit - 1
      /\ n + Unit - 1 < RoundUp(n) * Unit + Unit
  BY <1>1, <1>2, <1>3 DEF RoundUp
<1>5. RoundUp(n) * Unit \in Nat
  BY <1>1, <1>4
<1> QED BY <1>1, <1>4, <1>5

\* The strength that requiredScrim returns is enough, and hardly more than enough.
LEMMA RequiredScrimBounds ==
  ASSUME NEW x \in 0..Full
  PROVE  /\ RequiredScrim(x) \in Nat
         /\ RequiredScrim(x) * Unit >= x
         /\ RequiredScrim(x) > 0 => RequiredScrim(x) * Unit < x + Unit + Steps
<1> DEFINE search == CHOOSE f : IsSearch(f, Halvings, x)
<1>1. RequiredScrim(x) = IF 0 >= x THEN 0 ELSE RoundUp(search[Halvings][2])
  BY DEF RequiredScrim, IsSearch, Halved
<1>2. x \in Nat /\ Unit \in Nat
  BY RoundUpBounds DEF Full
<1>3. CASE 0 >= x
  BY <1>1, <1>2, <1>3
<1>4. CASE ~ (0 >= x)
  <2>1. IsSearch(search, Halvings, x)
    BY SearchExists
  <2> HIDE DEF search
  <2>2. x \in 1..Full
    BY <1>2, <1>4
  <2>3. PICK upper : upper = search[Halvings][2]
    OBVIOUS
  <2>4. upper \in Nat /\ x <= upper /\ upper < x + Steps
    BY <1>2, <2>1, <2>2, <2>3, SearchHalves
  <2>5. RequiredScrim(x) = RoundUp(upper)
    BY <1>1, <1>4, <2>3
  <2>6. /\ RoundUp(upper) \in Nat /\ RoundUp(upper) * Unit \in Nat
        /\ upper <= RoundUp(upper) * Unit /\ RoundUp(upper) * Unit < upper + Unit
    BY <1>2, <2>4, RoundUpBounds
  <2> QED BY <1>2, <2>4, <2>5, <2>6
<1> QED BY <1>3, <1>4

\* With a preset ink the veil makes every retained color readable, is no stronger than
\* the rounding makes it, and is of the tone that needs less (requiredScrim,
\* classifyWallpaper), for any number of strengths and halvings.
THEOREM PresetsAreLeast == LeastVeil
<1> SUFFICES ASSUME NEW from \in [Tones -> 0..Full], NEW preferred \in Tones \cup {Absent},
                    NEW natural \in Tones
             PROVE  LET veil == PresetVeil(from, preferred, natural) IN
                    /\ veil.scrim * Unit >= from[veil.tone]
                    /\ veil.scrim > 0 => veil.scrim * Unit < from[veil.tone] + Unit + Steps
                    /\ preferred = Absent => veil.scrim <= RequiredScrim(from[Other(veil.tone)])
  BY DEF LeastVeil
<1> DEFINE scrim == [tone \in Tones |-> RequiredScrim(from[tone])]
           tone == IF preferred # Absent THEN preferred
                   ELSE IF scrim["light"] = scrim["dark"] THEN natural
                   ELSE CHOOSE t \in Tones : scrim[t] < scrim[Other(t)]
<1>1. \A t \in Tones : Other(t) \in Tones /\ scrim[t] \in Nat
  BY RequiredScrimBounds DEF Other, Tones
<1>2. tone \in Tones /\ (preferred = Absent => scrim[tone] <= scrim[Other(tone)])
  <2> HIDE DEF scrim
  <2>1. CASE preferred # Absent
    BY <2>1
  <2>2. CASE preferred = Absent /\ scrim["light"] = scrim["dark"]
    BY <1>1, <2>2 DEF Tones, Other
  <2>3. CASE preferred = Absent /\ scrim["light"] # scrim["dark"]
    <3>1. \E t \in Tones : scrim[t] < scrim[Other(t)]
      BY <1>1, <2>3 DEF Tones, Other
    <3>2. tone = CHOOSE t \in Tones : scrim[t] < scrim[Other(t)]
      BY <2>3
    <3>3. tone \in Tones /\ scrim[tone] < scrim[Other(tone)]
      <4> HIDE DEF tone
      <4> QED BY <3>1, <3>2
    <3> HIDE DEF tone
    <3> QED BY <3>3, <1>1
  <2> QED BY <2>1, <2>2, <2>3
<1>3. PresetVeil(from, preferred, natural) = [tone |-> tone, scrim |-> scrim[tone]]
  BY DEF PresetVeil
<1> HIDE DEF tone
<1>4. /\ scrim[tone] = RequiredScrim(from[tone])
      /\ scrim[Other(tone)] = RequiredScrim(from[Other(tone)])
  BY <1>1, <1>2
<1> QED BY <1>2, <1>3, <1>4, RequiredScrimBounds

-----------------------------------------------------------------------------
(***************************************************************************)
(* The search of customInkScrim.                                           *)
(***************************************************************************)
\* The colors of a picture at every strength of either veil.
Worsts == [Tones -> [1..Steps -> 0..Target]]

\* The tones whose full veil is readable.
Solid(worst) == {t \in Tones : worst[t][Steps] >= Target}

\* The first readable strength exists where the full veil is readable.
LEMMA FirstReadableIsFirst ==
  ASSUME NEW worst \in Worsts, NEW t \in Solid(worst)
  PROVE  /\ FirstReadable(t, worst) \in 1..Steps
         /\ worst[t][FirstReadable(t, worst)] >= Target
         /\ \A s \in 1..(FirstReadable(t, worst) - 1) : worst[t][s] < Target
<1> DEFINE some == {s \in 1..Steps : worst[t][s] >= Target}
<1>1. t \in Tones /\ Steps \in some
  BY DEF Solid
<1>2. PICK n \in some : \A m \in some : n <= m
  <2>1. some \subseteq Nat
    OBVIOUS
  <2> HIDE DEF some
  <2> QED BY <1>1, <2>1, LeastNat
<1>3. FirstReadable(t, worst) = CHOOSE k \in some : \A m \in some : k <= m
  BY DEF FirstReadable, Min
<1>4. FirstReadable(t, worst) \in some /\ \A m \in some : FirstReadable(t, worst) <= m
  <2> HIDE DEF some
  <2> QED BY <1>2, <1>3
<1>5. ASSUME NEW s \in 1..(FirstReadable(t, worst) - 1)
      PROVE  worst[t][s] < Target
  <2>1. s \in 1..Steps /\ s \notin some
    BY <1>4
  <2>2. worst[t][s] \in 0..Target
    BY <1>1, <2>1 DEF Worsts
  <2> QED BY <2>1, <2>2
<1> QED BY <1>4, <1>5

\* What has been considered: the tones in tried.
Considered(state, worst, unveiled, tried) ==
  /\ state.contrast \in Nat /\ state.contrast >= unveiled
  /\ \A t \in tried : worst[t][Steps] <= state.contrast
  /\ state.best.scrim = 0 => state.contrast = unveiled
  /\ \/ state.best.scrim = 0
     \/ /\ state.best.scrim = Steps /\ state.best.tone \in tried
        /\ worst[state.best.tone][Steps] > unveiled
  /\ state.readable = Absent => tried \cap Solid(worst) = {}
  /\ state.readable # Absent =>
       \E t \in tried \cap Solid(worst) :
         /\ state.readable = [tone |-> t, scrim |-> FirstReadable(t, worst)]
         /\ \A u \in tried \cap Solid(worst) : FirstReadable(t, worst) <= FirstReadable(u, worst)

Veils == [tone : Tones, scrim : 0..Steps]
States == [best : Veils, contrast : Nat, readable : Veils \cup {Absent}]

\* One tone more is considered.
LEMMA ConsiderMore ==
  ASSUME NEW worst \in Worsts, NEW unveiled \in 0..Target, NEW tried \in SUBSET Tones,
         NEW state \in States, NEW tone \in Tones,
         Considered(state, worst, unveiled, tried)
  PROVE  /\ Consider(state, tone, worst) \in States
         /\ Considered(Consider(state, tone, worst), worst, unveiled, tried \cup {tone})
<1> DEFINE full == worst[tone][Steps]
           veiled == FullVeil(state, tone, worst)
           first == FirstReadable(tone, worst)
           new == Consider(state, tone, worst)
<1>1. full \in Nat /\ unveiled \in Nat /\ \A t \in Tones : worst[t][Steps] \in Nat
  BY DEF Worsts
<1>2. /\ veiled \in States /\ veiled.readable = state.readable
      /\ \/ /\ full > state.contrast /\ veiled.contrast = full
            /\ veiled.best = [tone |-> tone, scrim |-> Steps]
         \/ /\ full <= state.contrast /\ veiled = state
  <2>1. CASE full > state.contrast
    <3>1. veiled = [state EXCEPT !.best = [tone |-> tone, scrim |-> Steps], !.contrast = full]
      BY <2>1 DEF FullVeil
    <3>2. [tone |-> tone, scrim |-> Steps] \in Veils
      BY DEF Veils
    <3> HIDE DEF full, veiled
    <3> QED BY <3>1, <3>2, <2>1, <1>1 DEF States
  <2>2. CASE ~ (full > state.contrast)
    <3>1. veiled = state
      BY <2>2 DEF FullVeil
    <3> QED BY <3>1, <2>2, <1>1 DEF States
  <2> QED BY <2>1, <2>2
<1> DEFINE better == full >= Target /\ (state.readable = Absent \/ first < state.readable.scrim)
<1>3. better => [tone |-> tone, scrim |-> first] \in Veils
  BY FirstReadableIsFirst DEF Solid, Veils
<1>4. /\ new \in States /\ new.best = veiled.best /\ new.contrast = veiled.contrast
      /\ new.readable = IF better THEN [tone |-> tone, scrim |-> first] ELSE state.readable
  <2> HIDE DEF veiled, first
  <2>1. CASE better
    <3>1. new = [veiled EXCEPT !.readable = [tone |-> tone, scrim |-> first]]
      BY <2>1, <1>2 DEF Consider, veiled, first
    <3> QED BY <3>1, <2>1, <1>2, <1>3 DEF States
  <2>2. CASE ~ better
    <3>1. new = veiled
      BY <2>2, <1>2 DEF Consider, veiled, first
    <3> QED BY <3>1, <2>2, <1>2
  <2> QED BY <2>1, <2>2
<1> HIDE DEF new, veiled
<1>5. /\ new.contrast \in Nat /\ new.contrast >= unveiled
      /\ \A t \in tried \cup {tone} : worst[t][Steps] <= new.contrast
      /\ new.best.scrim = 0 => new.contrast = unveiled
      /\ \/ new.best.scrim = 0
         \/ /\ new.best.scrim = Steps /\ new.best.tone \in tried \cup {tone}
            /\ worst[new.best.tone][Steps] > unveiled
  <2> HIDE DEF better
  <2>1. state.contrast \in Nat
    BY DEF States
  <2> QED BY <2>1, <1>1, <1>2, <1>4 DEF Considered
<1>6. /\ new.readable = Absent => (tried \cup {tone}) \cap Solid(worst) = {}
      /\ new.readable # Absent =>
           \E t \in (tried \cup {tone}) \cap Solid(worst) :
             /\ new.readable = [tone |-> t, scrim |-> FirstReadable(t, worst)]
             /\ \A u \in (tried \cup {tone}) \cap Solid(worst) :
                  FirstReadable(t, worst) <= FirstReadable(u, worst)
  <2>1. tone \in Solid(worst) <=> full >= Target
    BY DEF Solid
  <2>2. \A u \in Solid(worst) : FirstReadable(u, worst) \in Nat
    BY FirstReadableIsFirst
  <2>3. CASE better
    <3>1. tone \in Solid(worst) /\ new.readable = [tone |-> tone, scrim |-> first]
      BY <2>1, <2>3, <1>4
    <3>2. \A u \in tried \cap Solid(worst) : first <= FirstReadable(u, worst)
      <4>1. CASE state.readable = Absent
        BY <4>1 DEF Considered
      <4>2. CASE state.readable # Absent
        <5>1. PICK t \in tried \cap Solid(worst) :
                /\ state.readable = [tone |-> t, scrim |-> FirstReadable(t, worst)]
                /\ \A u \in tried \cap Solid(worst) : FirstReadable(t, worst) <= FirstReadable(u, worst)
          BY <4>2 DEF Considered
        <5>2. first < FirstReadable(t, worst)
          BY <2>3, <4>2, <5>1
        <5> QED BY <5>1, <5>2, <2>2, <3>1
      <4> QED BY <4>1, <4>2
    <3>3. new.readable # Absent /\ first <= first
      BY <1>3, <2>2, <2>3, <3>1, AbsentAssumption DEF Veils
    <3> QED BY <3>1, <3>2, <3>3
  <2>4. CASE ~ better
    <3>1. new.readable = state.readable
      BY <2>4, <1>4
    <3>2. CASE state.readable = Absent
      BY <2>1, <2>4, <3>1, <3>2 DEF Considered
    <3>3. CASE state.readable # Absent
      <4>1. PICK t \in tried \cap Solid(worst) :
              /\ state.readable = [tone |-> t, scrim |-> FirstReadable(t, worst)]
              /\ \A u \in tried \cap Solid(worst) : FirstReadable(t, worst) <= FirstReadable(u, worst)
        BY <3>3 DEF Considered
      <4>2. tone \in Solid(worst) => FirstReadable(t, worst) <= first
        <5>1. state.readable.scrim = FirstReadable(t, worst)
          BY <4>1
        <5> QED BY <2>1, <2>2, <2>4, <4>1, <5>1
      <4> HIDE DEF better, first
      <4>3. \A u \in (tried \cup {tone}) \cap Solid(worst) : FirstReadable(t, worst) <= FirstReadable(u, worst)
        BY <4>1, <4>2 DEF first
      <4> QED BY <3>1, <3>3, <4>1, <4>3
    <3> QED BY <3>2, <3>3
  <2> QED BY <2>3, <2>4
<1> QED BY <1>4, <1>5, <1>6 DEF Considered, new

\* What customInkScrim chooses: nothing where nothing is needed or of use, the least
\* strength that is readable, or a full veil that improves the contrast.
LEMMA CustomInkChoice ==
  ASSUME NEW worst \in Worsts, NEW tone \in Tones, NEW unveiled \in 0..Target
  PROVE  LET chosen == CustomInkScrim(worst, tone, unveiled) IN
         /\ chosen \in Veils
         /\ chosen.scrim = 0 =>
              unveiled >= Target \/ \A t \in Tones : worst[t][Steps] <= unveiled
         /\ chosen.scrim # 0 => worst[chosen.tone][Steps] > unveiled /\ unveiled < Target
         /\ chosen.scrim \in 1..(Steps - 1) =>
              /\ worst[chosen.tone][chosen.scrim] >= Target
              /\ \A t \in Solid(worst), s \in 1..(chosen.scrim - 1) : worst[t][s] < Target
<1> DEFINE none == [best |-> [tone |-> tone, scrim |-> 0], contrast |-> unveiled,
                    readable |-> Absent]
           one == Consider(none, tone, worst)
           both == Consider(one, Other(tone), worst)
           chosen == CustomInkScrim(worst, tone, unveiled)
<1>1. Other(tone) \in Tones /\ {} \cup {tone} \cup {Other(tone)} = Tones
  BY DEF Other, Tones
<1>2. none \in States /\ Considered(none, worst, unveiled, {})
  BY DEF States, Veils, Considered
<1>3. one \in States /\ Considered(one, worst, unveiled, {} \cup {tone})
  <2> HIDE DEF none
  <2> QED BY <1>2, ConsiderMore
<1>4. both \in States /\ Considered(both, worst, unveiled, Tones)
  <2> HIDE DEF one
  <2> QED BY <1>1, <1>3, ConsiderMore
<1>5. chosen = IF unveiled >= Target THEN [tone |-> tone, scrim |-> 0]
               ELSE IF both.readable # Absent THEN both.readable ELSE both.best
  BY DEF CustomInkScrim
<1> HIDE DEF both, chosen
<1>6. unveiled \in Nat /\ \A t \in Tones : worst[t][Steps] \in Nat
  BY DEF Worsts
<1>7. CASE unveiled >= Target
  BY <1>5, <1>7 DEF Veils, chosen
<1>8. CASE ~ (unveiled >= Target) /\ both.readable # Absent
  <2>1. PICK t \in Solid(worst) :
          /\ chosen = [tone |-> t, scrim |-> FirstReadable(t, worst)]
          /\ \A u \in Solid(worst) : FirstReadable(t, worst) <= FirstReadable(u, worst)
    <3>1. chosen = both.readable /\ Tones \cap Solid(worst) = Solid(worst)
      BY <1>5, <1>8 DEF Solid
    <3> QED BY <1>4, <1>8, <3>1 DEF Considered
  <2>2. t \in Tones /\ worst[t][Steps] >= Target
    BY DEF Solid
  <2>3. chosen \in Veils /\ chosen.tone = t /\ chosen.scrim = FirstReadable(t, worst)
        /\ chosen.scrim \in 1..Steps /\ worst[t][chosen.scrim] >= Target
    BY <2>1, <2>2, FirstReadableIsFirst DEF Veils
  <2>4. worst[t][Steps] > unveiled
    BY <1>6, <1>8, <2>2
  <2>5. ASSUME NEW u \in Solid(worst), NEW s \in 1..(chosen.scrim - 1)
        PROVE  worst[u][s] < Target
    <3>1. FirstReadable(u, worst) \in 1..Steps /\ chosen.scrim <= FirstReadable(u, worst)
      BY <2>1, <2>3, FirstReadableIsFirst
    <3>2. s \in 1..(FirstReadable(u, worst) - 1)
      BY <2>3, <3>1
    <3> QED BY <3>2, FirstReadableIsFirst
  <2> QED BY <1>6, <1>8, <2>3, <2>4, <2>5 DEF chosen
<1>9. CASE ~ (unveiled >= Target) /\ both.readable = Absent
  <2>1. chosen = both.best /\ chosen \in Veils
    BY <1>4, <1>5, <1>9 DEF States
  <2>2. chosen.scrim = 0 => \A t \in Tones : worst[t][Steps] <= unveiled
    BY <1>4, <2>1 DEF Considered
  <2>3. chosen.scrim # 0 => chosen.scrim = Steps /\ worst[chosen.tone][Steps] > unveiled
    BY <1>4, <2>1 DEF Considered
  <2> QED BY <1>6, <1>9, <2>1, <2>2, <2>3 DEF chosen
<1> QED BY <1>7, <1>8, <1>9

\* With a custom ink a partial veil is the least that is readable, a full one improves
\* the contrast, and the picture is left alone only where nothing is needed or of use
\* (customInkScrim, classifyWallpaper).
THEOREM CustomsHelp == VeilHelps
<1> SUFFICES ASSUME NEW worst \in Worsts, NEW tone \in Tones, NEW unveiled \in 0..Target,
                    NEW measured \in {0, Target}
             PROVE  LET veil == CustomVeil(worst, tone, unveiled, measured)
                        solid == {t \in Tones : worst[t][Steps] >= Target}
                    IN CASE veil.scrim = 0 ->
                              unveiled >= Target \/ \A t \in Tones : worst[t][Steps] <= unveiled
                         [] veil.scrim = Steps ->
                              worst[veil.tone][Steps] > unveiled
                         [] OTHER ->
                              /\ worst[veil.tone][veil.scrim] >= Target /\ unveiled < Target
                              /\ measured >= Target
                              /\ \A t \in solid, s \in 1..(veil.scrim - 1) : worst[t][s] < Target
  BY DEF VeilHelps, Worsts
<1> DEFINE chosen == CustomInkScrim(worst, tone, unveiled)
           veil == CustomVeil(worst, tone, unveiled, measured)
<1>1. /\ chosen \in Veils
      /\ chosen.scrim = 0 =>
           unveiled >= Target \/ \A t \in Tones : worst[t][Steps] <= unveiled
      /\ chosen.scrim # 0 => worst[chosen.tone][Steps] > unveiled /\ unveiled < Target
      /\ chosen.scrim \in 1..(Steps - 1) =>
           /\ worst[chosen.tone][chosen.scrim] >= Target
           /\ \A t \in Solid(worst), s \in 1..(chosen.scrim - 1) : worst[t][s] < Target
  BY CustomInkChoice
<1>2. veil = IF chosen.scrim \in 1..(Steps - 1) /\ measured < Target
             THEN [chosen EXCEPT !.scrim = Steps] ELSE chosen
  BY DEF CustomVeil
<1> HIDE DEF chosen, veil
<1>3. chosen.scrim \in 0..Steps
  BY <1>1 DEF Veils
<1>4. CASE chosen.scrim \in 1..(Steps - 1) /\ measured < Target
  <2>1. veil.scrim = Steps /\ veil.tone = chosen.tone
    BY <1>1, <1>2, <1>4 DEF Veils
  <2> QED BY <1>1, <1>4, <2>1 DEF veil
<1>5. CASE ~ (chosen.scrim \in 1..(Steps - 1) /\ measured < Target)
  <2>1. veil = chosen
    BY <1>2, <1>5
  <2>2. CASE chosen.scrim = 0
    BY <1>1, <2>1, <2>2 DEF veil
  <2>3. CASE chosen.scrim = Steps
    BY <1>1, <2>1, <2>3 DEF veil
  <2>4. CASE chosen.scrim \in 1..(Steps - 1)
    <3>1. measured >= Target /\ chosen.scrim # 0 /\ chosen.scrim # Steps
      BY <1>5, <2>4
    <3> QED BY <1>1, <2>1, <2>4, <3>1 DEF veil, Solid
  <2> QED BY <1>3, <2>2, <2>3, <2>4
<1> QED BY <1>4, <1>5

USE InkAssumption, SampleAssumption

-----------------------------------------------------------------------------
(***************************************************************************)
(* What a render shows, as a function of the inputs and the last result.   *)
(***************************************************************************)
AppearanceOf(pv, k, s) ==
  IF k.src = None
  THEN [status |-> "none", veil |-> "none"]
  ELSE IF s # None /\ s.key = k
  THEN [status |-> s.status, veil |-> s.veil]
  ELSE IF s # None /\ Context(s.key) = Context(k)
  THEN [status |-> IF pv THEN s.status ELSE "loading", veil |-> s.veil]
  ELSE IF s # None /\ k.auto /\ Protection(s.key) = Protection(k) /\ s.status # "error"
  THEN [status |-> "loading", veil |-> s.veil]
  ELSE [status |-> "loading", veil |-> "none"]

\* What is shown depends on these three alone.
LEMMA AppearanceIs ==
  /\ Appearance = AppearanceOf(preview, input, sample)
  /\ Appearance' = AppearanceOf(preview', input', sample')
BY DEF Appearance, AppearanceOf

\* The inputs of a look, a veil of the same protection, and bare loading.
Like(k, s) ==
  /\ s # None
  /\ \/ s.key = k
     \/ Context(s.key) = Context(k)
     \/ k.auto /\ Protection(s.key) = Protection(k) /\ s.status # "error"

\* The cases of an appearance.
LEMMA AppearanceCases ==
  ASSUME NEW pv \in BOOLEAN, NEW k \in Inputs, NEW s \in Samples \cup {None},
         NEW a, a = AppearanceOf(pv, k, s)
  PROVE  /\ k.src = None => a.status = "none"
         /\ k.src # None /\ s # None /\ s.key = k => a.status = s.status
         /\ k.src # None /\ Like(k, s) => a.veil = s.veil
         /\ k.src # None /\ ~Like(k, s) => a.status = "loading" /\ a.veil = "none"
         /\ k.src # None => a.status # "none"
         /\ k.src # None /\ a.status # "loading" => s # None /\ a.status = s.status
         /\ k.src # None /\ ~pv /\ a.status # "loading" => s.key = k
<1> DEFINE alike == s # None /\ Context(s.key) = Context(k)
           veiled == s # None /\ k.auto /\ Protection(s.key) = Protection(k) /\ s.status # "error"
<1>1. s # None => s.status # "none"
  BY DEF Samples
<1>2. CASE k.src = None
  <2>1. a = [status |-> "none", veil |-> "none"]
    BY <1>2 DEF AppearanceOf
  <2> QED BY <1>2, <2>1
<1>3. CASE k.src # None /\ s # None /\ s.key = k
  <2>1. a = [status |-> s.status, veil |-> s.veil]
    BY <1>3 DEF AppearanceOf
  <2>2. Like(k, s)
    BY <1>3 DEF Like
  <2> QED BY <1>1, <1>3, <2>1, <2>2
<1>4. CASE k.src # None /\ ~(s # None /\ s.key = k) /\ alike
  <2>1. a = [status |-> IF pv THEN s.status ELSE "loading", veil |-> s.veil]
    BY <1>4 DEF AppearanceOf
  <2>2. Like(k, s)
    BY <1>4 DEF Like
  <2>3. a.status = (IF pv THEN s.status ELSE "loading") /\ a.veil = s.veil
    BY <2>1
  <2> QED BY <1>1, <1>4, <2>2, <2>3
<1>5. CASE k.src # None /\ ~(s # None /\ s.key = k) /\ ~alike /\ veiled
  <2>1. a = [status |-> "loading", veil |-> s.veil]
    BY <1>5 DEF AppearanceOf
  <2>2. Like(k, s)
    BY <1>5 DEF Like
  <2> QED BY <1>5, <2>1, <2>2
<1>6. CASE k.src # None /\ ~(s # None /\ s.key = k) /\ ~alike /\ ~veiled
  <2>1. a = [status |-> "loading", veil |-> "none"]
    BY <1>6 DEF AppearanceOf
  <2>2. ~Like(k, s)
    BY <1>6 DEF Like
  <2> QED BY <1>6, <2>1, <2>2
<1> QED BY <1>2, <1>3, <1>4, <1>5, <1>6

-----------------------------------------------------------------------------
(***************************************************************************)
(* The inductive invariant.                                                *)
(***************************************************************************)
\* A run that loads has an image and a measured view, and so has a result.
Loading ==
  /\ run.at # "none" => run.of.src # None /\ run.of.view # None
  /\ sample # None => sample.key.src # None /\ sample.key.view # None

\* Before its settings are there, the page loads nothing.
Waiting == panel = "pending" => input.src = None /\ run.at = "none" /\ sample = None

\* The image of a result has been on the screen, or the result arrived behind a page
\* that was refused.
Unveiled ==
  ~preview /\ sample # None /\ sample.status # "error" => sample.key.src \in seen \cup behind

Masked == TypeOK /\ Loading /\ Waiting /\ Unveiled

-----------------------------------------------------------------------------
(***************************************************************************)
(* What the two kinds of steps do: the effect goes on, or it waits while   *)
(* the page changes.                                                       *)
(***************************************************************************)
\* The effect works for the current inputs, and a result is for them.
Loads ==
  /\ UNCHANGED <<preview, panel, input, changes>>
  /\ run' \in Runs /\ run'.of = input
  /\ run'.at # "none" => input.src # None /\ input.view # None
  /\ run'.at = "sampling" => decoded' = input.src
  /\ run'.timer => run'.at = "sampling"
  /\ decoded' \in {decoded, input.src} /\ imageRef' \in {imageRef, input.src}
  /\ \/ sample' = sample
     \/ /\ sample' \in Samples /\ sample'.key = input
        /\ input.src # None /\ input.view # None
        /\ sample'.status # "error" => decoded' = input.src

\* The page or its inputs change; a page that stays hidden changes only its view, and
\* one without settings has no image.
Changes ==
  /\ UNCHANGED <<preview, loads>>
  /\ panel' \in {"pending", "shown", "refused"}
  /\ panel' = "pending" => panel = "pending"
  /\ input' \in Inputs /\ changes' \in 0..MaxChanges
  /\ panel' \in {"pending", "refused"} => Protection(input') = Protection(input)
  /\ panel = "pending" => panel' # "refused"

\* Results are for the inputs of their run.
LEMMA ResultTypes ==
  ASSUME NEW k \in Inputs
  PROVE  /\ Unreadable(k) \in Samples /\ Unreadable(k).key = k /\ Unreadable(k).status = "unreadable"
         /\ Broken(k) \in Samples /\ Broken(k).key = k /\ Broken(k).status = "error"
         /\ \A s \in Analyzed(k) : s \in Samples /\ s.key = k /\ s.status # "error"
<1>1. /\ Unreadable(k) \in Samples /\ Unreadable(k).key = k
      /\ Unreadable(k).status = "unreadable"
  BY DEF Unreadable, Samples
<1>2. Broken(k) \in Samples /\ Broken(k).key = k /\ Broken(k).status = "error"
  BY DEF Broken, Samples
<1>3. ASSUME NEW s \in Analyzed(k)
      PROVE  s \in Samples /\ s.key = k /\ s.status # "error"
  <2>1. \/ s = [key |-> k, status |-> "ready", veil |-> "none"]
        \/ s = [key |-> k, status |-> "ready", veil |-> IF k.auto THEN "measured" ELSE "none"]
        \/ s = Unreadable(k)
    BY <1>3 DEF Analyzed
  <2>2. (IF k.auto THEN "measured" ELSE "none") \in {"none", "fallback", "measured"}
    OBVIOUS
  <2> QED BY <1>1, <2>1, <2>2 DEF Samples
<1> QED BY <1>1, <1>2, <1>3

\* Every step of the effect is of the first kind.
LEMMA EffectSteps ==
  ASSUME TypeOK, Loading,
         \/ RunEffect \/ Settled \/ DisplayLoaded \/ DisplayError \/ DisplayTimeout
         \/ Decoded \/ AnalysisTimeout \/ Sampled \/ SampleError
  PROVE  Loads /\ Render
<1>1. input \in Inputs /\ run \in Runs
  BY DEF TypeOK
<1>2. ASSUME Load(input), input.src # None, input.view # None, imageRef' = imageRef,
             UNCHANGED <<preview, panel, input, changes>>
      PROVE  Loads
  <2>1. CASE imageRef = input.src
    <3>1. run' = [Idle(input) EXCEPT !.at = "over"] /\ decoded' = input.src /\ sample' \in Analyzed(input)
      BY <1>2, <2>1 DEF Load
    <3>2. run' \in Runs /\ run'.of = input /\ run'.at = "over" /\ run'.timer = FALSE
      BY <1>1, <3>1 DEF Idle, Runs
    <3> QED BY <1>1, <1>2, <3>1, <3>2, ResultTypes DEF Loads
  <2>2. CASE imageRef # input.src
    <3>1. run' = [Idle(input) EXCEPT !.at = "loading"] /\ UNCHANGED <<decoded, sample>>
      BY <1>2, <2>2 DEF Load
    <3>2. run' \in Runs /\ run'.of = input /\ run'.at = "loading" /\ run'.timer = FALSE
      BY <1>1, <3>1 DEF Idle, Runs
    <3> QED BY <1>2, <3>1, <3>2 DEF Loads
  <2> QED BY <2>1, <2>2
<1>3. CASE RunEffect
  <2>1. CASE None \in {input.src, input.view}
    <3>1. run' = Idle(input)
      BY <1>3, <2>1 DEF RunEffect
    <3>2. run' \in Runs /\ run'.of = input /\ run'.at = "none" /\ run'.timer = FALSE
      BY <1>1, <3>1 DEF Idle, Runs
    <3> QED BY <1>3, <2>1, <3>2 DEF RunEffect, Loads
  <2>2. CASE None \notin {input.src, input.view} /\ preview
    <3>1. run' = [Idle(input) EXCEPT !.at = "settling"]
      BY <1>3, <2>2 DEF RunEffect
    <3>2. run' \in Runs /\ run'.of = input /\ run'.at = "settling" /\ run'.timer = FALSE
      BY <1>1, <3>1 DEF Idle, Runs
    <3> QED BY <1>3, <2>2, <3>2 DEF RunEffect, Loads
  <2>3. CASE None \notin {input.src, input.view} /\ ~preview
    BY <1>2, <1>3, <2>3 DEF RunEffect
  <2> QED BY <1>3, <2>1, <2>2, <2>3 DEF RunEffect
<1>4. CASE Settled
  BY <1>2, <1>4 DEF Settled, Continue, Loading
<1>5. ASSUME Continue
      PROVE  /\ run.of = input /\ UNCHANGED <<preview, panel, input, changes>>
             /\ run.at # "none" => input.src # None /\ input.view # None
             /\ run.at = "sampling" => decoded = input.src
             /\ run.timer => run.at = "sampling"
  BY <1>5 DEF Continue, Loading, TypeOK
<1>6. CASE DisplayLoaded
  <2>1. /\ Continue /\ run.at = "loading" /\ UNCHANGED <<decoded, imageRef>>
        /\ sample' = sample \/ sample' = Broken(run.of)
        /\ \/ run' = [run EXCEPT !.at = "over"]
           \/ run' = [run EXCEPT !.at = "decoding"]
           \/ run' = [run EXCEPT !.at = "over", !.failed = TRUE]
    BY <1>6 DEF DisplayLoaded
  <2>2. run' \in Runs /\ run'.of = run.of /\ run'.at \in {"over", "decoding"} /\ run'.timer = run.timer
    BY <1>1, <2>1 DEF Runs
  <2> QED BY <1>1, <1>5, <1>6, <2>1, <2>2, ResultTypes DEF Loads, DisplayLoaded
<1>7. CASE DisplayError
  <2>1. run' \in Runs /\ run'.of = run.of /\ run'.at = "over" /\ run'.timer = run.timer
    BY <1>1, <1>7 DEF DisplayError, Runs
  <2> QED BY <1>1, <1>5, <1>7, <2>1, ResultTypes DEF Loads, DisplayError
<1>8. CASE DisplayTimeout
  <2>1. run' \in Runs /\ run'.of = run.of /\ run'.at = run.at /\ run'.timer = run.timer
    BY <1>1, <1>8 DEF DisplayTimeout, Runs
  <2> QED BY <1>1, <1>5, <1>8, <2>1, ResultTypes DEF Loads, DisplayTimeout
<1>9. CASE Decoded
  <2>1. CASE run.failed
    <3>1. run' \in Runs /\ run'.of = run.of /\ run'.at = "over" /\ run'.timer = run.timer
      BY <1>1, <1>9, <2>1 DEF Decoded, Runs
    <3> QED BY <1>1, <1>5, <1>9, <2>1, <3>1 DEF Loads, Decoded
  <2>2. CASE ~run.failed
    <3>1. run' \in Runs /\ run'.of = run.of /\ run'.at = "sampling" /\ run'.timer
      BY <1>1, <1>9, <2>2 DEF Decoded, Runs
    <3> QED BY <1>1, <1>5, <1>9, <2>2, <3>1 DEF Loads, Decoded
  <2> QED BY <2>1, <2>2
<1>10. CASE AnalysisTimeout
  <2>1. run' \in Runs /\ run'.of = run.of /\ run'.at = run.at /\ ~run'.timer
    BY <1>1, <1>10 DEF AnalysisTimeout, Runs
  <2> QED BY <1>1, <1>5, <1>10, <2>1, ResultTypes DEF Loads, AnalysisTimeout
<1>11. CASE Sampled
  <2>1. run' \in Runs /\ run'.of = run.of /\ run'.at = "over" /\ ~run'.timer
    BY <1>1, <1>11 DEF Sampled, Runs
  <2> QED BY <1>1, <1>5, <1>11, <2>1, ResultTypes DEF Loads, Sampled
<1>12. CASE SampleError
  <2>1. run' \in Runs /\ run'.of = run.of /\ run'.at = "over" /\ ~run'.timer
    BY <1>1, <1>12 DEF SampleError, Runs
  <2> QED BY <1>1, <1>5, <1>12, <2>1, ResultTypes DEF Loads, SampleError
<1>13. Render
  BY DEF RunEffect, Settled, DisplayLoaded, DisplayError, DisplayTimeout, Decoded, AnalysisTimeout,
         Sampled, SampleError
<1> QED BY <1>3, <1>4, <1>6, <1>7, <1>8, <1>9, <1>10, <1>11, <1>12, <1>13

\* Every other step is of the second kind.
LEMMA PageSteps ==
  ASSUME TypeOK,
         PanelArrives \/ PanelRefused \/ PanelBack \/ Measure \/ Resize \/ Change
  PROVE  Changes /\ Render
<1>1. input \in Inputs /\ changes \in 0..MaxChanges /\ MaxChanges \in Nat
  BY DEF TypeOK
<1>2. \A v \in Views : /\ [input EXCEPT !.view = v] \in Inputs
                       /\ Protection([input EXCEPT !.view = v]) = Protection(input)
  BY <1>1 DEF Inputs, Protection
<1>3. CASE PanelArrives
  BY <1>1, <1>3 DEF PanelArrives, Rerender, Changes
<1>4. CASE PanelRefused
  BY <1>1, <1>4 DEF PanelRefused, Changes
<1>5. CASE PanelBack
  BY <1>1, <1>5 DEF PanelBack, Rerender, Changes
<1>6. CASE Measure
  <2>1. PICK v \in Views : Rerender([input EXCEPT !.view = v])
    BY <1>6 DEF Measure
  <2> QED BY <1>1, <1>2, <1>6, <2>1 DEF Measure, Rerender, Changes, TypeOK
<1>7. CASE Resize
  <2>1. PICK v \in Views : Rerender([input EXCEPT !.view = v])
    BY <1>7 DEF Resize
  <2>2. changes' \in 0..MaxChanges /\ panel' = panel /\ Render
    BY <1>1, <1>7 DEF Resize
  <2> QED BY <1>1, <1>2, <2>1, <2>2 DEF Rerender, Changes, TypeOK
<1>8. CASE Change
  BY <1>1, <1>8 DEF Change, Rerender, Changes
<1> QED BY <1>3, <1>4, <1>5, <1>6, <1>7, <1>8

-----------------------------------------------------------------------------
(***************************************************************************)
(* The invariant is kept.                                                  *)
(***************************************************************************)
\* The types of what a render looks at.
Rendered == preview \in BOOLEAN /\ input \in Inputs /\ sample \in Samples \cup {None}

\* A decoded image that has a result of its own, or needs none, is shown by the page
\* and counts as seen.
LEMMA ShownWith ==
  ASSUME Rendered', Render, panel' = "shown", input'.src # None, decoded' = input'.src,
         sample' # None, sample'.status # "error", sample'.key.src = input'.src
  PROVE  Shows' /\ input'.src \in seen'
<1>1. /\ Appearance'.status \notin {"none", "error"}
      /\ DisplayReady'
  <2>1. DisplayReady'
    BY DEF DisplayReady
  <2>2. Appearance'.status \notin {"none", "error"}
    <3>1. sample' \in Samples /\ sample'.status # "none"
      BY DEF Rendered, Samples
    <3> QED BY <3>1, AppearanceIs, AppearanceCases DEF Rendered
  <2> QED BY <2>1, <2>2
<1>2. Presentable' /\ presented'
  BY <1>1 DEF Presentable, Render
<1>3. Shows'
  BY <1>1, <1>2 DEF Shows
<1> QED BY <1>3 DEF Render

\* Only an image is seen, or gets a result.
LEMMA SeenTypes ==
  ASSUME TypeOK, Rendered', Render, sample' = sample \/ sample'.key.src \in Srcs
  PROVE  presented' \in BOOLEAN /\ seen' \subseteq Srcs /\ behind' \subseteq Srcs
<1>1. presented' \in BOOLEAN
  BY DEF Render, Presentable, TypeOK
<1>2. Shows' => input'.src \in Srcs
  <2>1. Shows' => Appearance'.status # "none"
    BY DEF Shows
  <2>2. input'.src = None => Appearance'.status = "none"
    BY AppearanceIs, AppearanceCases DEF Rendered
  <2> QED BY <2>1, <2>2 DEF Rendered, Inputs
<1> QED BY <1>1, <1>2 DEF Render, TypeOK

\* The effect keeps the invariant: a result that unveils an image shows it, or is
\* hidden with the page.
LEMMA LoadsKeep ==
  ASSUME Masked, Loads, Render
  PROVE  Masked'
<1>1. Rendered' /\ input.src \in Srcs \cup {None}
  BY DEF Masked, TypeOK, Loads, Rendered, Inputs
<1>2. TypeOK'
  <2>1. sample' = sample \/ sample'.key.src \in Srcs
    BY <1>1 DEF Loads
  <2> QED BY <1>1, <2>1, SeenTypes DEF Masked, TypeOK, Loads
<1>3. Loading' /\ Waiting'
  BY DEF Masked, Loading, Waiting, Loads
<1>4. Unveiled'
  <2>1. CASE sample' = sample
    <3>1. seen \subseteq seen' /\ behind \subseteq behind'
      BY DEF Render
    <3> QED BY <2>1, <3>1 DEF Masked, Unveiled, Loads
  <2>2. CASE /\ sample' # sample
             /\ sample' \in Samples /\ sample'.key = input /\ input.src # None
             /\ sample'.status # "error" => decoded' = input.src
    <3> SUFFICES ASSUME sample'.status # "error"
                 PROVE  Unveiled'
      BY DEF Unveiled
    <3>1. UNCHANGED <<panel, input>> /\ panel \in {"shown", "refused"}
      BY <2>2 DEF Loads, Masked, Waiting, TypeOK
    <3>2. CASE panel = "refused"
      BY <2>2, <3>1, <3>2 DEF Unveiled, Render
    <3>3. CASE panel = "shown"
      BY <1>1, <2>2, <3>1, <3>3, ShownWith DEF Unveiled
    <3> QED BY <3>1, <3>2, <3>3
  <2> QED BY <2>1, <2>2 DEF Loads
<1> QED BY <1>2, <1>3, <1>4 DEF Masked

\* A change keeps it: it brings no result.
LEMMA ChangesKeep ==
  ASSUME Masked, Changes, Render
  PROVE  Masked'
<1>1. Rendered' /\ UNCHANGED <<preview, run, decoded, imageRef, sample>>
  BY DEF Masked, TypeOK, Changes, Rendered, loads
<1>2. TypeOK'
  BY <1>1, SeenTypes DEF Masked, TypeOK, Changes
<1>3. Protection(input') = Protection(input) => input'.src = input.src
  BY DEF Protection
<1>4. Loading' /\ Waiting'
  BY <1>1, <1>3 DEF Masked, Loading, Waiting, Changes
<1>5. Unveiled'
  <2>1. seen \subseteq seen' /\ behind \subseteq behind'
    BY DEF Render
  <2> QED BY <1>1, <2>1 DEF Masked, Unveiled
<1> QED BY <1>2, <1>4, <1>5 DEF Masked

\* Every step is of the effect, of the page, or none.
LEMMA NextSteps ==
  ASSUME Masked, [Next]_vars
  PROVE  ((Loads \/ Changes) /\ Render) \/ UNCHANGED vars
BY EffectSteps, PageSteps DEF Masked, Next

\* Every step keeps what is bare hidden.
LEMMA MaskedStep ==
  ASSUME Masked, [Next]_vars
  PROVE  Masked'
<1>1. CASE UNCHANGED vars
  BY <1>1 DEF vars, loads, screen, Masked, TypeOK, Loading, Waiting, Unveiled
<1> QED BY <1>1, NextSteps, LoadsKeep, ChangesKeep

\* Nothing is shown or measured at first.
LEMMA MaskedInit ==
  ASSUME Init
  PROVE  Masked
<1>1. input \in Inputs
  <2>1. CASE preview
    BY <2>1 DEF Init
  <2>2. CASE ~preview
    <3>1. PICK l \in Looks : input = [src |-> None, look |-> l, auto |-> FALSE, view |-> None,
                                     ink |-> Default]
      BY <2>2 DEF Init
    <3> QED BY <3>1 DEF Inputs
  <2> QED BY <2>1, <2>2
<1>2. run \in Runs /\ run.at = "none" /\ run.timer = FALSE
  BY <1>1 DEF Init, Idle, Runs
<1>3. TypeOK
  BY <1>1, <1>2 DEF Init, TypeOK
<1>4. panel = "pending" => input.src = None
  BY DEF Init
<1> QED BY <1>2, <1>3, <1>4 DEF Init, Masked, Loading, Waiting, Unveiled

\* The inductive invariant: an image whose load did not fail has a result only once
\* it is shown, or while the page is refused.
THEOREM MaskedInvariant == Spec => []Masked
BY MaskedInit, MaskedStep, PTL DEF Spec

\* Every variable has the values the hook can give it; only a load that has decoded
\* its image is being sampled, and only then can its timer be armed.
THEOREM TypeCorrect == Spec => []TypeOK
<1>1. Masked => TypeOK
  BY DEF Masked
<1> QED BY <1>1, MaskedInvariant, PTL

-----------------------------------------------------------------------------
(***************************************************************************)
(* What may be shown.                                                      *)
(***************************************************************************)
\* With automatic contrast, an image that is on the home page for the first time has
\* its veil or the fallback (useWallpaperAppearance, displayReady), unless the last
\* load of it failed, or it got its result behind a page that was refused: whatever
\* settings the page comes back with, and in whatever order.
THEOREM VeilComesFirst == Spec => MaskComesFirst
<1> DEFINE Step ==
      ShownFirst =>
        \/ Protected'
        \/ /\ sample' # None /\ sample'.key.src = input'.src
           /\ sample'.status = "error" \/ input'.src \in behind
<1>1. ASSUME Masked, [Next]_vars, Masked'
      PROVE  [Step]_vars
  <2> SUFFICES ASSUME ~UNCHANGED vars, ~preview, Shows', input'.auto, input'.src \notin seen,
                      ~ /\ sample' # None /\ sample'.key.src = input'.src
                        /\ sample'.status = "error" \/ input'.src \in behind
               PROVE  Protected'
    BY DEF ShownFirst
  <2>1. Rendered' /\ preview' = preview /\ (Loads \/ Changes)
    <3>1. Loads \/ Changes
      BY <1>1, NextSteps
    <3> QED BY <1>1, <3>1 DEF Masked, TypeOK, Rendered, Loads, Changes
  <2>2. Appearance'.status # "none" /\ input'.src # None
    <3>1. Appearance'.status # "none"
      BY DEF Shows
    <3> QED BY <2>1, <3>1, AppearanceIs, AppearanceCases DEF Rendered
  <2>3. sample' # None /\ sample'.key.src = input'.src /\ sample'.status # "error"
    <3>1. CASE Appearance'.status # "loading"
      BY <2>1, <2>2, <3>1, AppearanceIs, AppearanceCases DEF Rendered
    <3>2. CASE Appearance'.status = "loading"
      BY <2>1, <3>2 DEF Shows, DisplayReady
    <3> QED BY <3>1, <3>2
  <2>4. Protection(sample'.key) = Protection(input')
    <3>1. sample' # sample
      <4>1. Unveiled
        BY <1>1 DEF Masked
      <4>2. input'.src \notin seen \cup behind
        BY <2>3
      <4>3. preview = FALSE
        BY <2>1, <1>1 DEF Masked, TypeOK
      <4> QED BY <2>3, <4>1, <4>2, <4>3 DEF Unveiled
    <3> QED BY <2>1, <3>1 DEF Loads, Changes, loads
  <2>5. Like(input', sample')
    BY <2>3, <2>4 DEF Like
  <2>6. Appearance'.veil = sample'.veil
    BY <2>1, <2>2, <2>5, AppearanceIs, AppearanceCases DEF Rendered
  <2> QED BY <2>3, <2>4, <2>6 DEF Protected
<1>2. Spec => [][Step]_vars
  BY <1>1, MaskedInvariant, PTL DEF Spec
<1> QED BY <1>2 DEF MaskComesFirst

\* An image that is analyzed again stays on the screen, and under the veil it has
\* (useWallpaperAppearance, the appearance while loading), until the new result.
THEOREM ReanalysisStays == Spec => ReanalysisKeepsTheImage
<1> DEFINE Again == Shows /\ decoded = input.src /\ Protection(input') = Protection(input)
                    /\ panel' = "shown" /\ (sample' # None => sample'.status # "error")
           Stays == /\ Shows'
                    /\ input.auto /\ ~preview /\ sample' = sample => Appearance'.veil = Appearance.veil
<1>1. ASSUME Masked, [Next]_vars, Masked'
      PROVE  [Again => Stays]_vars
  <2> SUFFICES ASSUME ~UNCHANGED vars, Again
               PROVE  Stays
    OBVIOUS
  <2>1. (Loads \/ Changes) /\ Render /\ Rendered /\ Rendered' /\ preview' = preview
    <3>1. (Loads \/ Changes) /\ Render
      BY <1>1, NextSteps
    <3> QED BY <1>1, <3>1 DEF Masked, TypeOK, Rendered, Loads, Changes
  <2>2. input'.src = input.src /\ input'.auto = input.auto /\ input'.ink = input.ink
    BY DEF Protection
  <2>3. presented /\ Appearance.status # "none" /\ Appearance.status # "error"
    BY DEF Shows
  <2>4. input.src # None
    BY <2>1, <2>3, AppearanceIs, AppearanceCases DEF Rendered
  <2>5. decoded' = input'.src
    BY <2>1, <2>2 DEF Loads, Changes, loads
  <2>6. sample' = sample \/ (sample' # None /\ sample'.key = input)
    BY <2>1 DEF Loads, Changes, loads
  <2>7. ~preview /\ input.auto => sample' # None /\ sample'.key.src = input.src
    <3> SUFFICES ASSUME ~preview, input.auto, sample' = sample
                 PROVE  sample # None /\ sample.key.src = input.src
      BY <2>6
    <3>1. CASE Appearance.status # "loading"
      BY <2>1, <2>4, <3>1, AppearanceIs, AppearanceCases DEF Rendered
    <3>2. CASE Appearance.status = "loading"
      BY <3>2 DEF Shows, DisplayReady
    <3> QED BY <3>1, <3>2
  <2>8. Shows'
    <3>1. preview' \/ DisplayReady'
      BY <2>1, <2>2, <2>5, <2>7 DEF DisplayReady
    <3>2. Appearance'.status \notin {"none", "error"}
      <4>1. input'.src # None
        BY <2>2, <2>4
      <4>2. sample' # None => sample' \in Samples /\ sample'.status # "none"
        BY <2>1 DEF Rendered, Samples
      <4> QED BY <2>1, <4>1, <4>2, AppearanceIs, AppearanceCases DEF Rendered
    <3>3. presented'
      BY <2>1, <2>3 DEF Render
    <3> QED BY <3>1, <3>2, <3>3 DEF Shows
  <2>9. ASSUME input.auto, ~preview, sample' = sample
        PROVE  Appearance'.veil = Appearance.veil
    <3>1. /\ sample # None => sample.status # "error"
          /\ Context(sample.key) = Context(input) => Protection(sample.key) = Protection(input)
          /\ Context(sample.key) = Context(input') => Protection(sample.key) = Protection(input')
      BY <2>9 DEF Context, Protection
    <3>2. Like(input, sample) <=> sample # None /\ Protection(sample.key) = Protection(input)
      BY <2>9, <3>1 DEF Like
    <3>3. Like(input', sample) <=> sample # None /\ Protection(sample.key) = Protection(input')
      BY <2>2, <2>9, <3>1 DEF Like
    <3>4. Like(input, sample) <=> Like(input', sample)
      BY <3>2, <3>3
    <3> QED BY <2>1, <2>2, <2>4, <2>9, <3>4, AppearanceIs, AppearanceCases DEF Rendered
  <2> QED BY <2>8, <2>9
<1>2. Spec => [][Again => Stays]_vars
  BY <1>1, MaskedInvariant, PTL DEF Spec
<1> QED BY <1>2 DEF ReanalysisKeepsTheImage

\* The veil a result was measured to need makes the text readable, and is no stronger
\* than it has to be, for either kind of ink and any number of strengths
\* (requiredScrim, customInkScrim, classifyWallpaper).
THEOREM TheLeastVeil == Spec => []VeilIsLeast
<1>1. VeilIsLeast
  BY PresetsAreLeast, CustomsHelp DEF VeilIsLeast
<1> QED BY <1>1, PTL
=============================================================================
