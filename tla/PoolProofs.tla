------------------------------- MODULE PoolProofs -------------------------------
(***************************************************************************)
(* Facts about the free list of TPool, stated for the values of its        *)
(* variables so that every user of a pool can cite them.                   *)
(***************************************************************************)
EXTENDS Naturals, Sequences, FiniteSets, FiniteSetTheorems, TLAPS

\* The free list l, the units u in use and the m units made: no unit is listed
\* twice, and the free ones are those that are not in use.
Sound(l, u, m) ==
    /\ m \in Nat /\ l \in Seq(1 .. m) /\ u \subseteq 1 .. m
    /\ \A j, k \in DOMAIN l : l[j] = l[k] => j = k
    /\ {l[k] : k \in DOMAIN l} = (1 .. m) \ u
    /\ Len(l) + Cardinality(u) = m

\* What AllocNewBlob adds, and what the constructor leaves.
NewUnits(m, b) == [k \in 1 .. b |-> m + k]

\* A block of new units is a sound pool beside those that are all in use
\* (TPool.h 40-49, 107-128).
LEMMA BlockSound ==
    ASSUME NEW m \in Nat, NEW b \in Nat, NEW u, u = 1 .. m, Cardinality(u) = m
    PROVE  Sound(NewUnits(m, b), u, m + b)
<1> DEFINE l == NewUnits(m, b)
<1>1. /\ DOMAIN l = 1 .. b /\ \A k \in 1 .. b : l[k] = m + k
  BY DEF NewUnits
<1>2. l \in Seq(1 .. m + b) /\ Len(l) = b
  <2>1. l \in [1 .. b -> 1 .. m + b]
    BY DEF NewUnits
  <2> QED BY <2>1
<1>3. \A j, k \in DOMAIN l : l[j] = l[k] => j = k
  BY <1>1
<1>4. {l[k] : k \in DOMAIN l} = (1 .. m + b) \ u
  <2>1. ASSUME NEW x \in {l[k] : k \in DOMAIN l} PROVE x \in (1 .. m + b) \ u
    BY <1>1
  <2>2. ASSUME NEW x \in (1 .. m + b) \ u PROVE x \in {l[k] : k \in DOMAIN l}
    <3>1. x - m \in 1 .. b /\ l[x - m] = x
      BY <1>1
    <3> QED BY <3>1, <1>1
  <2> QED BY <2>1, <2>2
<1> HIDE DEF l
<1>5. u \subseteq 1 .. m + b /\ m + b \in Nat
  OBVIOUS
<1> QED BY <1>2, <1>3, <1>4, <1>5 DEF Sound, l

\* Create takes a unit that was free, and leaves a sound pool (TPool.h 51-69).
LEMMA TakeSound ==
    ASSUME NEW l, NEW u, NEW m, Sound(l, u, m), l # <<>>
    PROVE  /\ Head(l) \in (1 .. m) \ u
           /\ Sound(Tail(l), u \cup {Head(l)}, m)
<1> DEFINE x == Head(l)  t == Tail(l)
<1> USE DEF Sound
<1>0. /\ m \in Nat /\ l \in Seq(1 .. m) /\ u \subseteq 1 .. m
      /\ \A j, k \in DOMAIN l : l[j] = l[k] => j = k
      /\ {l[k] : k \in DOMAIN l} = (1 .. m) \ u
      /\ Len(l) + Cardinality(u) = m
  OBVIOUS
<1>1. /\ Len(l) \in Nat \ {0} /\ DOMAIN l = 1 .. Len(l)
      /\ x = l[1] /\ t \in Seq(1 .. m) /\ Len(t) = Len(l) - 1 /\ DOMAIN t = 1 .. Len(l) - 1
      /\ \A k \in 1 .. Len(l) - 1 : t[k] = l[k + 1]
  BY <1>0
<1> HIDE DEF x, t, Sound
<1>2. x \in (1 .. m) \ u
  <2>1. 1 \in DOMAIN l
    BY <1>1
  <2> QED BY <1>0, <1>1, <2>1
<1>3. ASSUME NEW j \in DOMAIN t, NEW k \in DOMAIN t, t[j] = t[k]
      PROVE  j = k
  <2>1. /\ j + 1 \in DOMAIN l /\ k + 1 \in DOMAIN l /\ l[j + 1] = l[k + 1]
        /\ j \in Int /\ k \in Int
    BY <1>1, <1>3
  <2>2. j + 1 = k + 1
    BY <1>0, <2>1
  <2> QED BY <2>1, <2>2
<1>4. {t[k] : k \in DOMAIN t} = (1 .. m) \ (u \cup {x})
  <2>1. ASSUME NEW k \in DOMAIN t PROVE t[k] \in (1 .. m) \ (u \cup {x})
    <3>1. k + 1 \in DOMAIN l /\ 1 \in DOMAIN l /\ k + 1 # 1 /\ t[k] = l[k + 1]
      BY <1>1, <2>1
    <3>2. l[k + 1] # l[1] /\ l[k + 1] \in (1 .. m) \ u
      BY <3>1, <1>0
    <3> QED BY <3>1, <3>2, <1>1
  <2>2. ASSUME NEW y \in (1 .. m) \ (u \cup {x}) PROVE y \in {t[k] : k \in DOMAIN t}
    <3>1. PICK k \in DOMAIN l : y = l[k]
      BY <1>0
    <3>2. k - 1 \in DOMAIN t /\ t[k - 1] = y
      BY <3>1, <1>1, <2>2
    <3> QED BY <3>2
  <2> QED BY <2>1, <2>2
<1>5. IsFiniteSet(u)
  <2>1. IsFiniteSet(1 .. m)
    BY <1>0, FS_Interval
  <2>2. u \in SUBSET (1 .. m)
    BY <1>0
  <2> QED BY <2>1, <2>2, FS_Subset
<1>6. Cardinality(u \cup {x}) = Cardinality(u) + 1 /\ Cardinality(u) \in Nat
  BY <1>2, <1>5, FS_AddElement, FS_CardinalityType
<1>7. u \cup {x} \subseteq 1 .. m
  BY <1>0, <1>2
<1>8. Len(t) + Cardinality(u \cup {x}) = m
  BY <1>0, <1>1, <1>6
<1>9. Sound(t, u \cup {x}, m)
  BY <1>0, <1>1, <1>3, <1>4, <1>7, <1>8 DEF Sound
<1> QED BY <1>2, <1>9 DEF x, t

\* Create on a pool that may have run out (TPool.h 51-69).
LEMMA CreateSound ==
    ASSUME NEW l, NEW u, NEW m, Sound(l, u, m), NEW b \in Nat \ {0},
           NEW s, s = IF l = <<>> THEN NewUnits(m, b) ELSE l,
           NEW n, n = IF l = <<>> THEN m + b ELSE m
    PROVE  /\ Head(s) \in (1 .. n) \ u
           /\ Sound(Tail(s), u \cup {Head(s)}, n)
<1>1. CASE l = <<>>
  <2>1. m \in Nat /\ u = 1 .. m /\ Cardinality(u) = m
    <3>1. /\ m \in Nat /\ u \subseteq 1 .. m /\ Len(l) = 0
          /\ {l[k] : k \in DOMAIN l} = (1 .. m) \ u /\ Len(l) + Cardinality(u) = m
      BY <1>1 DEF Sound
    <3>2. {l[k] : k \in DOMAIN l} = {}
      BY <1>1
    <3>3. IsFiniteSet(u)
      <4>1. IsFiniteSet(1 .. m) /\ u \in SUBSET (1 .. m)
        BY <3>1, FS_Interval
      <4> QED BY <4>1, FS_Subset
    <3>4. Cardinality(u) \in Nat
      BY <3>3, FS_CardinalityType
    <3>5. u = 1 .. m
      BY <3>1, <3>2
    <3> QED BY <3>1, <3>4, <3>5
  <2>2. Sound(NewUnits(m, b), u, m + b)
    BY <2>1, BlockSound
  <2>3. s # <<>>
    BY <1>1 DEF NewUnits
  <2> QED BY <1>1, <2>2, <2>3, TakeSound
<1>2. CASE l # <<>>
  BY <1>2, TakeSound
<1> QED BY <1>1, <1>2

\* Recover makes a unit in use free again (TPool.h 71-90).
LEMMA ReturnSound ==
    ASSUME NEW l, NEW u, NEW m, Sound(l, u, m), NEW x \in u
    PROVE  Sound(Append(l, x), u \ {x}, m)
<1> DEFINE a == Append(l, x)
<1>0. /\ m \in Nat /\ l \in Seq(1 .. m) /\ u \subseteq 1 .. m
      /\ \A j, k \in DOMAIN l : l[j] = l[k] => j = k
      /\ {l[k] : k \in DOMAIN l} = (1 .. m) \ u
      /\ Len(l) + Cardinality(u) = m
  BY DEF Sound
<1>1. /\ Len(l) \in Nat /\ DOMAIN l = 1 .. Len(l)
      /\ a \in Seq(1 .. m) /\ Len(a) = Len(l) + 1 /\ DOMAIN a = 1 .. Len(l) + 1
      /\ a[Len(l) + 1] = x /\ \A k \in 1 .. Len(l) : a[k] = l[k]
  BY <1>0
<1> HIDE DEF a
<1>2. \A k \in DOMAIN l : l[k] # x
  BY <1>0
<1>3. ASSUME NEW j \in DOMAIN a, NEW k \in DOMAIN a, a[j] = a[k]
      PROVE  j = k
  <2>1. CASE j \in DOMAIN l /\ k \in DOMAIN l
    BY <2>1, <1>0, <1>1, <1>3
  <2>2. CASE j \notin DOMAIN l
    BY <2>2, <1>1, <1>2, <1>3
  <2>3. CASE k \notin DOMAIN l
    BY <2>3, <1>1, <1>2, <1>3
  <2> QED BY <2>1, <2>2, <2>3
<1>4. {a[k] : k \in DOMAIN a} = (1 .. m) \ (u \ {x})
  <2>1. ASSUME NEW k \in DOMAIN a PROVE a[k] \in (1 .. m) \ (u \ {x})
    <3>1. CASE k = Len(l) + 1
      BY <3>1, <1>0, <1>1
    <3>2. CASE k \in DOMAIN l
      <4>1. l[k] \in (1 .. m) \ u /\ a[k] = l[k]
        BY <3>2, <1>0, <1>1
      <4> QED BY <4>1
    <3> QED BY <3>1, <3>2, <1>1, <2>1
  <2>2. ASSUME NEW y \in (1 .. m) \ (u \ {x}) PROVE y \in {a[k] : k \in DOMAIN a}
    <3>1. CASE y = x
      BY <3>1, <1>1
    <3>2. CASE y # x
      <4>1. PICK k \in DOMAIN l : y = l[k]
        BY <3>2, <1>0
      <4> QED BY <4>1, <1>1
    <3> QED BY <3>1, <3>2
  <2> QED BY <2>1, <2>2
<1>5. IsFiniteSet(u)
  <2>1. IsFiniteSet(1 .. m)
    BY <1>0, FS_Interval
  <2>2. u \in SUBSET (1 .. m)
    BY <1>0
  <2> QED BY <2>1, <2>2, FS_Subset
<1>6. Cardinality(u \ {x}) = Cardinality(u) - 1 /\ Cardinality(u) \in Nat
  BY <1>5, FS_RemoveElement, FS_CardinalityType
<1>7. Len(a) + Cardinality(u \ {x}) = m
  BY <1>0, <1>1, <1>6
<1> QED BY <1>0, <1>1, <1>3, <1>4, <1>7 DEF Sound, a
=============================================================================
