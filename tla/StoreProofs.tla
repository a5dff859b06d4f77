------------------------------ MODULE StoreProofs ------------------------------
(***************************************************************************)
(* Proofs about modules that MCChannels composes: a route (Waypoints), the *)
(* reassembly of AIS messages (VdmDecoder) and the channels, filters and   *)
(* libraries of c_aws (Registry), for all their constants.                 *)
(***************************************************************************)
EXTENDS Waypoints, VdmDecoder, Registry, LogFiles, FiniteSetTheorems, SequenceTheorems, WellFoundedInduction, TLAPS

\* The library states induction with operators, well-foundedness with sets.
LEMMA LeastNatural ==
  ASSUME NEW T, T \subseteq Nat, T # {}
  PROVE  \E m \in T : \A n \in T : m <= n
<1>1. PICK m \in T : \A n \in T : ~ (<<n, m>> \in OpToRel(<, Nat))
  BY NatLessThanWellFounded, WFMin, Zenon
<1>2. ASSUME NEW n \in T PROVE m <= n
  <2>1. ~(n < m)
    BY <1>1, Zenon DEF OpToRel
  <2> QED
    BY <2>1
<1> QED
  BY <1>2

LEMMA ReverseIs ==
  ASSUME NEW S, NEW s \in Seq(S)
  PROVE  /\ Reverse(s) \in Seq(S)
         /\ Len(Reverse(s)) = Len(s)
         /\ \A i \in 1..Len(s) : Reverse(s)[i] = s[(Len(s) - i) + 1]
<1>1. Len(s) \in Nat
  OBVIOUS
<1>2. Reverse(s) \in [1..Len(s) -> S]
  BY DEF Reverse
<1> QED
  BY <1>1, <1>2 DEF Reverse

LEMMA InsertIs ==
  ASSUME NEW S, NEW s \in Seq(S), NEW k \in 1..Len(s)+1, NEW p \in S
  PROVE  /\ InsertAt(s, k, p) \in Seq(S)
         /\ Len(InsertAt(s, k, p)) = Len(s) + 1
         /\ \A i \in 1..Len(s)+1 :
              InsertAt(s, k, p)[i] = IF i < k THEN s[i] ELSE IF i = k THEN p ELSE s[i - 1]
<1> DEFINE a == SubSeq(s, 1, k - 1)
           b == SubSeq(s, k, Len(s))
           ap == a \o <<p>>
<1>1. Len(s) \in Nat /\ k \in Nat /\ k >= 1 /\ k <= Len(s) + 1
  OBVIOUS
<1>2. a \in Seq(S) /\ Len(a) = k - 1 /\ \A i \in 1..k-1 : a[i] = s[i]
  <2>1. \A i \in 1..k-1 : s[i] \in S /\ 1 + i - 1 = i
    BY <1>1
  <2> QED
    BY <1>1, <2>1, SubSeqProperties
<1>3. b \in Seq(S) /\ Len(b) = Len(s) - k + 1 /\ \A i \in 1..Len(s)-k+1 : b[i] = s[k + i - 1]
  <2>1. \A i \in k..Len(s) : s[i] \in S
    BY <1>1
  <2>2. /\ b \in Seq(S) /\ Len(b) = IF k <= Len(s) THEN Len(s) - k + 1 ELSE 0
        /\ \A i \in 1..Len(s)-k+1 : b[i] = s[k + i - 1]
    BY <1>1, <2>1, SubSeqProperties
  <2> QED
    BY <1>1, <2>2
<1>4. <<p>> \in Seq(S) /\ Len(<<p>>) = 1 /\ <<p>>[1] = p
  OBVIOUS
<1> HIDE DEF a, b
<1>5. /\ ap \in Seq(S) /\ Len(ap) = k
      /\ \A i \in 1..k : ap[i] = IF i < k THEN s[i] ELSE p
  <2>1. /\ ap \in Seq(S) /\ Len(ap) = Len(a) + Len(<<p>>)
        /\ \A i \in 1..Len(a)+Len(<<p>>) : ap[i] = IF i <= Len(a) THEN a[i] ELSE <<p>>[i - Len(a)]
    BY <1>2, <1>4, ConcatProperties
  <2> QED
    BY <1>1, <1>2, <1>4, <2>1
<1> HIDE DEF ap
<1>6. /\ ap \o b \in Seq(S) /\ Len(ap \o b) = Len(ap) + Len(b)
      /\ \A i \in 1..Len(ap)+Len(b) : (ap \o b)[i] = IF i <= Len(ap) THEN ap[i] ELSE b[i - Len(ap)]
  BY <1>3, <1>5, ConcatProperties
<1>7. InsertAt(s, k, p) = ap \o b
  BY DEF InsertAt, ap, a, b
<1>8. Len(ap) + Len(b) = Len(s) + 1
  BY <1>1, <1>3, <1>5
<1>9. ASSUME NEW i \in 1..Len(s)+1
      PROVE  (ap \o b)[i] = IF i < k THEN s[i] ELSE IF i = k THEN p ELSE s[i - 1]
  <2>1. CASE i <= k
    BY <1>1, <1>5, <1>6, <1>8, <2>1
  <2>2. CASE ~(i <= k)
    <3>1. i - k \in 1..Len(s)-k+1 /\ k + (i - k) - 1 = i - 1
      BY <1>1, <2>2
    <3>2. b[i - k] = s[i - 1]
      BY <1>3, <3>1
    <3> QED
      BY <1>1, <1>5, <1>6, <1>8, <2>2, <3>2
  <2> QED
    BY <2>1, <2>2
<1> QED
  BY <1>6, <1>7, <1>8, <1>9

LEMMA RemoveIs ==
  ASSUME NEW S, NEW s \in Seq(S), NEW k \in 1..Len(s)
  PROVE  /\ RemoveAt(s, k) \in Seq(S)
         /\ Len(RemoveAt(s, k)) = Len(s) - 1
         /\ \A i \in 1..Len(s)-1 : RemoveAt(s, k)[i] = IF i < k THEN s[i] ELSE s[i + 1]
<1> DEFINE a == SubSeq(s, 1, k - 1)
           b == SubSeq(s, k + 1, Len(s))
<1>1. Len(s) \in Nat /\ k \in Nat /\ k >= 1 /\ k <= Len(s)
  OBVIOUS
<1>2. a \in Seq(S) /\ Len(a) = k - 1 /\ \A i \in 1..k-1 : a[i] = s[i]
  <2>1. \A i \in 1..k-1 : s[i] \in S /\ 1 + i - 1 = i
    BY <1>1
  <2> QED
    BY <1>1, <2>1, SubSeqProperties
<1>3. b \in Seq(S) /\ Len(b) = Len(s) - k /\ \A i \in 1..Len(s)-k : b[i] = s[k + i]
  <2>1. \A i \in k+1..Len(s) : s[i] \in S
    BY <1>1
  <2>2. /\ b \in Seq(S) /\ Len(b) = IF k + 1 <= Len(s) THEN Len(s) - (k + 1) + 1 ELSE 0
        /\ \A i \in 1..Len(s)-(k+1)+1 : b[i] = s[(k + 1) + i - 1]
    BY <1>1, <2>1, SubSeqProperties
  <2> QED
    BY <1>1, <2>2
<1> HIDE DEF a, b
<1>4. /\ a \o b \in Seq(S) /\ Len(a \o b) = Len(a) + Len(b)
      /\ \A i \in 1..Len(a)+Len(b) : (a \o b)[i] = IF i <= Len(a) THEN a[i] ELSE b[i - Len(a)]
  BY <1>2, <1>3, ConcatProperties
<1>5. RemoveAt(s, k) = a \o b
  BY DEF RemoveAt, a, b
<1>6. Len(a) + Len(b) = Len(s) - 1
  BY <1>1, <1>2, <1>3
<1>7. ASSUME NEW i \in 1..Len(s)-1 PROVE (a \o b)[i] = IF i < k THEN s[i] ELSE s[i + 1]
  <2>1. CASE i < k
    BY <1>1, <1>2, <1>4, <1>6, <2>1
  <2>2. CASE ~(i < k)
    <3>1. i - (k - 1) \in 1..Len(s)-k /\ k + (i - (k - 1)) = i + 1 /\ ~(i <= k - 1)
      BY <1>1, <2>2
    <3>2. b[i - (k - 1)] = s[i + 1]
      BY <1>3, <3>1
    <3> QED
      BY <1>2, <1>4, <1>6, <2>2, <3>1, <3>2
  <2> QED
    BY <2>1, <2>2
<1> QED
  BY <1>4, <1>5, <1>6, <1>7

-----------------------------------------------------------------------------
(* Iterators and indexes *)

Distinct(s) == \A i, j \in 1..Len(s) : s[i] = s[j] => i = j

\* An index and the iterator that is at it mean the same.
LEMMA IdxOfAt ==
  ASSUME RouteSizes, NEW s \in Seq(Points), Distinct(s), NEW i \in 0..Len(s)
  PROVE  /\ At(s, i) = End <=> i = Len(s)
         /\ At(s, i) \in Range(s) \cup {End}
         /\ Idx(s, At(s, i)) = i
         /\ i < Len(s) => Inc(s, At(s, i)) = At(s, i + 1)
         /\ i = Len(s) => Inc(s, At(s, i)) = End
<1>0. Len(s) \in Nat /\ i \in Nat /\ i <= Len(s)
  OBVIOUS
<1>1. Len(s) \in Nat /\ DOMAIN s = 1..Len(s) /\ \A j \in 1..Len(s) : s[j] \in Points
  OBVIOUS
<1>2. CASE i = Len(s)
  <2>1. At(s, i) = End
    BY <1>1, <1>2 DEF At
  <2>2. Idx(s, End) = i
    BY <1>2 DEF Idx
  <2>3. At(s, i + 1) = End
    BY <1>1, <1>2 DEF At
  <2> QED
    BY <1>1, <1>2, <2>1, <2>2, <2>3 DEF Inc
<1>3. CASE i # Len(s)
  <2>1. i < Len(s) /\ i + 1 \in 1..Len(s)
    BY <1>0, <1>3
  <2>2. At(s, i) = s[i + 1] /\ s[i + 1] # End /\ s[i + 1] \in Range(s)
    BY <1>1, <2>1 DEF At, RouteSizes, Range
  <2>3. (CHOOSE j \in DOMAIN s : s[j] = s[i + 1]) = i + 1
    BY <1>1, <2>1 DEF Distinct
  <2>4. Idx(s, At(s, i)) = i
    <3>1. Idx(s, s[i + 1]) = (CHOOSE j \in DOMAIN s : s[j] = s[i + 1]) - 1
      BY <2>2, Zenon DEF Idx
    <3>2. (i + 1) - 1 = i
      BY <1>0
    <3>3. Idx(s, At(s, i)) = Idx(s, s[i + 1])
      BY <2>2, Zenon
    <3> QED
      BY <2>3, <3>1, <3>2, <3>3, Zenon
  <2> QED
    BY <1>3, <2>1, <2>2, <2>4 DEF Inc
<1> QED
  BY <1>2, <1>3

LEMMA AtDiffers ==
  ASSUME RouteSizes, NEW s \in Seq(Points), Distinct(s),
         NEW i \in 0..Len(s), NEW j \in 0..Len(s), At(s, i) = At(s, j)
  PROVE  i = j
  BY IdxOfAt

\* find_next() leaves nothing open behind it.
LEMMA FindsNext ==
  ASSUME NEW s \in Seq(Points), NEW a, find_next(s, a)
  PROVE  /\ inext' \in 0..Len(s)
         /\ itr_next' = At(s, inext') /\ itr' = At(s, inext')
         /\ \A i \in 1..inext' : s[i] \in a
<1> DEFINE open == {i \in 0..(Len(s) - 1) : s[i + 1] \notin a} \union {Len(s)}
<1>1. Len(s) \in Nat /\ open \subseteq 0..Len(s) /\ open \subseteq Nat /\ open # {}
  OBVIOUS
<1>2. \E i \in open : \A j \in open : i <= j
  BY <1>1, LeastNatural, Zenon
<1>3. /\ inext' = CHOOSE i \in open : \A j \in open : i <= j
      /\ itr_next' = At(s, inext') /\ itr' = At(s, inext')
  BY DEF find_next
<1>4. inext' \in open /\ \A j \in open : inext' <= j
  <2> HIDE DEF open
  <2> QED
    BY <1>2, <1>3
<1>5. ASSUME NEW i \in 1..inext', s[i] \notin a PROVE FALSE
  <2>1. i - 1 \in 0..(Len(s) - 1) /\ (i - 1) + 1 = i /\ ~(inext' <= i - 1)
    BY <1>1, <1>4
  <2>2. i - 1 \in open
    BY <1>5, <2>1
  <2> QED
    BY <1>4, <2>1, <2>2
<1> QED
  BY <1>1, <1>3, <1>4, <1>5

-----------------------------------------------------------------------------
(* The route *)

RouteInv ==
  /\ wps \in Seq(Points)
  /\ Distinct(wps)
  /\ focus \in 0..Len(wps) /\ itr_focus = At(wps, focus)
  /\ \E i \in 0..Len(wps) : itr = At(wps, i)
  /\ wps = <<>> => itr_next = End
  /\ wps # <<>> => /\ inext \in 0..Len(wps) /\ itr_next = At(wps, inext)
                  /\ \A i \in 1..inext : wps[i] \in arrived

LEMMA RouteInvInit == RouteInit => RouteInv
<1> SUFFICES ASSUME RouteInit PROVE RouteInv
  OBVIOUS
<1>1. wps = <<>> /\ Len(wps) = 0 /\ wps \in Seq(Points)
  BY DEF RouteInit
<1>2. At(wps, 0) = End /\ Distinct(wps)
  BY <1>1 DEF At, Distinct
<1> QED
  BY <1>1, <1>2 DEF RouteInit, RouteInv

\* What is left to show of an edit that ends with find_next().
LEMMA Edited ==
  ASSUME wps' \in Seq(Points), Distinct(wps)', find_next(wps', arrived'),
         focus' \in 0..Len(wps'), itr_focus' = At(wps', focus')
  PROVE  RouteInv'
<1>1. /\ inext' \in 0..Len(wps')
      /\ itr_next' = At(wps', inext') /\ itr' = At(wps', inext')
      /\ \A i \in 1..inext' : wps'[i] \in arrived'
  BY FindsNext
<1>2. wps' = <<>> => At(wps', inext') = End
  BY <1>1 DEF At
<1> QED
  BY <1>1, <1>2 DEF RouteInv

LEMMA Inserted ==
  ASSUME RouteSizes, RouteInv, ins
  PROVE  RouteInv'
<1>1. PICK p \in Points \ Range(wps) :
        /\ wps' = InsertAt(wps, Idx(wps, itr_focus) + 1, p)
        /\ find_next(wps', arrived)
  BY DEF ins
<1>2. focus' = focus + 1 /\ arrived' = arrived /\ itr_focus' = itr_focus
  BY DEF ins
<1>3. /\ wps \in Seq(Points) /\ Distinct(wps) /\ Len(wps) \in Nat
      /\ focus \in Nat /\ focus <= Len(wps) /\ focus + 1 \in 1..Len(wps)+1
  BY DEF RouteInv
<1>4. Idx(wps, itr_focus) = focus
  BY <1>3, IdxOfAt DEF RouteInv
<1>5. /\ wps' \in Seq(Points) /\ Len(wps') = Len(wps) + 1
      /\ \A i \in 1..Len(wps)+1 :
           wps'[i] = IF i < focus + 1 THEN wps[i] ELSE IF i = focus + 1 THEN p ELSE wps[i - 1]
  <2>1. wps' = InsertAt(wps, focus + 1, p) /\ p \in Points
    BY <1>1, <1>4
  <2>2. /\ InsertAt(wps, focus + 1, p) \in Seq(Points)
        /\ Len(InsertAt(wps, focus + 1, p)) = Len(wps) + 1
        /\ \A i \in 1..Len(wps)+1 :
             InsertAt(wps, focus + 1, p)[i] =
               IF i < focus + 1 THEN wps[i] ELSE IF i = focus + 1 THEN p ELSE wps[i - 1]
    <3>1. wps \in Seq(Points) /\ focus + 1 \in 1..Len(wps)+1
      BY <1>3
    <3> QED
      BY <2>1, <3>1, InsertIs, SMTT(30)
  <2> QED
    BY <2>1, <2>2, <1>3
<1>6. \A i \in 1..Len(wps) : wps[i] # p
  BY <1>1, <1>3 DEF Range
<1>7. Distinct(wps)'
  <2>0. Len(wps') = Len(wps) + 1 /\ Len(wps) + 1 \in Nat
    BY <1>3, <1>5
  <2>1. ASSUME NEW i \in 1..Len(wps)+1, NEW j \in 1..Len(wps)+1, wps'[i] = wps'[j], i < j
        PROVE  FALSE
    <3>1. \A m, n \in 1..Len(wps) : wps[m] = wps[n] => m = n
      BY <1>3 DEF Distinct
    <3>2. CASE j < focus + 1
      BY <1>3, <1>5, <2>1, <3>1, <3>2
    <3>3. CASE j = focus + 1
      BY <1>3, <1>5, <1>6, <2>1, <3>3
    <3>4. CASE j > focus + 1 /\ i < focus + 1
      BY <1>3, <1>5, <2>1, <3>1, <3>4
    <3>5. CASE j > focus + 1 /\ i = focus + 1
      BY <1>3, <1>5, <1>6, <2>1, <3>5
    <3>6. CASE j > focus + 1 /\ i > focus + 1
      BY <1>3, <1>5, <2>1, <3>1, <3>6, SMTT(30)
    <3> QED
      BY <1>3, <3>2, <3>3, <3>4, <3>5, <3>6
  <2>2. ASSUME NEW i \in 1..Len(wps)+1, NEW j \in 1..Len(wps)+1, wps'[i] = wps'[j] PROVE i = j
    <3>1. ~(i < j) /\ ~(j < i)
      BY <2>1, <2>2
    <3> QED
      BY <2>0, <3>1
  <2> QED
    BY <2>0, <2>2 DEF Distinct
<1>8. focus' \in 0..Len(wps')
  BY <1>2, <1>3, <1>5
<1>9. itr_focus' = At(wps', focus')
  BY <1>2, <1>3, <1>5 DEF RouteInv, At
<1> QED
  BY <1>1, <1>2, <1>5, <1>7, <1>8, <1>9, Edited

LEMMA Erased ==
  ASSUME RouteSizes, RouteInv, ers
  PROVE  RouteInv'
<1>1. /\ wps' = IF itr_focus = End THEN wps ELSE RemoveAt(wps, Idx(wps, itr_focus) + 1)
      /\ itr_focus' = Inc(wps, itr_focus)
      /\ focus' = IF itr_focus' = End THEN Len(wps') ELSE focus
      /\ find_next(wps', arrived')
  BY DEF ers
<1>2. /\ wps \in Seq(Points) /\ Distinct(wps) /\ Len(wps) \in Nat
      /\ focus \in Nat /\ focus <= Len(wps) /\ itr_focus = At(wps, focus)
  BY DEF RouteInv
<1>3. /\ itr_focus = End <=> focus = Len(wps)
      /\ Idx(wps, itr_focus) = focus
      /\ focus < Len(wps) => itr_focus' = At(wps, focus + 1)
      /\ focus = Len(wps) => itr_focus' = End
  BY <1>1, <1>2, IdxOfAt
<1>4. CASE focus = Len(wps)
  <2>1. wps' = wps /\ itr_focus' = End /\ focus' = Len(wps')
    BY <1>1, <1>3, <1>4
  <2>2. itr_focus' = At(wps', focus') /\ focus' \in 0..Len(wps')
    BY <1>2, <2>1 DEF At
  <2> QED
    BY <1>1, <1>2, <2>1, <2>2, Edited DEF Distinct
<1>5. CASE focus # Len(wps)
  <2>1. focus < Len(wps) /\ focus + 1 \in 1..Len(wps)
    BY <1>2, <1>5
  <2>2. /\ wps' \in Seq(Points) /\ Len(wps') = Len(wps) - 1
        /\ \A i \in 1..Len(wps)-1 : wps'[i] = IF i < focus + 1 THEN wps[i] ELSE wps[i + 1]
    <3>1. wps' = RemoveAt(wps, focus + 1)
      BY <1>1, <1>3, <1>5
    <3>2. /\ RemoveAt(wps, focus + 1) \in Seq(Points)
          /\ Len(RemoveAt(wps, focus + 1)) = Len(wps) - 1
          /\ \A i \in 1..Len(wps)-1 :
               RemoveAt(wps, focus + 1)[i] = IF i < focus + 1 THEN wps[i] ELSE wps[i + 1]
      BY <1>2, <2>1, RemoveIs, Zenon
    <3> QED
      BY <3>1, <3>2
  <2>3. Distinct(wps)'
    <3>1. ASSUME NEW i \in 1..Len(wps)-1, NEW j \in 1..Len(wps)-1, wps'[i] = wps'[j], i < j
          PROVE  FALSE
      <4>1. \A m, n \in 1..Len(wps) : wps[m] = wps[n] => m = n
        BY <1>2 DEF Distinct
      <4>2. CASE j < focus + 1
        BY <1>2, <2>2, <3>1, <4>1, <4>2
      <4>3. CASE ~(j < focus + 1) /\ i < focus + 1
        BY <1>2, <2>2, <3>1, <4>1, <4>3
      <4>4. CASE ~(j < focus + 1) /\ ~(i < focus + 1)
        BY <1>2, <2>2, <3>1, <4>1, <4>4
      <4> QED
        BY <4>2, <4>3, <4>4
    <3> QED
      BY <1>2, <2>2, <3>1 DEF Distinct
  <2>4. itr_focus' = At(wps, focus + 1)
    BY <1>3, <2>1
  <2>5. itr_focus' = At(wps', focus) /\ (itr_focus' = End <=> focus = Len(wps'))
    <3>1. At(wps, focus + 1) = End <=> focus + 1 = Len(wps)
      BY <1>2, <2>1, IdxOfAt
    <3> QED
      BY <1>2, <2>1, <2>2, <2>4, <3>1 DEF At
  <2>6. focus' = focus /\ focus' \in 0..Len(wps')
    BY <1>1, <1>2, <2>1, <2>2, <2>5
  <2> QED
    BY <1>1, <2>2, <2>3, <2>5, <2>6, Edited
<1> QED
  BY <1>4, <1>5

LEMMA Reversed ==
  ASSUME RouteSizes, RouteInv, rev
  PROVE  RouteInv'
<1>1. wps' = Reverse(wps) /\ set_focus(wps', focus) /\ find_next(wps', arrived')
  BY DEF rev, Refocus
<1>2. /\ wps \in Seq(Points) /\ Distinct(wps) /\ Len(wps) \in Nat
      /\ focus \in Nat /\ focus <= Len(wps)
  BY DEF RouteInv
<1>3. /\ wps' \in Seq(Points) /\ Len(wps') = Len(wps)
      /\ \A i \in 1..Len(wps) : wps'[i] = wps[(Len(wps) - i) + 1]
  BY <1>1, <1>2, ReverseIs
<1>4. Distinct(wps)'
  <2> SUFFICES ASSUME NEW i \in 1..Len(wps), NEW j \in 1..Len(wps), wps'[i] = wps'[j]
               PROVE  i = j
    BY <1>3 DEF Distinct
  <2>1. (Len(wps) - i) + 1 = (Len(wps) - j) + 1
    <3>1. (Len(wps) - i) + 1 \in 1..Len(wps) /\ (Len(wps) - j) + 1 \in 1..Len(wps)
      BY <1>2
    <3> QED
      BY <1>2, <1>3, <3>1 DEF Distinct
  <2> QED
    BY <1>2, <2>1
<1>5. focus' \in 0..Len(wps') /\ itr_focus' = At(wps', focus')
  BY <1>1, <1>2, <1>3 DEF set_focus
<1> QED
  BY <1>1, <1>3, <1>4, <1>5, Edited
LEMMA Cleared ==
  ASSUME clear
  PROVE  RouteInv'
<1>1. wps' = <<>> /\ Len(wps') = 0 /\ wps' \in Seq(Points)
  BY DEF clear
<1>2. At(wps', 0) = End /\ Distinct(wps')
  BY <1>1 DEF At, Distinct
<1> QED
  BY <1>1, <1>2 DEF clear, RouteInv

LEMMA Reset ==
  ASSUME RouteInv, ref
  PROVE  RouteInv'
<1>1. wps' = wps /\ focus' = focus /\ itr_focus' = itr_focus /\ find_next(wps', arrived')
  BY DEF ref
<1> QED
  BY <1>1, Edited DEF RouteInv, Distinct

\* The focus and the cursor move over a list that stays.
LEMMA Moved ==
  ASSUME RouteInv, UNCHANGED <<wps, arrived, inext, itr_next>>,
         focus' \in 0..Len(wps), itr_focus' = At(wps, focus'),
         \E i \in 0..Len(wps) : itr' = At(wps, i)
  PROVE  RouteInv'
  BY DEF RouteInv, Distinct

LEMMA FocusSet ==
  ASSUME RouteSizes, RouteInv, SetFocus
  PROVE  RouteInv'
<1>1. PICK i \in 0..MaxWps : set_focus(wps, i)
  BY DEF SetFocus
<1>2. focus' \in 0..Len(wps) /\ itr_focus' = At(wps, focus')
  <2>1. Len(wps) \in Nat /\ i \in Nat
    BY DEF RouteInv, RouteSizes
  <2> QED
    BY <1>1, <2>1 DEF set_focus
<1> QED
  BY <1>2, Moved DEF SetFocus, RouteInv

LEMMA FocusNext ==
  ASSUME RouteSizes, RouteInv, next_focus
  PROVE  RouteInv'
<1>1. /\ wps \in Seq(Points) /\ Distinct(wps) /\ Len(wps) \in Nat
      /\ focus \in 0..Len(wps) /\ focus \in Nat /\ focus <= Len(wps)
      /\ itr_focus = At(wps, focus)
  BY DEF RouteInv
<1>2. /\ itr_focus' = Inc(wps, itr_focus)
      /\ focus' = IF itr_focus' = End THEN Len(wps) ELSE focus + 1
  BY DEF next_focus
<1>3. focus' \in 0..Len(wps) /\ itr_focus' = At(wps, focus')
  <2>1. At(wps, Len(wps)) = End
    BY <1>1 DEF At
  <2>2. CASE focus = Len(wps)
    <3>1. itr_focus' = End
      BY <1>1, <1>2, <2>2, IdxOfAt
    <3> QED
      BY <1>1, <1>2, <2>1, <3>1
  <2>3. CASE focus # Len(wps)
    <3>1. focus < Len(wps) /\ focus + 1 \in 0..Len(wps)
      BY <1>1, <2>3
    <3>2. itr_focus' = At(wps, focus + 1)
      BY <1>1, <1>2, <3>1, IdxOfAt
    <3>3. At(wps, focus + 1) = End <=> focus + 1 = Len(wps)
      BY <1>1, <3>1, IdxOfAt
    <3> QED
      BY <1>2, <2>1, <3>1, <3>2, <3>3
  <2> QED
    BY <2>2, <2>3
<1> QED
  BY <1>3, Moved DEF next_focus, RouteInv

\* One back from an iterator that is not at the first.
LEMMA OneBack ==
  ASSUME RouteSizes, NEW s \in Seq(Points), Distinct(s),
         NEW i \in 0..Len(s), At(s, i) # At(s, 0)
  PROVE  /\ i - 1 \in 0..Len(s) /\ s[Idx(s, At(s, i))] = At(s, i - 1)
         /\ At(s, i - 1) = At(s, 0) <=> i - 1 = 0
<1>1. Len(s) \in Nat /\ i \in Nat /\ i <= Len(s) /\ i # 0
  OBVIOUS
<1>2. i - 1 \in 0..Len(s) /\ i - 1 < Len(s) /\ (i - 1) + 1 = i /\ 0 \in 0..Len(s)
  BY <1>1
<1>3. Idx(s, At(s, i)) = i
  BY IdxOfAt
<1>4. At(s, i - 1) = s[i]
  BY <1>2 DEF At
<1>5. At(s, i - 1) = At(s, 0) => i - 1 = 0
  BY <1>2, AtDiffers
<1> QED
  BY <1>2, <1>3, <1>4, <1>5

LEMMA FocusPrev ==
  ASSUME RouteSizes, RouteInv, prev_focus
  PROVE  RouteInv'
<1>1. /\ wps \in Seq(Points) /\ Distinct(wps) /\ Len(wps) \in Nat
      /\ focus \in 0..Len(wps) /\ itr_focus = At(wps, focus) /\ 0 \in 0..Len(wps)
  BY DEF RouteInv
<1>2. /\ itr_focus' = IF itr_focus = At(wps, 0) THEN itr_focus ELSE wps[Idx(wps, itr_focus)]
      /\ focus' = IF itr_focus' = At(wps, 0) THEN 0 ELSE focus - 1
  BY DEF prev_focus
<1>3. focus' \in 0..Len(wps) /\ itr_focus' = At(wps, focus')
  <2>1. CASE itr_focus = At(wps, 0)
    BY <1>1, <1>2, <2>1
  <2>2. CASE itr_focus # At(wps, 0)
    <3>1. /\ focus - 1 \in 0..Len(wps) /\ wps[Idx(wps, itr_focus)] = At(wps, focus - 1)
          /\ At(wps, focus - 1) = At(wps, 0) <=> focus - 1 = 0
      BY <1>1, <2>2, OneBack
    <3>2. itr_focus' = At(wps, focus - 1)
      BY <1>2, <2>2, <3>1
    <3> QED
      BY <1>1, <1>2, <3>1, <3>2
  <2> QED
    BY <2>1, <2>2
<1> QED
  BY <1>3, Moved DEF prev_focus, RouteInv

LEMMA CursorMoved ==
  ASSUME RouteSizes, RouteInv, MoveCursor
  PROVE  RouteInv'
<1>1. /\ wps \in Seq(Points) /\ Distinct(wps) /\ Len(wps) \in Nat
      /\ 0 \in 0..Len(wps) /\ Len(wps) \in 0..Len(wps)
  BY DEF RouteInv
<1>2. PICK i \in 0..Len(wps) : itr = At(wps, i)
  BY DEF RouteInv
<1>3. At(wps, Len(wps)) = End
  BY <1>1 DEF At
<1>4. \E j \in 0..Len(wps) : itr' = At(wps, j)
  <2>1. CASE itr' = At(wps, 0)
    BY <1>1, <2>1
  <2>2. CASE itr' = End
    BY <1>1, <1>3, <2>2
  <2>3. CASE \E j \in 0..(Len(wps) - 1) : itr' = At(wps, j)
    BY <1>1, <2>3
  <2>4. CASE itr' = Inc(wps, itr)
    <3>1. CASE i = Len(wps)
      <4>1. itr' = End
        BY <1>1, <1>2, <2>4, <3>1, IdxOfAt
      <4> QED
        BY <1>1, <1>3, <4>1
    <3>2. CASE i # Len(wps)
      <4>1. i < Len(wps) /\ i + 1 \in 0..Len(wps)
        BY <1>1, <3>2
      <4>2. itr' = At(wps, i + 1)
        BY <1>1, <1>2, <2>4, <4>1, IdxOfAt
      <4> QED
        BY <4>1, <4>2
    <3> QED
      BY <3>1, <3>2
  <2>5. CASE itr' = IF itr = At(wps, 0) THEN itr ELSE wps[Idx(wps, itr)]
    <3>1. CASE itr = At(wps, 0)
      BY <1>1, <2>5, <3>1
    <3>2. CASE itr # At(wps, 0)
      <4>1. i - 1 \in 0..Len(wps) /\ wps[Idx(wps, itr)] = At(wps, i - 1)
        BY <1>1, <1>2, <3>2, OneBack
      <4> QED
        BY <2>5, <3>2, <4>1
    <3> QED
      BY <3>1, <3>2
  <2> QED
    BY <2>1, <2>2, <2>3, <2>4, <2>5 DEF MoveCursor
<1> QED
  BY <1>4, Moved DEF MoveCursor, RouteInv

LEMMA Arrived ==
  ASSUME RouteSizes, RouteInv, Arrive
  PROVE  RouteInv'
<1>1. /\ wps \in Seq(Points) /\ Distinct(wps) /\ Len(wps) \in Nat
      /\ wps # <<>> /\ inext \in 0..Len(wps) /\ inext \in Nat /\ itr_next = At(wps, inext)
      /\ \A i \in 1..inext : wps[i] \in arrived
  BY DEF RouteInv, Arrive
<1>2. /\ inext' = inext + 1 /\ itr_next' = Inc(wps, itr_next)
      /\ arrived' = arrived \union {itr_next}
      /\ wps' = wps /\ itr' = itr /\ focus' = focus /\ itr_focus' = itr_focus
  BY DEF Arrive, set_next_wp
<1>3. inext # Len(wps)
  BY <1>1, IdxOfAt DEF Arrive
<1>4. inext < Len(wps) /\ inext' \in 0..Len(wps)
  BY <1>1, <1>2, <1>3
<1>5. itr_next' = At(wps, inext')
  BY <1>1, <1>2, <1>4, IdxOfAt
<1>6. itr_next = wps[inext + 1]
  BY <1>1, <1>4 DEF At
<1>7. ASSUME NEW i \in 1..inext' PROVE wps[i] \in arrived'
  <2>1. i \in 1..inext \/ i = inext + 1
    BY <1>1, <1>2
  <2> QED
    BY <1>1, <1>2, <1>6, <2>1
<1> QED
  BY <1>1, <1>2, <1>4, <1>5, <1>7 DEF RouteInv, Distinct

LEMMA RouteInvNext ==
  ASSUME RouteSizes, RouteInv, [RouteNext]_routeVars
  PROVE  RouteInv'
<1>1. CASE clear
  BY <1>1, Cleared
<1>2. CASE ins
  BY <1>2, Inserted
<1>3. CASE ers
  BY <1>3, Erased
<1>4. CASE rev
  BY <1>4, Reversed
<1>5. CASE ref
  BY <1>5, Reset
<1>6. CASE SetFocus
  BY <1>6, FocusSet
<1>7. CASE next_focus
  BY <1>7, FocusNext
<1>8. CASE prev_focus
  BY <1>8, FocusPrev
<1>9. CASE Arrive
  BY <1>9, Arrived
<1>10. CASE MoveCursor
  BY <1>10, CursorMoved
<1>11. CASE UNCHANGED routeVars
  BY <1>11 DEF routeVars, RouteInv, Distinct
<1> QED
  BY <1>1, <1>2, <1>3, <1>4, <1>5, <1>6, <1>7, <1>8, <1>9, <1>10, <1>11 DEF RouteNext

\* The invariant says what the property says, through the iterators.
LEMMA RouteInvKeeps ==
  ASSUME RouteSizes, RouteInv
  PROVE  RouteIsKept
<1>1. /\ wps \in Seq(Points) /\ Distinct(wps)
      /\ focus \in 0..Len(wps) /\ itr_focus = At(wps, focus)
  BY DEF RouteInv
<1>2. itr_focus \in Range(wps) \union {End} /\ Idx(wps, itr_focus) = focus
  BY <1>1, IdxOfAt
<1>3. itr \in Range(wps) \union {End}
  <2>1. PICK i \in 0..Len(wps) : itr = At(wps, i)
    BY DEF RouteInv
  <2> QED
    BY <1>1, <2>1, IdxOfAt
<1>4. CASE wps = <<>>
  <2>1. itr_next = End /\ Idx(wps, itr_next) = 0
    BY <1>4 DEF RouteInv, Idx
  <2> QED
    BY <1>2, <1>3, <1>4, <2>1 DEF RouteIsKept, IteratorsValid, IndexesAgree, NothingSkipped
<1>5. CASE wps # <<>>
  <2>1. /\ inext \in 0..Len(wps) /\ itr_next = At(wps, inext)
        /\ \A i \in 1..inext : wps[i] \in arrived
    BY <1>5 DEF RouteInv
  <2>2. itr_next \in Range(wps) \union {End} /\ Idx(wps, itr_next) = inext
    BY <1>1, <2>1, IdxOfAt
  <2>3. NothingSkipped
    BY <2>1, <2>2 DEF NothingSkipped
  <2> QED
    BY <1>2, <1>3, <2>2, <2>3 DEF RouteIsKept, IteratorsValid, IndexesAgree
<1> QED
  BY <1>4, <1>5

(* Whatever the manipulator edits and however far the autopilot has come, the *)
(* iterators of ch_wp point into the list, the indexes agree with them, and   *)
(* every waypoint before the next one has an arrival time.                    *)
THEOREM RouteStays == RouteSpec => []RouteIsKept
<1> RouteSizes
  BY RouteAssumption
<1>1. RouteInv /\ [RouteNext]_routeVars => RouteInv'
  BY RouteInvNext
<1>2. RouteInv => RouteIsKept
  BY RouteInvKeeps
<1> QED
  BY RouteInvInit, <1>1, <1>2, PTL DEF RouteSpec

-----------------------------------------------------------------------------
(* The messages being received *)

Payloads == Seq(Messages \X Nat)
Buffers == [fcounts : Nat, fnumber : Nat, seqmsgid : {m.seq : m \in Messages}, payload : Payloads]

\* No sentence with id q was lost; some sentences of m have come, not all; its
\* first n sentences.
Intact(q, ls) == \A l \in ls : l[1].seq # q
InProgress(m, g) == g[m] > 0 /\ g[m] < m.of
Begun(m, n) == [k \in 1..n |-> <<m, k>>]

\* A buffer's sentences are of one id, the first is there, and its counts are
\* those of its first and last sentence.
FitsTogether(pl) ==
  /\ Len(pl) >= 1 /\ pl[1][2] = 1
  /\ \A i \in 1..Len(pl) : pl[i][1].seq = pl[1][1].seq
Fits(p) ==
  /\ FitsTogether(p.payload)
  /\ p.fcounts = p.payload[1][1].of /\ p.seqmsgid = p.payload[1][1].seq
  /\ p.fnumber = p.payload[Len(p.payload)][2]

\* As long as nothing of an id is lost, its buffer holds what has come of the
\* one message in progress, and there is no other buffer of that id.
OfOne(p, g) == \E m \in Messages : m.seq = p.seqmsgid /\ InProgress(m, g) /\ p.payload = Begun(m, g[m])
Single(s, ls) ==
  \A i, j \in 1..Len(s) : s[i].seqmsgid = s[j].seqmsgid /\ Intact(s[i].seqmsgid, ls) => i = j
Kept(s, g, ls) ==
  /\ s \in Seq(Buffers)
  /\ \A i \in 1..Len(s) : Fits(s[i]) /\ (Intact(s[i].seqmsgid, ls) => OfOne(s[i], g))
  /\ Single(s, ls)

\* What is in progress has a buffer or was given up.
HasBuffer(m, s, fr) == (\E i \in 1..Len(s) : s[i].payload[1][1] = m) \/ (\E pl \in fr : pl[1][1] = m)
Tracked(s, fr, g, ls) == \A m \in Messages : InProgress(m, g) /\ Intact(m.seq, ls) => HasBuffer(m, s, fr)
OneAtATime(g) == \A m, o \in Messages : m.seq = o.seq /\ InProgress(m, g) /\ InProgress(o, g) => m = o

VdmInv ==
  /\ gone \in [Messages -> Nat] /\ \A m \in Messages : gone[m] <= m.of
  /\ OneAtATime(gone)
  /\ Kept(m_tmp, gone, lost) /\ Tracked(m_tmp, freed, gone, lost)
  /\ NothingMixed
  /\ PayloadsFitTogether
  /\ m_pool \in Nat /\ BuffersBounded

LEMMA VdmInvInit ==
  ASSUME VdmSizes, VdmInit
  PROVE  VdmInv
<1>1. /\ m_tmp = <<>> /\ Len(m_tmp) = 0 /\ m_tmp \in Seq(Buffers)
      /\ gone = [m \in Messages |-> 0] /\ lost = {} /\ freed = {} /\ handed = {}
      /\ m_pool = 0 /\ created = 0 /\ MaxTmp \in Nat /\ \A m \in Messages : m.of \in Nat
  BY DEF VdmInit, VdmSizes
<1>2. \A m \in Messages : gone[m] = 0 /\ ~InProgress(m, gone)
  BY <1>1 DEF InProgress
<1>3. Kept(m_tmp, gone, lost) /\ Tracked(m_tmp, freed, gone, lost) /\ OneAtATime(gone)
  BY <1>1, <1>2 DEF Kept, Single, Tracked, OneAtATime
<1>4. NothingMixed /\ PayloadsFitTogether /\ BuffersBounded
  BY <1>1 DEF NothingMixed, PayloadsFitTogether, BuffersBounded
<1> QED
  BY <1>1, <1>2, <1>3, <1>4 DEF VdmInv

-----------------------------------------------------------------------------
(* Sentences that come *)

LEMMA BegunIs ==
  ASSUME NEW m \in Messages, NEW n \in Nat
  PROVE  /\ Begun(m, n) \in Payloads /\ Len(Begun(m, n)) = n
         /\ \A k \in 1..n : Begun(m, n)[k] = <<m, k>>
         /\ Append(Begun(m, n), <<m, n + 1>>) = Begun(m, n + 1)
<1>1. /\ Begun(m, n) \in Payloads /\ Len(Begun(m, n)) = n
      /\ \A k \in 1..n : Begun(m, n)[k] = <<m, k>>
  BY DEF Begun, Payloads
<1>2. Append(Begun(m, n), <<m, n + 1>>) = Begun(m, n + 1)
  BY DEF Begun
<1> QED
  BY <1>1, <1>2

\* A sentence of m goes by, whether it is lost or not.
LEMMA Advances ==
  ASSUME VdmSizes, VdmInv, NEW m \in Messages, MayCome(m), gone' = [gone EXCEPT ![m] = @ + 1]
  PROVE  /\ gone' \in [Messages -> Nat] /\ gone'[m] = gone[m] + 1 /\ gone'[m] <= m.of
         /\ \A o \in Messages : o # m => gone'[o] = gone[o]
         /\ \A o \in Messages : gone'[o] <= o.of
         /\ OneAtATime(gone')
<1>1. /\ gone \in [Messages -> Nat] /\ \A o \in Messages : gone[o] <= o.of /\ o.of \in Nat
      /\ OneAtATime(gone)
  BY DEF VdmInv, VdmSizes
<1>2. gone[m] < m.of /\ (gone[m] = 0 => \A o \in Messages : o.seq = m.seq => gone[o] \in {0, o.of})
  BY DEF MayCome
<1>3. /\ gone' \in [Messages -> Nat] /\ gone'[m] = gone[m] + 1
      /\ \A o \in Messages : o # m => gone'[o] = gone[o]
  BY <1>1
<1>4. \A o \in Messages : gone'[o] <= o.of
  BY <1>1, <1>2, <1>3
<1>5. ASSUME NEW o \in Messages, o.seq = m.seq, o # m, InProgress(o, gone') PROVE FALSE
  <2>1. InProgress(o, gone)
    BY <1>3, <1>5 DEF InProgress
  <2>2. gone[m] # 0
    BY <1>1, <1>2, <1>5, <2>1 DEF InProgress
  <2>3. InProgress(m, gone)
    BY <1>1, <1>2, <2>2 DEF InProgress
  <2> QED
    BY <1>1, <1>5, <2>1, <2>3 DEF OneAtATime
<1>6. OneAtATime(gone')
  <2> SUFFICES ASSUME NEW o \in Messages, NEW n \in Messages, o.seq = n.seq,
                      InProgress(o, gone'), InProgress(n, gone'), o # n
               PROVE  FALSE
    BY DEF OneAtATime
  <2>1. CASE o = m
    BY <1>5, <2>1
  <2>2. CASE n = m
    BY <1>5, <2>2
  <2>3. CASE o # m /\ n # m
    <3>1. InProgress(o, gone) /\ InProgress(n, gone)
      BY <1>3, <2>3 DEF InProgress
    <3> QED
      BY <1>1, <3>1 DEF OneAtATime
  <2> QED
    BY <2>1, <2>2, <2>3
<1> QED
  BY <1>2, <1>3, <1>4, <1>6

\* Buffers stay as good as they are when a message that has none goes on.
LEMMA OthersKept ==
  ASSUME NEW s, NEW m \in Messages, Kept(s, gone, lost), lost \subseteq lost',
         \A o \in Messages : o # m => gone'[o] = gone[o],
         \/ gone[m] = 0
         \/ \A i \in 1..Len(s) : s[i].seqmsgid # m.seq
         \/ ~Intact(m.seq, lost')
  PROVE  Kept(s, gone', lost')
<1>1. \A q : Intact(q, lost') => Intact(q, lost)
  BY DEF Intact
<1>2. Single(s, lost')
  BY <1>1 DEF Kept, Single
<1>3. ASSUME NEW i \in 1..Len(s), Intact(s[i].seqmsgid, lost')
      PROVE  OfOne(s[i], gone')
  <2>1. OfOne(s[i], gone)
    BY <1>1, <1>3 DEF Kept
  <2>2. PICK o \in Messages : o.seq = s[i].seqmsgid /\ InProgress(o, gone) /\ s[i].payload = Begun(o, gone[o])
    BY <2>1 DEF OfOne
  <2>3. o # m
    BY <1>3, <2>2 DEF InProgress
  <2>4. InProgress(o, gone') /\ gone'[o] = gone[o]
    BY <2>2, <2>3 DEF InProgress
  <2> QED
    BY <2>2, <2>4 DEF OfOne
<1> QED
  BY <1>2, <1>3 DEF Kept

\* The list without one of its buffers.
LEMMA RestKept ==
  ASSUME NEW s, NEW g, NEW ls, Kept(s, g, ls), NEW k \in 1..Len(s)
  PROVE  /\ Kept(RemoveAt(s, k), g, ls) /\ Len(RemoveAt(s, k)) = Len(s) - 1
         /\ \A j \in 1..Len(s) : j # k => \E i \in 1..Len(s)-1 : RemoveAt(s, k)[i] = s[j]
         /\ Intact(s[k].seqmsgid, ls) =>
              \A i \in 1..Len(s)-1 : RemoveAt(s, k)[i].seqmsgid # s[k].seqmsgid
<1> DEFINE r == RemoveAt(s, k)
           from == [i \in 1..Len(s)-1 |-> IF i < k THEN i ELSE i + 1]
<1>1. s \in Seq(Buffers) /\ Len(s) \in Nat /\ k \in Nat /\ k >= 1 /\ k <= Len(s)
  BY DEF Kept
<1>2. r \in Seq(Buffers) /\ Len(r) = Len(s) - 1
  BY <1>1, RemoveIs
<1>3. \A i \in 1..Len(s)-1 : r[i] = IF i < k THEN s[i] ELSE s[i + 1]
  BY <1>1, RemoveIs
<1> HIDE DEF r
<1>4. \A i \in 1..Len(s)-1 : from[i] \in 1..Len(s) /\ from[i] # k /\ r[i] = s[from[i]]
  BY <1>1, <1>3
<1>5. \A i, j \in 1..Len(s)-1 : from[i] = from[j] => i = j
  BY <1>1
<1>6. ASSUME NEW j \in 1..Len(s), j # k PROVE \E i \in 1..Len(s)-1 : from[i] = j
  <2>1. CASE j < k
    <3>1. j \in 1..Len(s)-1 /\ from[j] = j
      BY <1>1, <2>1
    <3> QED
      BY <3>1
  <2>2. CASE ~(j < k)
    <3>1. j - 1 \in 1..Len(s)-1 /\ from[j - 1] = j
      BY <1>1, <1>6, <2>2
    <3> QED
      BY <3>1
  <2> QED
    BY <2>1, <2>2
<1> HIDE DEF from
<1>7. Kept(r, g, ls)
  <2>1. \A i \in 1..Len(s)-1 : Fits(r[i]) /\ (Intact(r[i].seqmsgid, ls) => OfOne(r[i], g))
    BY <1>4 DEF Kept
  <2>2. Single(r, ls)
    <3> SUFFICES ASSUME NEW i \in 1..Len(s)-1, NEW j \in 1..Len(s)-1,
                        r[i].seqmsgid = r[j].seqmsgid, Intact(r[i].seqmsgid, ls)
                 PROVE  i = j
      BY <1>2 DEF Single
    <3>1. from[i] = from[j]
      BY <1>4 DEF Kept, Single
    <3> QED
      BY <1>5, <3>1
  <2> QED
    BY <1>2, <2>1, <2>2 DEF Kept
<1>8. \A j \in 1..Len(s) : j # k => \E i \in 1..Len(s)-1 : r[i] = s[j]
  BY <1>4, <1>6
<1>9. ASSUME Intact(s[k].seqmsgid, ls), NEW i \in 1..Len(s)-1, r[i].seqmsgid = s[k].seqmsgid
      PROVE  FALSE
  BY <1>4, <1>9 DEF Kept, Single
<1> QED
  BY <1>2, <1>7, <1>8, <1>9 DEF r

\* The list with a buffer more.
LEMMA MoreKept ==
  ASSUME NEW s, NEW g, NEW ls, Kept(s, g, ls), NEW p \in Buffers, Fits(p),
         Intact(p.seqmsgid, ls) =>
           OfOne(p, g) /\ \A i \in 1..Len(s) : s[i].seqmsgid # p.seqmsgid
  PROVE  /\ Kept(Append(s, p), g, ls) /\ Len(Append(s, p)) = Len(s) + 1
         /\ Append(s, p)[Len(s) + 1] = p /\ \A i \in 1..Len(s) : Append(s, p)[i] = s[i]
<1> DEFINE f == Append(s, p)
<1>1. s \in Seq(Buffers) /\ Len(s) \in Nat
  BY DEF Kept
<1>2. f \in Seq(Buffers) /\ Len(f) = Len(s) + 1 /\ f[Len(s) + 1] = p /\ \A i \in 1..Len(s) : f[i] = s[i]
  BY <1>1
<1> HIDE DEF f
<1>3. \A i \in 1..Len(f) : i \in 1..Len(s) \/ i = Len(s) + 1
  BY <1>1, <1>2
<1>4. \A i \in 1..Len(f) : Fits(f[i]) /\ (Intact(f[i].seqmsgid, ls) => OfOne(f[i], g))
  BY <1>2, <1>3 DEF Kept
<1>5. Single(f, ls)
  BY <1>2, <1>3 DEF Kept, Single
<1> QED
  BY <1>2, <1>4, <1>5 DEF Kept, f

\* The list without its oldest.
LEMMA TailKept ==
  ASSUME NEW s, NEW g, NEW ls, Kept(s, g, ls), Len(s) >= 1
  PROVE  /\ Kept(Tail(s), g, ls) /\ Len(Tail(s)) = Len(s) - 1
         /\ \A j \in 1..Len(s) : j # 1 => \E i \in 1..Len(s)-1 : Tail(s)[i] = s[j]
         /\ Head(s) = s[1]
<1> DEFINE r == Tail(s)
<1>1. s \in Seq(Buffers) /\ Len(s) \in Nat /\ s # <<>>
  BY DEF Kept
<1>2. /\ r \in Seq(Buffers) /\ Len(r) = Len(s) - 1 /\ Head(s) = s[1]
      /\ \A i \in 1..Len(s)-1 : r[i] = s[i + 1]
  BY <1>1, HeadTailProperties
<1> HIDE DEF r
<1>3. \A i \in 1..Len(s)-1 : i + 1 \in 1..Len(s)
  BY <1>1
<1>4. \A i \in 1..Len(s)-1 : Fits(r[i]) /\ (Intact(r[i].seqmsgid, ls) => OfOne(r[i], g))
  BY <1>2, <1>3 DEF Kept
<1>5. Single(r, ls)
  <2> SUFFICES ASSUME NEW i \in 1..Len(s)-1, NEW j \in 1..Len(s)-1,
                      r[i].seqmsgid = r[j].seqmsgid, Intact(r[i].seqmsgid, ls)
               PROVE  i = j
    BY <1>2 DEF Single
  <2>1. i + 1 = j + 1
    BY <1>2, <1>3 DEF Kept, Single
  <2> QED
    BY <2>1
<1>6. \A j \in 1..Len(s) : j # 1 => j - 1 \in 1..Len(s)-1 /\ (j - 1) + 1 = j
  BY <1>1
<1>7. \A j \in 1..Len(s) : j # 1 => \E i \in 1..Len(s)-1 : r[i] = s[j]
  BY <1>2, <1>6
<1> QED
  BY <1>2, <1>4, <1>5, <1>7 DEF Kept, r

(* What decode() has when it comes to Finish: the list without the buffer that *)
(* took the sentence, and that buffer.                                        *)
LEMMA Finished ==
  ASSUME VdmSizes, NEW m \in Messages, NEW p \in Buffers, NEW rest, NEW pool \in Nat,
         Finish(p, rest, pool), lost' = lost,
         gone' \in [Messages -> Nat], gone'[m] >= 1, gone'[m] <= m.of,
         Kept(rest, gone', lost), Len(rest) <= MaxTmp,
         Fits(p), p.seqmsgid = m.seq,
         Intact(m.seq, lost) => /\ p.payload = Begun(m, gone'[m])
                                /\ \A i \in 1..Len(rest) : rest[i].seqmsgid # m.seq,
         \A o \in Messages : o # m /\ InProgress(o, gone') /\ Intact(o.seq, lost) => HasBuffer(o, rest, freed)
  PROVE  /\ Kept(m_tmp', gone', lost) /\ Tracked(m_tmp', freed', gone', lost)
         /\ freed \subseteq freed' /\ handed \subseteq handed'
         /\ \A pl \in handed' \ handed : pl = p.payload /\ p.fcounts = p.fnumber
         /\ p.fcounts = p.fnumber /\ p.payload[1][1].type \in vdm_objs => p.payload \in handed'
         /\ m_pool' \in Nat /\ m_pool' + Len(m_tmp') = pool + Len(rest) + 1
         /\ Len(m_tmp') <= MaxTmp
<1>1. /\ rest \in Seq(Buffers) /\ Len(rest) \in Nat /\ MaxTmp \in Nat /\ m.of \in Nat
      /\ gone'[m] \in Nat
  BY DEF Kept, VdmSizes
<1>2. Intact(m.seq, lost) => p.fcounts = m.of /\ p.fnumber = gone'[m] /\ p.payload[1][1] = m
  <2>1. SUFFICES ASSUME Intact(m.seq, lost)
                 PROVE  p.fcounts = m.of /\ p.fnumber = gone'[m] /\ p.payload[1][1] = m
    OBVIOUS
  <2>2. p.payload = Begun(m, gone'[m]) /\ 1 \in 1..gone'[m] /\ gone'[m] \in 1..gone'[m]
    BY <1>1, <2>1
  <2>3. Len(p.payload) = gone'[m] /\ p.payload[1] = <<m, 1>> /\ p.payload[gone'[m]] = <<m, gone'[m]>>
    BY <1>1, <2>2, BegunIs, ZenonT(30)
  <2> QED
    BY <2>3 DEF Fits
<1>3. CASE p.fcounts = p.fnumber
  <2>1. m_tmp' = rest /\ m_pool' = pool + 1 /\ freed' = freed /\ DecPayload(p.payload)
    BY <1>3 DEF Finish
  <2>2. handed' = IF p.payload[1][1].type \in vdm_objs THEN handed \union {p.payload} ELSE handed
    BY <2>1 DEF DecPayload
  <2>3. Tracked(rest, freed, gone', lost)
    BY <1>2, <1>3 DEF Tracked, InProgress
  <2> QED
    BY <1>1, <1>3, <2>1, <2>2, <2>3
<1>4. CASE p.fcounts # p.fnumber
  <2> DEFINE full == Append(rest, p)
  <2>1. /\ handed' = handed
        /\ \/ Len(rest) + 1 > MaxTmp /\ m_tmp' = Tail(full) /\ m_pool' = pool + 1
              /\ freed' = freed \union {Head(full).payload}
           \/ ~(Len(rest) + 1 > MaxTmp) /\ m_tmp' = full /\ m_pool' = pool /\ freed' = freed
    BY <1>4 DEF Finish
  <2>2. Intact(m.seq, lost) => InProgress(m, gone')
    BY <1>1, <1>2, <1>4 DEF InProgress
  <2>3. Intact(p.seqmsgid, lost) => OfOne(p, gone') /\ \A i \in 1..Len(rest) : rest[i].seqmsgid # p.seqmsgid
    BY <2>2 DEF OfOne
  <2>4. /\ Kept(full, gone', lost) /\ Len(full) = Len(rest) + 1
        /\ full[Len(rest) + 1] = p /\ \A i \in 1..Len(rest) : full[i] = rest[i]
    BY <2>3, MoreKept
  <2> HIDE DEF full
  <2>5. Tracked(full, freed, gone', lost)
    <3> SUFFICES ASSUME NEW o \in Messages, InProgress(o, gone'), Intact(o.seq, lost)
                 PROVE  HasBuffer(o, full, freed)
      BY DEF Tracked
    <3>1. CASE o = m
      <4>1. Len(rest) + 1 \in 1..Len(full) /\ full[Len(rest) + 1].payload[1][1] = o
        BY <1>1, <1>2, <2>4, <3>1
      <4> QED
        BY <4>1 DEF HasBuffer
    <3>2. CASE o # m
      <4>1. HasBuffer(o, rest, freed)
        BY <3>2
      <4>2. \A i \in 1..Len(rest) : i \in 1..Len(full) /\ full[i] = rest[i]
        BY <1>1, <2>4
      <4> QED
        BY <4>1, <4>2 DEF HasBuffer
    <3> QED
      BY <3>1, <3>2
  <2>6. CASE Len(rest) + 1 > MaxTmp
    <3>1. /\ Kept(Tail(full), gone', lost) /\ Len(Tail(full)) = Len(full) - 1
          /\ \A j \in 1..Len(full) : j # 1 => \E i \in 1..Len(full)-1 : Tail(full)[i] = full[j]
          /\ Head(full) = full[1]
      <4>1. Len(full) >= 1
        BY <1>1, <2>4
      <4> QED
        BY <2>4, <4>1, TailKept
    <3>2. m_tmp' = Tail(full) /\ m_pool' = pool + 1 /\ freed' = freed \union {full[1].payload}
      BY <2>1, <2>6, <3>1
    <3>3. Tracked(m_tmp', freed', gone', lost)
      <4> SUFFICES ASSUME NEW o \in Messages, InProgress(o, gone'), Intact(o.seq, lost)
                   PROVE  HasBuffer(o, m_tmp', freed')
        BY DEF Tracked
      <4>1. HasBuffer(o, full, freed)
        BY <2>5 DEF Tracked
      <4>2. ASSUME NEW j \in 1..Len(full), full[j].payload[1][1] = o PROVE HasBuffer(o, m_tmp', freed')
        <5>1. CASE j = 1
          BY <3>2, <4>2, <5>1 DEF HasBuffer
        <5>2. CASE j # 1
          BY <3>1, <3>2, <4>2, <5>2 DEF HasBuffer
        <5> QED
          BY <5>1, <5>2
      <4> QED
        BY <3>2, <4>1, <4>2 DEF HasBuffer
    <3>4. Len(m_tmp') = Len(rest) /\ m_pool' \in Nat /\ m_pool' + Len(m_tmp') = pool + Len(rest) + 1
      <4>1. Len(m_tmp') = Len(full) - 1 /\ m_pool' = pool + 1
        BY <3>1, <3>2
      <4>2. Len(full) = Len(rest) + 1
        BY <2>4
      <4> QED
        BY <1>1, <4>1, <4>2
    <3>5. Kept(m_tmp', gone', lost) /\ freed \subseteq freed'
      BY <3>1, <3>2
    <3> QED
      BY <1>4, <2>1, <3>3, <3>4, <3>5
  <2>7. CASE ~(Len(rest) + 1 > MaxTmp)
    <3>1. m_tmp' = full /\ m_pool' = pool /\ freed' = freed
      BY <2>1, <2>7
    <3>2. Len(m_tmp') = Len(rest) + 1 /\ Len(m_tmp') <= MaxTmp
      BY <1>1, <2>4, <2>7, <3>1
    <3>3. m_pool' \in Nat /\ m_pool' + Len(m_tmp') = pool + Len(rest) + 1
      BY <1>1, <3>1, <3>2
    <3>4. Kept(m_tmp', gone', lost) /\ Tracked(m_tmp', freed', gone', lost)
      BY <2>4, <2>5, <3>1
    <3> QED
      BY <1>4, <2>1, <3>1, <3>2, <3>3, <3>4
  <2> QED
    BY <2>6, <2>7
<1> QED
  BY <1>3, <1>4

\* One message of those that have come whole.
Arrives(m) ==
  /\ gone'[m] = m.of /\ gone[m] # m.of /\ m.type \in vdm_objs
  /\ Intact(m.seq, lost') /\ ~(\E pl \in freed : pl[1][1] = m)

\* What decode() hands on when it has finished.
LEMMA HandedOn ==
  ASSUME VdmSizes, VdmInv, NEW m \in Messages, NEW p \in Buffers,
         gone' \in [Messages -> Nat], gone'[m] >= 1, lost' = lost,
         Fits(p), p.seqmsgid = m.seq, Intact(m.seq, lost) => p.payload = Begun(m, gone'[m]),
         handed \subseteq handed',
         \A pl \in handed' \ handed : pl = p.payload /\ p.fcounts = p.fnumber
  PROVE  NothingMixed' /\ PayloadsFitTogether'
<1>1. NothingMixed /\ PayloadsFitTogether
  BY DEF VdmInv
<1>2. ASSUME NEW pl \in handed' \ handed
      PROVE  /\ (\E o \in Messages : pl = Whole(o)) \/ (\E l \in lost : l[1].seq = pl[1][1].seq)
             /\ pl[1][2] = 1 /\ \A i \in DOMAIN pl : pl[i][1].seq = pl[1][1].seq
             /\ pl[Len(pl)][2] = pl[1][1].of
  <2>1. pl = p.payload /\ p.fcounts = p.fnumber
    BY <1>2
  <2>2. pl \in Payloads /\ DOMAIN pl = 1..Len(pl)
    BY <2>1 DEF Buffers, Payloads
  <2>3. /\ FitsTogether(pl) /\ pl[1][1].of = pl[Len(pl)][2] /\ pl[1][1].seq = m.seq
    BY <2>1 DEF Fits
  <2>4. CASE ~Intact(m.seq, lost)
    BY <2>2, <2>3, <2>4 DEF FitsTogether, Intact
  <2>5. CASE Intact(m.seq, lost)
    <3>1. pl = Begun(m, gone'[m]) /\ gone'[m] \in Nat /\ 1 \in 1..gone'[m] /\ gone'[m] \in 1..gone'[m]
      BY <2>1, <2>5
    <3>2. Len(pl) = gone'[m] /\ pl[1] = <<m, 1>> /\ pl[gone'[m]] = <<m, gone'[m]>>
      BY <3>1, BegunIs
    <3>3. m.of = gone'[m]
      BY <2>3, <3>2
    <3>4. pl = Whole(m)
      BY <3>1, <3>3 DEF Whole, Begun
    <3> QED
      BY <2>2, <2>3, <3>4 DEF FitsTogether
  <2> QED
    BY <2>4, <2>5
<1>3. NothingMixed'
  BY <1>1, <1>2 DEF NothingMixed
<1>4. PayloadsFitTogether'
  BY <1>1, <1>2 DEF PayloadsFitTogether
<1> QED
  BY <1>3, <1>4

LEMMA SentenceLost ==
  ASSUME VdmSizes, VdmInv, NEW m \in Messages, Lose(m)
  PROVE  VdmInv' /\ \A o \in Messages : ~Arrives(o)
<1>1. /\ MayCome(m) /\ gone' = [gone EXCEPT ![m] = @ + 1]
      /\ lost' = lost \union {<<m, gone[m] + 1>>}
      /\ UNCHANGED <<m_tmp, m_pool, created, vdm_objs, freed, handed>>
  BY DEF Lose, Number
<1>2. /\ gone' \in [Messages -> Nat] /\ gone'[m] = gone[m] + 1 /\ gone'[m] <= m.of
      /\ \A o \in Messages : o # m => gone'[o] = gone[o]
      /\ \A o \in Messages : gone'[o] <= o.of
      /\ OneAtATime(gone')
  BY <1>1, Advances
<1>3. ~Intact(m.seq, lost') /\ lost \subseteq lost' /\ \A q : Intact(q, lost') => Intact(q, lost)
  <2>1. <<m, gone[m] + 1>> \in lost' /\ <<m, gone[m] + 1>>[1] = m
    BY <1>1
  <2>2. ~Intact(m.seq, lost')
    BY <2>1 DEF Intact
  <2> QED
    BY <1>1, <2>2 DEF Intact
<1>4. Kept(m_tmp, gone, lost) /\ Tracked(m_tmp, freed, gone, lost)
  BY DEF VdmInv
<1>5. Kept(m_tmp', gone', lost')
  BY <1>1, <1>2, <1>3, <1>4, OthersKept
<1>6. Tracked(m_tmp', freed', gone', lost')
  <2> SUFFICES ASSUME NEW o \in Messages, InProgress(o, gone'), Intact(o.seq, lost')
               PROVE  HasBuffer(o, m_tmp, freed)
    BY <1>1 DEF Tracked
  <2>1. o # m
    BY <1>3
  <2>2. InProgress(o, gone)
    BY <1>2, <2>1 DEF InProgress
  <2> QED
    BY <1>3, <1>4, <2>2 DEF Tracked
<1>7. NothingMixed' /\ PayloadsFitTogether' /\ BuffersBounded' /\ m_pool' \in Nat
  BY <1>1, <1>3 DEF VdmInv, NothingMixed, PayloadsFitTogether, BuffersBounded
<1>8. ASSUME NEW o \in Messages PROVE ~Arrives(o)
  <2>1. CASE o = m
    BY <1>3, <2>1 DEF Arrives
  <2>2. CASE o # m
    BY <1>2, <2>2 DEF Arrives
  <2> QED
    BY <2>1, <2>2
<1> QED
  BY <1>2, <1>5, <1>6, <1>7, <1>8 DEF VdmInv

LEMMA FirstCame ==
  ASSUME VdmSizes, VdmInv, NEW m \in Messages, DecodeFirst(m)
  PROVE  VdmInv' /\ \A o \in Messages : Arrives(o) => Whole(o) \in handed'
<1> DEFINE p == [fcounts |-> m.of, fnumber |-> 1, seqmsgid |-> m.seq, payload |-> <<<<m, 1>>>>]
           pool == IF m_pool = 0 THEN 0 ELSE m_pool - 1
<1>1. /\ MayCome(m) /\ gone[m] + 1 = 1 /\ gone' = [gone EXCEPT ![m] = 1]
      /\ created' = IF m_pool = 0 THEN created + 1 ELSE created
      /\ Finish(p, m_tmp, pool) /\ lost' = lost /\ vdm_objs' = vdm_objs
  BY DEF DecodeFirst, Number
<1>2. /\ gone \in [Messages -> Nat] /\ Kept(m_tmp, gone, lost) /\ Tracked(m_tmp, freed, gone, lost)
      /\ m_pool \in Nat /\ BuffersBounded /\ MaxTmp \in Nat /\ m.of \in Nat
  BY DEF VdmInv, VdmSizes
<1>3. m_tmp \in Seq(Buffers) /\ Len(m_tmp) \in Nat /\ pool \in Nat
  BY <1>2 DEF Kept
<1>4. gone[m] = 0 /\ gone' = [gone EXCEPT ![m] = @ + 1]
  <2>1. gone[m] = 0
    BY <1>1, <1>2
  <2>2. [gone EXCEPT ![m] = @ + 1] = [gone EXCEPT ![m] = 1]
    BY <2>1
  <2> QED
    BY <1>1, <2>1, <2>2
<1>5. /\ gone' \in [Messages -> Nat] /\ gone'[m] = gone[m] + 1 /\ gone'[m] <= m.of
      /\ \A o \in Messages : o # m => gone'[o] = gone[o]
      /\ \A o \in Messages : gone'[o] <= o.of
      /\ OneAtATime(gone')
  BY <1>1, <1>4, Advances
<1>6. p.payload \in Payloads /\ Len(p.payload) = 1 /\ p.payload[1] = <<m, 1>>
  BY DEF Payloads
<1>7. p \in Buffers /\ Fits(p) /\ p.seqmsgid = m.seq
  BY <1>2, <1>6 DEF Buffers, Fits, FitsTogether
<1>8. gone'[m] = 1 /\ p.payload = Begun(m, gone'[m])
  BY <1>4, <1>5 DEF Begun
<1>9. Kept(m_tmp, gone', lost)
  BY <1>1, <1>2, <1>4, <1>5, OthersKept
<1>10. Intact(m.seq, lost) => \A i \in 1..Len(m_tmp) : m_tmp[i].seqmsgid # m.seq
  <2> SUFFICES ASSUME Intact(m.seq, lost), NEW i \in 1..Len(m_tmp), m_tmp[i].seqmsgid = m.seq
               PROVE  FALSE
    OBVIOUS
  <2>1. PICK o \in Messages : o.seq = m.seq /\ InProgress(o, gone)
    BY <1>2 DEF Kept, OfOne
  <2>2. gone[o] \in {0, o.of}
    BY <1>1, <1>4, <2>1 DEF MayCome
  <2>3. o.of \in Nat
    BY DEF VdmSizes
  <2> QED
    BY <2>1, <2>2, <2>3 DEF InProgress
<1>11. \A o \in Messages : o # m /\ InProgress(o, gone') /\ Intact(o.seq, lost) => HasBuffer(o, m_tmp, freed)
  BY <1>2, <1>5 DEF Tracked, InProgress
<1>12. Len(m_tmp) <= MaxTmp
  BY <1>2 DEF BuffersBounded
<1>13. gone'[m] >= 1
  BY <1>8
<1> HIDE DEF p, pool
<1>14. /\ Kept(m_tmp', gone', lost) /\ Tracked(m_tmp', freed', gone', lost)
       /\ handed \subseteq handed'
       /\ \A pl \in handed' \ handed : pl = p.payload /\ p.fcounts = p.fnumber
       /\ p.fcounts = p.fnumber /\ p.payload[1][1].type \in vdm_objs => p.payload \in handed'
       /\ m_pool' \in Nat /\ m_pool' + Len(m_tmp') = pool + Len(m_tmp) + 1
       /\ Len(m_tmp') <= MaxTmp
  <2>1. Finish(p, m_tmp, pool) /\ lost' = lost
    BY <1>1
  <2>2. gone' \in [Messages -> Nat] /\ gone'[m] >= 1 /\ gone'[m] <= m.of
    BY <1>5, <1>13
  <2>3. Intact(m.seq, lost) => /\ p.payload = Begun(m, gone'[m])
                               /\ \A i \in 1..Len(m_tmp) : m_tmp[i].seqmsgid # m.seq
    BY <1>8, <1>10
  <2>4. p \in Buffers /\ Fits(p) /\ p.seqmsgid = m.seq /\ pool \in Nat
    BY <1>3, <1>7
  <2> QED
    BY <2>1, <2>2, <2>3, <2>4, <1>9, <1>11, <1>12, Finished
<1>15. NothingMixed' /\ PayloadsFitTogether'
  BY <1>1, <1>5, <1>7, <1>8, <1>13, <1>14, HandedOn
<1>16. BuffersBounded'
  <2>1. Len(m_tmp') \in Nat
    BY <1>14 DEF Kept
  <2>2. created = m_pool + Len(m_tmp) /\ created <= MaxTmp + 1 /\ Len(m_tmp) <= MaxTmp
    BY <1>2 DEF BuffersBounded
  <2>3. CASE m_pool = 0
    <3>1. created' = created + 1 /\ pool = 0
      BY <1>1, <2>3 DEF pool
    <3> QED
      BY <1>2, <1>3, <1>14, <2>1, <2>2, <2>3, <3>1 DEF BuffersBounded
  <2>4. CASE m_pool # 0
    <3>1. created' = created /\ pool = m_pool - 1
      BY <1>1, <2>4 DEF pool
    <3> QED
      BY <1>2, <1>3, <1>14, <2>1, <2>2, <2>4, <3>1 DEF BuffersBounded
  <2> QED
    BY <2>3, <2>4
<1>17. ASSUME NEW o \in Messages, Arrives(o) PROVE Whole(o) \in handed'
  <2>1. o = m /\ m.of = 1 /\ m.type \in vdm_objs
    BY <1>5, <1>8, <1>17 DEF Arrives
  <2>2. p.payload = Whole(m) /\ p.fcounts = p.fnumber
    BY <1>8, <2>1 DEF Begun, Whole, p
  <2>3. p.payload[1][1].type \in vdm_objs
    BY <1>6, <2>1
  <2> QED
    BY <1>14, <2>1, <2>2, <2>3
<1> QED
  BY <1>1, <1>5, <1>14, <1>15, <1>16, <1>17 DEF VdmInv

LEMMA LaterCame ==
  ASSUME VdmSizes, VdmInv, NEW m \in Messages, DecodeNext(m)
  PROVE  VdmInv' /\ \A o \in Messages : Arrives(o) => Whole(o) \in handed'
<1>1. PICK i : i = SelectInSeq(m_tmp, LAMBDA q : q.seqmsgid = m.seq) /\ Extend(m, i)
  BY DEF DecodeNext
<1> DEFINE p == [m_tmp[i] EXCEPT !.fnumber = gone[m] + 1, !.payload = Append(@, <<m, gone[m] + 1>>)]
           rest == RemoveAt(m_tmp, i)
<1>2. /\ MayCome(m) /\ gone[m] + 1 > 1 /\ gone' = [gone EXCEPT ![m] = @ + 1]
      /\ created' = created /\ lost' = lost /\ vdm_objs' = vdm_objs
      /\ i = 0 => UNCHANGED <<m_tmp, m_pool, freed, handed>>
      /\ i # 0 => Finish(p, rest, m_pool)
  BY <1>1 DEF Extend, Number
<1>3. /\ gone \in [Messages -> Nat] /\ Kept(m_tmp, gone, lost) /\ Tracked(m_tmp, freed, gone, lost)
      /\ m_pool \in Nat /\ BuffersBounded /\ MaxTmp \in Nat /\ m.of \in Nat /\ OneAtATime(gone)
      /\ NothingMixed /\ PayloadsFitTogether
  BY DEF VdmInv, VdmSizes
<1>4. m_tmp \in Seq(Buffers) /\ Len(m_tmp) \in Nat
  BY <1>3 DEF Kept
<1>5. /\ gone' \in [Messages -> Nat] /\ gone'[m] = gone[m] + 1 /\ gone'[m] <= m.of
      /\ \A o \in Messages : o # m => gone'[o] = gone[o]
      /\ \A o \in Messages : gone'[o] <= o.of
      /\ OneAtATime(gone')
  BY <1>2, Advances
<1>6. InProgress(m, gone) /\ gone[m] \in Nat /\ gone[m] >= 1
  BY <1>2, <1>3, <1>5 DEF InProgress
<1>7. \/ i = 0 /\ \A j \in 1..Len(m_tmp) : m_tmp[j].seqmsgid # m.seq
      \/ i \in 1..Len(m_tmp) /\ m_tmp[i].seqmsgid = m.seq
  <2> DEFINE I == {j \in 1..Len(m_tmp) : m_tmp[j].seqmsgid = m.seq}
  <2>1. i = IF I # {} THEN Min(I) ELSE 0
    BY <1>1 DEF SelectInSeq
  <2>2. CASE I = {}
    BY <2>1, <2>2
  <2>3. CASE I # {}
    <3>1. I \subseteq Nat
      BY <1>4
    <3>2. \E j \in I : \A n \in I : j <= n
      BY <2>3, <3>1, LeastNatural, Zenon
    <3>3. Min(I) \in I
      <4> HIDE DEF I
      <4> QED
        BY <3>2 DEF Min
    <3> QED
      BY <2>1, <2>3, <3>3
  <2> QED
    BY <2>2, <2>3
\* A buffer that has its first sentence of o is of o's id.
<1>8. ASSUME NEW o \in Messages, NEW j \in 1..Len(m_tmp), m_tmp[j].payload[1][1] = o
      PROVE  m_tmp[j].seqmsgid = o.seq
  BY <1>3, <1>8 DEF Kept, Fits
<1>9. CASE i = 0
  <2>1. \A j \in 1..Len(m_tmp) : m_tmp[j].seqmsgid # m.seq
    BY <1>7, <1>9
  <2>2. UNCHANGED <<m_tmp, m_pool, created, vdm_objs, lost, freed, handed>>
    BY <1>2, <1>9
  <2>3. Kept(m_tmp', gone', lost')
    BY <1>3, <1>5, <2>1, <2>2, OthersKept
  <2>4. Intact(m.seq, lost) => \E pl \in freed : pl[1][1] = m
    BY <1>3, <1>6, <1>8, <2>1 DEF Tracked, HasBuffer
  <2>5. Tracked(m_tmp', freed', gone', lost')
    <3> SUFFICES ASSUME NEW o \in Messages, InProgress(o, gone'), Intact(o.seq, lost)
                 PROVE  HasBuffer(o, m_tmp, freed)
      BY <2>2 DEF Tracked
    <3>1. CASE o = m
      BY <2>4, <3>1 DEF HasBuffer
    <3>2. CASE o # m
      <4>1. InProgress(o, gone)
        BY <1>5, <3>2 DEF InProgress
      <4> QED
        BY <1>3, <4>1 DEF Tracked
    <3> QED
      BY <3>1, <3>2
  <2>6. NothingMixed' /\ PayloadsFitTogether' /\ BuffersBounded' /\ m_pool' \in Nat
    BY <1>3, <2>2 DEF NothingMixed, PayloadsFitTogether, BuffersBounded
  <2>7. ASSUME NEW o \in Messages, Arrives(o) PROVE FALSE
    <3>1. o = m
      BY <1>5, <2>7 DEF Arrives
    <3> QED
      BY <2>2, <2>4, <2>7, <3>1 DEF Arrives
  <2> QED
    BY <1>5, <2>3, <2>5, <2>6, <2>7 DEF VdmInv
<1>10. CASE i # 0
  <2>1. i \in 1..Len(m_tmp) /\ m_tmp[i].seqmsgid = m.seq /\ m_tmp[i] \in Buffers /\ Fits(m_tmp[i])
    BY <1>3, <1>4, <1>7, <1>10 DEF Kept
  <2>2. Finish(p, rest, m_pool) /\ lost' = lost
    BY <1>2, <1>10
  <2>3. /\ m_tmp[i].payload \in Payloads /\ Len(m_tmp[i].payload) \in Nat /\ Len(m_tmp[i].payload) >= 1
        /\ m_tmp[i].payload[1][2] = 1 /\ m_tmp[i].payload[1][1].seq = m.seq
        /\ m_tmp[i].fcounts = m_tmp[i].payload[1][1].of
        /\ \A k \in 1..Len(m_tmp[i].payload) : m_tmp[i].payload[k][1].seq = m.seq
    BY <2>1 DEF Fits, FitsTogether, Buffers, Payloads
  <2>4. <<m, gone[m] + 1>> \in Messages \X Nat
    BY <1>6
  <2>5. /\ p.payload \in Payloads /\ Len(p.payload) = Len(m_tmp[i].payload) + 1
        /\ p.payload[Len(p.payload)] = <<m, gone[m] + 1>>
        /\ \A k \in 1..Len(m_tmp[i].payload) : p.payload[k] = m_tmp[i].payload[k]
        /\ p.payload = Append(m_tmp[i].payload, <<m, gone[m] + 1>>)
    <3>1. p.payload = Append(m_tmp[i].payload, <<m, gone[m] + 1>>)
      BY <2>1 DEF Buffers
    <3> HIDE DEF p
    <3> QED
      BY <2>3, <2>4, <3>1 DEF Payloads
  <2>6. /\ p \in Buffers /\ p.seqmsgid = m.seq /\ p.fnumber = gone[m] + 1
        /\ p.fcounts = m_tmp[i].fcounts
    <3>1. PICK b \in Buffers : b = m_tmp[i]
      BY <2>1
    <3>2. PICK n \in Nat : n = gone[m] + 1
      BY <1>6
    <3>3. PICK pl \in Payloads : pl = Append(m_tmp[i].payload, <<m, gone[m] + 1>>)
      BY <2>5
    <3>4. p = [b EXCEPT !.fnumber = n, !.payload = pl]
      BY <3>1, <3>2, <3>3
    <3> HIDE DEF p
    <3>5. p \in Buffers /\ p.seqmsgid = b.seqmsgid /\ p.fnumber = n /\ p.fcounts = b.fcounts
      BY <3>4 DEF Buffers
    <3> QED
      BY <2>1, <3>1, <3>2, <3>5
  <2> HIDE DEF p, rest
  <2>7. Fits(p)
    <3>1. 1 \in 1..Len(m_tmp[i].payload) /\ p.payload[1] = m_tmp[i].payload[1] /\ Len(p.payload) >= 1
      BY <2>3, <2>5
    <3>2. \A k \in 1..Len(p.payload) : k \in 1..Len(m_tmp[i].payload) \/ k = Len(p.payload)
      BY <2>3, <2>5
    <3>3. p.payload[Len(p.payload)][1] = m /\ p.payload[Len(p.payload)][2] = gone[m] + 1
      BY <2>5
    <3>4. \A k \in 1..Len(p.payload) : p.payload[k][1].seq = m.seq
      BY <2>3, <2>5, <3>2, <3>3
    <3> QED
      BY <2>3, <2>6, <3>1, <3>3, <3>4 DEF Fits, FitsTogether
  <2>8. /\ Kept(rest, gone, lost) /\ Len(rest) = Len(m_tmp) - 1
        /\ \A j \in 1..Len(m_tmp) : j # i => \E k \in 1..Len(m_tmp)-1 : rest[k] = m_tmp[j]
        /\ Intact(m.seq, lost) => \A k \in 1..Len(m_tmp)-1 : rest[k].seqmsgid # m.seq
    BY <1>3, <2>1, RestKept DEF rest
  <2>9. Kept(rest, gone', lost)
    <3>1. \A k \in 1..Len(rest) : k \in 1..Len(m_tmp)-1
      BY <2>8
    <3> QED
      BY <1>5, <2>2, <2>8, <3>1, OthersKept
  <2>10. Intact(m.seq, lost) => /\ p.payload = Begun(m, gone'[m])
                                /\ \A k \in 1..Len(rest) : rest[k].seqmsgid # m.seq
    <3> SUFFICES ASSUME Intact(m.seq, lost)
                 PROVE  p.payload = Begun(m, gone'[m])
      BY <2>8
    <3>1. PICK o \in Messages : o.seq = m.seq /\ InProgress(o, gone) /\ m_tmp[i].payload = Begun(o, gone[o])
      BY <1>3, <2>1 DEF Kept, OfOne
    <3>2. o = m
      BY <1>3, <1>6, <3>1 DEF OneAtATime
    <3> QED
      BY <1>5, <1>6, <2>5, <3>1, <3>2, BegunIs
  <2>11. ASSUME NEW o \in Messages, o # m, InProgress(o, gone'), Intact(o.seq, lost)
         PROVE  HasBuffer(o, rest, freed)
    <3>1. InProgress(o, gone)
      BY <1>5, <2>11 DEF InProgress
    <3>2. o.seq # m.seq
      BY <1>3, <1>6, <2>11, <3>1 DEF OneAtATime
    <3>3. HasBuffer(o, m_tmp, freed)
      BY <1>3, <2>11, <3>1 DEF Tracked
    <3>4. ASSUME NEW j \in 1..Len(m_tmp), m_tmp[j].payload[1][1] = o
          PROVE  \E k \in 1..Len(rest) : rest[k].payload[1][1] = o
      <4>1. j # i
        BY <1>8, <2>1, <3>2, <3>4
      <4>2. PICK k \in 1..Len(m_tmp)-1 : rest[k] = m_tmp[j]
        BY <2>8, <4>1
      <4> QED
        BY <2>8, <3>4, <4>2
    <3> QED
      BY <3>3, <3>4 DEF HasBuffer
  <2>12. gone' \in [Messages -> Nat] /\ gone'[m] >= 1 /\ gone'[m] <= m.of
    BY <1>5, <1>6
  <2>13. Len(rest) <= MaxTmp /\ Len(rest) \in Nat
    BY <1>3, <1>4, <2>1, <2>8 DEF BuffersBounded
  <2>14. /\ Kept(m_tmp', gone', lost) /\ Tracked(m_tmp', freed', gone', lost)
         /\ handed \subseteq handed'
         /\ \A pl \in handed' \ handed : pl = p.payload /\ p.fcounts = p.fnumber
         /\ p.fcounts = p.fnumber /\ p.payload[1][1].type \in vdm_objs => p.payload \in handed'
         /\ m_pool' \in Nat /\ m_pool' + Len(m_tmp') = m_pool + Len(rest) + 1
         /\ Len(m_tmp') <= MaxTmp
    BY <1>3, <2>2, <2>6, <2>7, <2>9, <2>10, <2>11, <2>12, <2>13, Finished
  <2>15. NothingMixed' /\ PayloadsFitTogether'
    BY <2>2, <2>6, <2>7, <2>10, <2>12, <2>14, HandedOn
  <2>16. BuffersBounded'
    <3>1. Len(m_tmp') \in Nat
      BY <2>14 DEF Kept
    <3>2. created = m_pool + Len(m_tmp) /\ created <= MaxTmp + 1
      BY <1>3 DEF BuffersBounded
    <3> QED
      BY <1>2, <1>3, <1>4, <2>8, <2>14, <3>1, <3>2 DEF BuffersBounded
  <2>17. ASSUME NEW o \in Messages, Arrives(o) PROVE Whole(o) \in handed'
    <3>1. o = m /\ gone'[m] = m.of /\ m.type \in vdm_objs /\ Intact(m.seq, lost)
      BY <1>5, <2>2, <2>17 DEF Arrives
    <3>2. p.payload = Begun(m, m.of) /\ p.payload = Whole(m) /\ 1 \in 1..m.of
      BY <1>3, <2>10, <2>12, <3>1 DEF Begun, Whole
    <3>3. p.payload[1][1] = m
      <4>1. p.payload[1] = <<m, 1>>
        BY <1>3, <3>2, BegunIs, ZenonT(30)
      <4> QED
        BY <4>1
    <3>4. p.fcounts = p.fnumber
      <4>1. p.fcounts = m.of
        BY <2>7, <3>3 DEF Fits
      <4> QED
        BY <1>5, <2>6, <3>1, <4>1
    <3> QED
      BY <2>14, <3>1, <3>2, <3>3, <3>4
  <2> QED
    BY <1>5, <2>2, <2>14, <2>15, <2>16, <2>17 DEF VdmInv
<1> QED
  BY <1>9, <1>10

LEMMA VdmStep ==
  ASSUME VdmSizes, VdmInv, [VdmNext]_vdmVars
  PROVE  VdmInv' /\ \A m \in Messages : Arrives(m) => Whole(m) \in handed'
<1>1. ASSUME NEW m \in Messages, Lose(m)
      PROVE  VdmInv' /\ \A o \in Messages : Arrives(o) => Whole(o) \in handed'
  BY <1>1, SentenceLost
<1>2. ASSUME NEW m \in Messages, DecodeFirst(m)
      PROVE  VdmInv' /\ \A o \in Messages : Arrives(o) => Whole(o) \in handed'
  BY <1>2, FirstCame
<1>3. ASSUME NEW m \in Messages, DecodeNext(m)
      PROVE  VdmInv' /\ \A o \in Messages : Arrives(o) => Whole(o) \in handed'
  BY <1>3, LaterCame
<1>4. ASSUME UNCHANGED <<m_tmp, m_pool, created, gone, lost, freed, handed>>
      PROVE  VdmInv' /\ \A o \in Messages : Arrives(o) => Whole(o) \in handed'
  <2>1. VdmInv'
    BY <1>4 DEF VdmInv, NothingMixed, PayloadsFitTogether, BuffersBounded
  <2> QED
    BY <1>4, <2>1 DEF Arrives
<1> QED
  BY <1>1, <1>2, <1>3, <1>4 DEF VdmNext, AddVdmDat, vdmVars

(* Whatever sentences c_vdm_dec receives, in whatever order their messages    *)
(* interleave and however many of them are lost on their way: a decoder gets  *)
(* whole messages, unless a sentence with that id was lost; every message that*)
(* came whole is decoded; and the buffers stay within their bound.            *)
THEOREM MessagesReassemble == VdmSpec => MessagesArriveWhole
<1> VdmSizes
  BY VdmAssumption
<1> DEFINE Decoded ==
      \A m \in Messages :
        gone'[m] = m.of /\ gone[m] # m.of /\ m.type \in vdm_objs
        /\ ~(\E l \in lost' : l[1].seq = m.seq) /\ ~(\E pl \in freed : pl[1][1] = m)
        => Whole(m) \in handed'
<1>1. VdmInit => VdmInv
  BY VdmInvInit
<1>2. VdmInv /\ [VdmNext]_vdmVars => VdmInv'
  BY VdmStep
<1>3. VdmInv /\ [VdmNext]_vdmVars => Decoded
  <2> SUFFICES ASSUME VdmInv, [VdmNext]_vdmVars PROVE Decoded
    OBVIOUS
  <2>1. \A m \in Messages : Arrives(m) => Whole(m) \in handed'
    BY VdmStep
  <2> QED
    BY <2>1 DEF Arrives, Intact
<1>4. VdmInv => NothingMixed /\ PayloadsFitTogether /\ BuffersBounded
  BY DEF VdmInv
<1> HIDE DEF Decoded
<1>5. VdmSpec => [](NothingMixed /\ PayloadsFitTogether /\ BuffersBounded) /\ [][Decoded]_vdmVars
  BY <1>1, <1>2, <1>3, <1>4, PTL DEF VdmSpec
<1> QED
  BY <1>5, Zenon DEF MessagesArriveWhole, ArrivedIsDecoded, Decoded

-----------------------------------------------------------------------------
(* Channels, filters and libraries *)

Filter == [lib : FltrTypes, active : BOOLEAN, chin : Seq(Nat), chout : Seq(Nat), par : Nat]
Users(ty) == {n \in DOMAIN filters : filters[n].lib = ty}

RegInv ==
  /\ m_channels \in Seq(Nat) /\ made \in Seq([name : ChNames, type : ChTypes])
  /\ filters \in [DOMAIN filters -> Filter] /\ IsFiniteSet(DOMAIN filters)
  /\ LibraryStays
  /\ stage \in {"libs", "channels", "over"} => DOMAIN filters = {}
  /\ freedChs # {} => stage = "over"

\* What no step may do to a filter that stays.
PlacesKept ==
  \A n \in DOMAIN filters \cap DOMAIN filters' :
    filters'[n].lib = filters[n].lib =>
      IsPrefix(filters[n].chin, filters'[n].chin) /\ IsPrefix(filters[n].chout, filters'[n].chout)

LEMMA PrefixFacts ==
  ASSUME NEW s \in Seq(Nat), NEW u \in Seq(Nat)
  PROVE  s \o u \in Seq(Nat) /\ IsPrefix(s, s \o u) /\ IsPrefix(s, s)
<1>1. /\ s \o u \in Seq(Nat) /\ Len(s \o u) = Len(s) + Len(u) /\ Len(s) \in Nat /\ Len(u) \in Nat
      /\ \A i \in 1..Len(s) : (s \o u)[i] = s[i]
  BY ConcatProperties
<1>2. IsPrefix(s, s)
  BY <1>1 DEF IsPrefix
<1>3. SubSeq(s, 1, Len(s)) = SubSeq(s \o u, 1, Len(s))
  <2>1. \A i \in 1..Len(s) : s[i] \in Nat /\ (s \o u)[i] \in Nat /\ 1 + i - 1 = i
    BY <1>1
  <2>2. /\ SubSeq(s, 1, Len(s)) \in Seq(Nat) /\ Len(SubSeq(s, 1, Len(s))) = Len(s)
        /\ \A i \in 1..Len(s) : SubSeq(s, 1, Len(s))[i] = s[i]
    BY <1>1, <2>1
  <2>3. /\ SubSeq(s \o u, 1, Len(s)) \in Seq(Nat) /\ Len(SubSeq(s \o u, 1, Len(s))) = Len(s)
        /\ \A i \in 1..Len(s) : SubSeq(s \o u, 1, Len(s))[i] = s[i]
    BY <1>1, <2>1, SubSeqProperties
  <2> QED
    BY <1>1, <2>2, <2>3, SeqEqual
<1> QED
  BY <1>1, <1>2, <1>3 DEF IsPrefix

LEMMA NothingMoves ==
  ASSUME RegInv, filters' = filters
  PROVE  PlacesKept
<1>1. \A n \in DOMAIN filters : filters[n].chin \in Seq(Nat) /\ filters[n].chout \in Seq(Nat)
  BY DEF RegInv, Filter
<1> QED
  BY <1>1, PrefixFacts DEF PlacesKept

\* The counts hold as long as no filter changes its library.
LEMMA SameLibraries ==
  ASSUME RegInv, libs' = libs, DOMAIN filters' = DOMAIN filters,
         \A n \in DOMAIN filters : filters'[n].lib = filters[n].lib
  PROVE  LibraryStays'
<1>1. ASSUME NEW ty
      PROVE  {n \in DOMAIN filters' : filters'[n].lib = ty} = {n \in DOMAIN filters : filters[n].lib = ty}
  OBVIOUS
<1> QED
  BY <1>1 DEF RegInv, LibraryStays

\* A filter in which something else changes.
LEMMA FilterChanged ==
  ASSUME RegInv, NEW n \in DOMAIN filters, NEW x \in Filter,
         filters' = [filters EXCEPT ![n] = x], x.lib = filters[n].lib,
         IsPrefix(filters[n].chin, x.chin), IsPrefix(filters[n].chout, x.chout),
         stage = "serving", UNCHANGED <<m_channels, made, freedChs, libs, stage>>
  PROVE  RegInv' /\ PlacesKept
<1>1. /\ DOMAIN filters' = DOMAIN filters /\ filters'[n] = x
      /\ \A k \in DOMAIN filters : k # n => filters'[k] = filters[k]
      /\ filters' \in [DOMAIN filters -> Filter]
  BY DEF RegInv
<1>2. LibraryStays'
  <2>1. \A k \in DOMAIN filters : filters'[k].lib = filters[k].lib
    BY <1>1
  <2> QED
    BY <1>1, <2>1, SameLibraries
<1>3. PlacesKept
  <2>1. \A k \in DOMAIN filters : filters[k].chin \in Seq(Nat) /\ filters[k].chout \in Seq(Nat)
    BY DEF RegInv, Filter
  <2>2. \A k \in DOMAIN filters : IsPrefix(filters[k].chin, filters[k].chin) /\ IsPrefix(filters[k].chout, filters[k].chout)
    BY <2>1, PrefixFacts
  <2> QED
    BY <1>1, <2>2 DEF PlacesKept
<1> QED
  BY <1>1, <1>2, <1>3 DEF RegInv

LEMMA ChannelsChanged ==
  ASSUME RegInv, UNCHANGED <<filters, libs, stage, freedChs>>, m_channels' \in Seq(Nat),
         made' \in Seq([name : ChNames, type : ChTypes])
  PROVE  RegInv' /\ PlacesKept
<1>1. LibraryStays'
  BY SameLibraries
<1> QED
  BY <1>1, NothingMoves DEF RegInv

LEMMA PositionIs ==
  ASSUME RegInv, NEW n
  PROVE  /\ Position(n) \in Nat
         /\ Position(n) # 0 => Position(n) \in 1..Len(m_channels)
         /\ get_channel(n) \in Nat
<1> DEFINE I == {j \in 1..Len(m_channels) : made[m_channels[j]].name = n}
<1>1. Position(n) = IF I # {} THEN Min(I) ELSE 0
  BY DEF Position, SelectInSeq
<1>2. m_channels \in Seq(Nat) /\ Len(m_channels) \in Nat
  BY DEF RegInv
<1>3. Position(n) = 0 \/ Position(n) \in 1..Len(m_channels)
  <2>1. CASE I = {}
    BY <1>1, <2>1
  <2>2. CASE I # {}
    <3>1. I \subseteq Nat
      BY <1>2
    <3>2. \E j \in I : \A k \in I : j <= k
      BY <2>2, <3>1, LeastNatural, Zenon
    <3>3. Min(I) \in I
      <4> HIDE DEF I
      <4> QED
        BY <3>2 DEF Min
    <3> QED
      BY <1>1, <2>2, <3>3
  <2> QED
    BY <2>1, <2>2
<1>4. get_channel(n) \in Nat
  BY <1>2, <1>3 DEF get_channel, NoCh
<1> QED
  BY <1>2, <1>3, <1>4

LEMMA RegInvInit == RegInit => RegInv
<1> SUFFICES ASSUME RegInit PROVE RegInv
  OBVIOUS
<1>1. /\ m_channels = <<>> /\ made = <<>> /\ freedChs = {} /\ stage = "serving"
      /\ DOMAIN filters = {} /\ DOMAIN libs = {} /\ filters = <<>>
  BY DEF RegInit
<1>2. filters \in [DOMAIN filters -> Filter] /\ IsFiniteSet(DOMAIN filters)
  BY <1>1, FS_EmptySet
<1>3. LibraryStays
  BY <1>1 DEF LibraryStays
<1> QED
  BY <1>1, <1>2, <1>3 DEF RegInv

LEMMA ChannelAdded ==
  ASSUME RegInv, add_channel
  PROVE  RegInv' /\ PlacesKept
<1>1. PICK n \in ChNames, ty \in ChTypes :
        /\ made' = Append(made, [name |-> n, type |-> ty])
        /\ m_channels' = Append(m_channels, Len(made'))
  BY DEF add_channel
<1>2. made' \in Seq([name : ChNames, type : ChTypes])
  BY <1>1 DEF RegInv
<1>3. m_channels' \in Seq(Nat)
  <2>1. Len(made') \in Nat
    BY <1>2
  <2> QED
    BY <1>1, <2>1 DEF RegInv
<1> QED
  BY <1>2, <1>3, ChannelsChanged DEF add_channel

LEMMA ChannelDeleted ==
  ASSUME RegInv, del_channel
  PROVE  RegInv' /\ PlacesKept
<1>1. PICK n \in ChNames :
        IF Position(n) = 0 THEN UNCHANGED <<m_channels, freedChs>>
        ELSE m_channels' = RemoveAt(m_channels, Position(n)) /\ freedChs' = freedChs
  BY DEF del_channel, Freed
<1>2. m_channels \in Seq(Nat) /\ made \in Seq([name : ChNames, type : ChTypes])
  BY DEF RegInv
<1>3. m_channels' \in Seq(Nat)
  <2>1. CASE Position(n) = 0
    BY <1>1, <1>2, <2>1
  <2>2. CASE Position(n) # 0
    <3>1. Position(n) \in 1..Len(m_channels)
      BY <2>2, PositionIs
    <3>2. RemoveAt(m_channels, Position(n)) \in Seq(Nat)
      BY <1>2, <3>1, RemoveIs
    <3> QED
      BY <1>1, <2>2, <3>2
  <2> QED
    BY <2>1, <2>2
<1>4. freedChs' = freedChs
  BY <1>1
<1> QED
  BY <1>2, <1>3, <1>4, ChannelsChanged DEF del_channel

\* With a filter or a library more.
LEMMA FilterAdded ==
  ASSUME RegInv, add_filter, stage = "serving"
  PROVE  RegInv' /\ PlacesKept
<1>1. PICK n \in FltrNames \ DOMAIN filters, ty \in FltrTypes :
        \/ /\ filters' = With(filters, n, [lib |-> ty, active |-> FALSE, chin |-> <<>>,
                                           chout |-> <<>>, par |-> NoCh])
           /\ libs' = RefUp(ty)
        \/ ty \notin DOMAIN libs /\ libs' = With(libs, ty, 0) /\ filters' = filters
  BY DEF add_filter
<1>2. UNCHANGED <<m_channels, made, freedChs, stage>>
  BY DEF add_filter
<1>3. /\ filters \in [DOMAIN filters -> Filter] /\ IsFiniteSet(DOMAIN filters)
      /\ \A k \in DOMAIN filters : filters[k].lib \in DOMAIN libs
      /\ \A y \in DOMAIN libs : libs[y] = Cardinality(Users(y))
  BY DEF RegInv, LibraryStays, Users
<1>4. CASE ty \notin DOMAIN libs /\ libs' = With(libs, ty, 0) /\ filters' = filters
  <2>1. Users(ty) = {}
    BY <1>3, <1>4 DEF Users
  <2>2. Cardinality(Users(ty)) = 0
    BY <2>1, FS_EmptySet
  <2>3. LibraryStays'
    BY <1>3, <1>4, <2>2 DEF LibraryStays, Users, With
  <2> QED
    BY <1>2, <1>4, <2>3, NothingMoves DEF RegInv
<1>5. CASE /\ filters' = With(filters, n, [lib |-> ty, active |-> FALSE, chin |-> <<>>,
                                           chout |-> <<>>, par |-> NoCh])
           /\ libs' = RefUp(ty)
  <2> DEFINE x == [lib |-> ty, active |-> FALSE, chin |-> <<>>, chout |-> <<>>, par |-> NoCh]
  <2>1. x \in Filter /\ x.lib = ty
    BY DEF Filter, NoCh
  <2> HIDE DEF x
  <2>2. /\ DOMAIN filters' = DOMAIN filters \union {n} /\ filters'[n] = x
        /\ \A k \in DOMAIN filters : filters'[k] = filters[k]
        /\ filters' \in [DOMAIN filters \union {n} -> Filter]
    BY <1>3, <1>5, <2>1 DEF With, x
  <2>3. IsFiniteSet(DOMAIN filters \union {n})
    BY <1>3, FS_AddElement
  <2>4. /\ Users(ty)' = Users(ty) \union {n} /\ n \notin Users(ty)
        /\ \A y : y # ty => Users(y)' = Users(y)
    BY <2>1, <2>2 DEF Users
  <2>5. IsFiniteSet(Users(ty))
    BY <1>3, FS_Subset DEF Users
  <2>6. Cardinality(Users(ty) \union {n}) = Cardinality(Users(ty)) + 1
    BY <2>4, <2>5, FS_AddElement
  <2>7. /\ DOMAIN libs' = DOMAIN libs \union {ty} /\ libs'[ty] = Cardinality(Users(ty)')
        /\ \A y \in DOMAIN libs : y # ty => libs'[y] = libs[y]
    <3>1. CASE ty \in DOMAIN libs
      BY <1>3, <1>5, <2>4, <2>6, <3>1 DEF RefUp, With
    <3>2. CASE ty \notin DOMAIN libs
      <4>1. Users(ty) = {}
        BY <1>3, <3>2 DEF Users
      <4>2. Cardinality(Users(ty)) = 0
        BY <4>1, FS_EmptySet
      <4>3. Cardinality(Users(ty)') = 1
        BY <2>4, <2>6, <4>2
      <4> QED
        BY <1>5, <3>2, <4>3 DEF RefUp, With
    <3> QED
      BY <3>1, <3>2
  <2>8. LibraryStays'
    <3>1. \A k \in DOMAIN filters' : filters'[k].lib \in DOMAIN libs'
      BY <1>3, <2>1, <2>2, <2>7
    <3>2. \A y \in DOMAIN libs' : libs'[y] = Cardinality(Users(y)')
      BY <1>3, <2>4, <2>7
    <3> QED
      BY <3>1, <3>2 DEF LibraryStays, Users
  <2>9. PlacesKept
    <3>1. \A k \in DOMAIN filters : filters[k].chin \in Seq(Nat) /\ filters[k].chout \in Seq(Nat)
      BY <1>3 DEF Filter
    <3> QED
      BY <2>2, <3>1, PrefixFacts DEF PlacesKept
  <2> QED
    BY <1>2, <2>2, <2>3, <2>8, <2>9 DEF RegInv
<1> QED
  BY <1>1, <1>4, <1>5

LEMMA FilterDeleted ==
  ASSUME RegInv, del_filter, stage = "serving"
  PROVE  RegInv' /\ PlacesKept
<1>1. PICK n \in DOMAIN filters, ty \in FltrTypes :
        /\ ty = filters[n].lib
        /\ filters' = [k \in DOMAIN filters \ {n} |-> filters[k]]
        /\ libs' = IF libs[ty] = 1 THEN [y \in DOMAIN libs \ {ty} |-> libs[y]]
                   ELSE [libs EXCEPT ![ty] = @ - 1]
  BY DEF del_filter, RegInv, Filter
<1>2. UNCHANGED <<m_channels, made, freedChs, stage>>
  BY DEF del_filter
<1>3. /\ filters \in [DOMAIN filters -> Filter] /\ IsFiniteSet(DOMAIN filters)
      /\ \A k \in DOMAIN filters : filters[k].lib \in DOMAIN libs
      /\ \A y \in DOMAIN libs : libs[y] = Cardinality(Users(y))
  BY DEF RegInv, LibraryStays, Users
<1>4. /\ DOMAIN filters' = DOMAIN filters \ {n} /\ \A k \in DOMAIN filters' : filters'[k] = filters[k]
      /\ filters' \in [DOMAIN filters \ {n} -> Filter]
  BY <1>1, <1>3
<1>5. IsFiniteSet(DOMAIN filters \ {n})
  BY <1>3, FS_RemoveElement
<1>6. /\ Users(ty)' = Users(ty) \ {n} /\ n \in Users(ty)
      /\ \A y : y # ty => Users(y)' = Users(y)
  <2>1. n \in Users(ty)
    BY <1>1 DEF Users
  <2>2. ASSUME NEW y
        PROVE  Users(y)' = Users(y) \ {n}
    BY <1>4 DEF Users
  <2>3. ASSUME NEW y, y # ty
        PROVE  n \notin Users(y)
    BY <1>1, <2>3 DEF Users
  <2>4. ASSUME NEW y, y # ty
        PROVE  Users(y)' = Users(y)
    BY <2>2, <2>3, <2>4
  <2> QED
    BY <2>1, <2>2, <2>4
<1>7. IsFiniteSet(Users(ty)) /\ Cardinality(Users(ty)) \in Nat
  <2>1. IsFiniteSet(Users(ty))
    BY <1>3, FS_Subset DEF Users
  <2> QED
    BY <2>1, FS_CardinalityType
<1>8. /\ Cardinality(Users(ty)') = Cardinality(Users(ty)) - 1
      /\ IsFiniteSet(Users(ty)')
  BY <1>6, <1>7, FS_RemoveElement
<1>9. ty \in DOMAIN libs /\ libs[ty] = Cardinality(Users(ty))
  BY <1>1, <1>3
<1>10. LibraryStays'
  <2>1. CASE libs[ty] = 1
    <3>1. /\ DOMAIN libs' = DOMAIN libs \ {ty} /\ \A y \in DOMAIN libs' : libs'[y] = libs[y]
      BY <1>1, <2>1
    <3>2. Users(ty)' = {}
      BY <1>8, <1>9, <2>1, FS_EmptySet
    <3>3. ASSUME NEW k \in DOMAIN filters'
          PROVE  filters[k].lib # ty
      <4>1. filters[k].lib = ty => k \in Users(ty)
        BY <1>4 DEF Users
      <4>2. k # n /\ Users(ty) \ {n} = {}
        BY <1>4, <1>6, <3>2
      <4> QED
        BY <4>1, <4>2
    <3>4. \A k \in DOMAIN filters' : filters'[k].lib \in DOMAIN libs'
      BY <1>3, <1>4, <3>1, <3>3
    <3>5. ASSUME NEW y \in DOMAIN libs'
          PROVE  libs'[y] = Cardinality(Users(y)')
      BY <1>3, <1>6, <3>1
    <3> QED
      BY <3>4, <3>5 DEF LibraryStays, Users
  <2>2. CASE libs[ty] # 1
    <3>1. /\ DOMAIN libs' = DOMAIN libs /\ libs'[ty] = libs[ty] - 1
          /\ \A y \in DOMAIN libs : y # ty => libs'[y] = libs[y]
      BY <1>1, <1>9, <2>2
    <3>2. \A k \in DOMAIN filters' : filters'[k].lib \in DOMAIN libs'
      BY <1>3, <1>4, <3>1
    <3>3. ASSUME NEW y \in DOMAIN libs'
          PROVE  libs'[y] = Cardinality(Users(y)')
      <4>1. CASE y = ty
        BY <1>8, <1>9, <3>1, <4>1
      <4>2. CASE y # ty
        BY <1>3, <1>6, <3>1, <4>2
      <4> QED
        BY <4>1, <4>2
    <3> QED
      BY <3>2, <3>3 DEF LibraryStays, Users
  <2> QED
    BY <2>1, <2>2
<1>11. PlacesKept
  <2>1. \A k \in DOMAIN filters : filters[k].chin \in Seq(Nat) /\ filters[k].chout \in Seq(Nat)
    BY <1>3 DEF Filter
  <2> QED
    BY <1>4, <2>1, PrefixFacts DEF PlacesKept
<1> QED
  BY <1>2, <1>4, <1>5, <1>10, <1>11 DEF RegInv

LEMMA FilterSwitched ==
  ASSUME RegInv, stage = "serving", run_filter \/ stop_filter
  PROVE  RegInv' /\ PlacesKept
<1>1. PICK n \in DOMAIN filters, on \in BOOLEAN : filters' = [filters EXCEPT ![n].active = on]
  BY DEF run_filter, stop_filter
<1>2. PICK a \in Filter : a = filters[n]
  BY DEF RegInv
<1>3. PICK x \in Filter : x = [a EXCEPT !.active = on]
  BY DEF Filter
<1>4. filters' = [filters EXCEPT ![n] = x]
  BY <1>1, <1>2, <1>3
<1>5. x.lib = a.lib /\ x.chin = a.chin /\ x.chout = a.chout /\ a.chin \in Seq(Nat) /\ a.chout \in Seq(Nat)
  BY <1>3 DEF Filter
<1>6. IsPrefix(a.chin, x.chin) /\ IsPrefix(a.chout, x.chout)
  BY <1>5, PrefixFacts
<1> QED
  BY <1>2, <1>4, <1>5, <1>6, FilterChanged DEF run_filter, stop_filter

LEMMA ParameterSet ==
  ASSUME RegInv, stage = "serving", SetParCh
  PROVE  RegInv' /\ PlacesKept
<1>1. PICK n \in DOMAIN filters, c \in Nat : filters' = [filters EXCEPT ![n].par = c]
  BY PositionIs DEF SetParCh, NoCh
<1>2. PICK a \in Filter : a = filters[n]
  BY DEF RegInv
<1>3. PICK x \in Filter : x = [a EXCEPT !.par = c]
  BY DEF Filter
<1>4. filters' = [filters EXCEPT ![n] = x]
  BY <1>1, <1>2, <1>3
<1>5. x.lib = a.lib /\ x.chin = a.chin /\ x.chout = a.chout /\ a.chin \in Seq(Nat) /\ a.chout \in Seq(Nat)
  BY <1>3 DEF Filter
<1>6. IsPrefix(a.chin, x.chin) /\ IsPrefix(a.chout, x.chout)
  BY <1>5, PrefixFacts
<1> QED
  BY <1>2, <1>4, <1>5, <1>6, FilterChanged DEF SetParCh

LEMMA ChannelsSet ==
  ASSUME RegInv, stage = "serving", set_fltr_io_chs
  PROVE  RegInv' /\ PlacesKept
<1>1. \A n : Existing(n) \in Seq(Nat)
  BY PositionIs DEF Existing
<1>2. PICK n \in DOMAIN filters, a \in ChNames, more \in {<<>>} \union {Existing(b) : b \in ChNames} :
        \/ filters' = [filters EXCEPT ![n].chin = @ \o (Existing(a) \o more)]
        \/ filters' = [filters EXCEPT ![n].chout = @ \o (Existing(a) \o more)]
  BY DEF set_fltr_io_chs, Connected
<1>3. PICK u \in Seq(Nat) : u = Existing(a) \o more
  <2>1. <<>> \in Seq(Nat)
    BY EmptySeq
  <2>2. more \in Seq(Nat)
    BY <1>1, <2>1
  <2>3. Existing(a) \in Seq(Nat)
    BY <1>1
  <2>4. Existing(a) \o more \in Seq(Nat)
    BY <2>2, <2>3, PrefixFacts
  <2> QED
    BY <2>4
<1>4. PICK r \in Filter : r = filters[n]
  BY DEF RegInv
<1>5. r.chin \in Seq(Nat) /\ r.chout \in Seq(Nat)
  BY DEF Filter
<1>6. IsPrefix(r.chin, r.chin) /\ IsPrefix(r.chout, r.chout)
  BY <1>5, PrefixFacts
<1>7. UNCHANGED <<m_channels, made, freedChs, libs, stage>>
  BY DEF set_fltr_io_chs
<1>8. CASE filters' = [filters EXCEPT ![n].chin = @ \o (Existing(a) \o more)]
  <2>1. PICK i \in Seq(Nat) : i = r.chin \o u /\ IsPrefix(r.chin, i)
    BY <1>5, PrefixFacts
  <2>2. PICK x \in Filter : x = [r EXCEPT !.chin = i]
    BY DEF Filter
  <2>3. filters' = [filters EXCEPT ![n] = x]
    BY <1>3, <1>4, <1>8, <2>1, <2>2
  <2>4. x.lib = r.lib /\ x.chin = i /\ x.chout = r.chout
    BY <2>2 DEF Filter
  <2> QED
    BY <1>4, <1>6, <1>7, <2>1, <2>3, <2>4, FilterChanged
<1>9. CASE filters' = [filters EXCEPT ![n].chout = @ \o (Existing(a) \o more)]
  <2>1. PICK o \in Seq(Nat) : o = r.chout \o u /\ IsPrefix(r.chout, o)
    BY <1>5, PrefixFacts
  <2>2. PICK x \in Filter : x = [r EXCEPT !.chout = o]
    BY DEF Filter
  <2>3. filters' = [filters EXCEPT ![n] = x]
    BY <1>3, <1>4, <1>9, <2>1, <2>2
  <2>4. x.lib = r.lib /\ x.chin = r.chin /\ x.chout = o
    BY <2>2 DEF Filter
  <2> QED
    BY <1>4, <1>6, <1>7, <2>1, <2>3, <2>4, FilterChanged
<1> QED
  BY <1>2, <1>8, <1>9

LEMMA Cleared_aws ==
  ASSUME RegInv, clear_aws \/ (Exit /\ stage = "serving")
  PROVE  RegInv' /\ PlacesKept
<1>1. CASE Exit /\ stage = "serving"
  <2>1. UNCHANGED <<m_channels, made, freedChs, filters, libs>> /\ stage' = "filters"
    BY <1>1 DEF Exit
  <2>2. LibraryStays'
    BY <2>1, SameLibraries
  <2> QED
    BY <1>1, <2>1, <2>2, NothingMoves DEF RegInv
<1>2. CASE stage = "filters" /\ clear_aws
  <2>1. /\ stage' = "libs" /\ filters' = <<>> /\ UNCHANGED <<m_channels, made, freedChs>>
        /\ libs' = [ty \in DOMAIN libs |-> libs[ty] - Cardinality(Users(ty))]
    BY <1>2 DEF clear_aws, Users
  <2>2. DOMAIN filters' = {} /\ filters' \in [DOMAIN filters' -> Filter] /\ IsFiniteSet(DOMAIN filters')
    BY <2>1, FS_EmptySet
  <2>3. \A ty : Users(ty)' = {}
    BY <2>2 DEF Users
  <2>4. \A ty \in DOMAIN libs : libs[ty] = Cardinality(Users(ty)) /\ Cardinality(Users(ty)) \in Nat
    <3>1. \A ty : IsFiniteSet(Users(ty))
      <4>1. \A ty : Users(ty) \subseteq DOMAIN filters
        BY DEF Users
      <4> QED
        BY <4>1, FS_Subset DEF RegInv
    <3> QED
      BY <3>1, FS_CardinalityType DEF RegInv, LibraryStays, Users
  <2>5. ASSUME NEW ty \in DOMAIN libs'
        PROVE  libs'[ty] = 0 /\ Cardinality(Users(ty)') = 0
    <3>1. ty \in DOMAIN libs /\ libs'[ty] = libs[ty] - Cardinality(Users(ty))
      BY <2>1
    <3>2. libs[ty] - Cardinality(Users(ty)) = 0
      BY <2>4, <3>1
    <3>3. Users(ty)' = {} /\ Cardinality({}) = 0
      BY <2>3, FS_EmptySet
    <3>4. Cardinality(Users(ty)') = 0
      BY <3>3
    <3> QED
      BY <3>1, <3>2, <3>4
  <2>6. LibraryStays'
    BY <2>2, <2>5 DEF LibraryStays, Users
  <2>7. PlacesKept
    BY <2>2 DEF PlacesKept
  <2> QED
    BY <1>2, <2>1, <2>2, <2>6, <2>7 DEF RegInv
<1>3. CASE stage = "libs" /\ clear_aws
  <2>1. stage' = "channels" /\ libs' = <<>> /\ UNCHANGED <<m_channels, made, freedChs, filters>>
    BY <1>3 DEF clear_aws
  <2>2. DOMAIN filters = {} /\ DOMAIN libs' = {}
    BY <1>3, <2>1 DEF RegInv
  <2>3. LibraryStays'
    BY <2>1, <2>2 DEF LibraryStays
  <2> QED
    BY <1>3, <2>1, <2>2, <2>3, NothingMoves DEF RegInv
<1>4. CASE stage = "channels" /\ clear_aws
  <2>1. stage' = "over" /\ m_channels' = <<>> /\ UNCHANGED <<made, filters, libs>>
    BY <1>4 DEF clear_aws
  <2>2. DOMAIN filters = {}
    BY <1>4 DEF RegInv
  <2>3. LibraryStays'
    BY <2>1, SameLibraries
  <2> QED
    BY <1>4, <2>1, <2>2, <2>3, NothingMoves DEF RegInv
<1> QED
  BY <1>1, <1>2, <1>3, <1>4 DEF clear_aws

LEMMA RegStep ==
  ASSUME RegInv, [RegNext]_regVars
  PROVE  RegInv' /\ PlacesKept
<1>1. CASE UNCHANGED regVars
  <2>1. LibraryStays'
    BY <1>1, SameLibraries DEF regVars
  <2> QED
    BY <1>1, <2>1, NothingMoves DEF regVars, RegInv
<1> SUFFICES ASSUME RegNext PROVE RegInv' /\ PlacesKept
  BY <1>1
<1>2. CASE stage = "serving" /\ add_channel
  BY <1>2, ChannelAdded
<1>3. CASE stage = "serving" /\ del_channel
  BY <1>3, ChannelDeleted
<1>4. CASE stage = "serving" /\ add_filter
  BY <1>4, FilterAdded
<1>5. CASE stage = "serving" /\ del_filter
  BY <1>5, FilterDeleted
<1>6. CASE stage = "serving" /\ (run_filter \/ stop_filter)
  BY <1>6, FilterSwitched
<1>7. CASE stage = "serving" /\ set_fltr_io_chs
  BY <1>7, ChannelsSet
<1>8. CASE stage = "serving" /\ SetParCh
  BY <1>8, ParameterSet
<1>9. CASE clear_aws \/ (Exit /\ stage = "serving")
  BY <1>9, Cleared_aws
<1> QED
  BY <1>1, <1>2, <1>3, <1>4, <1>5, <1>6, <1>7, <1>8, <1>9 DEF RegNext

(* Whatever clients of c_aws make, delete and connect, in whatever order, a   *)
(* filter's library stays loaded and counts its filters, no filter's pointer  *)
(* leads to a deleted channel, and a channel keeps its place in a filter.     *)
THEOREM ConnectionsLast == RegSpec => ConnectionsStay
<1>1. RegInv /\ [RegNext]_regVars => RegInv' /\ PlacesKept
  BY RegStep
<1>2. RegInv => LibraryStays /\ NoChannelDangles
  <2> SUFFICES ASSUME RegInv PROVE NoChannelDangles
    BY DEF RegInv
  <2>1. freedChs = {} \/ DOMAIN filters = {}
    BY DEF RegInv
  <2> QED
    BY <2>1 DEF NoChannelDangles
<1> HIDE DEF PlacesKept
<1>3. RegSpec => [](LibraryStays /\ NoChannelDangles) /\ [][PlacesKept]_regVars
  BY RegInvInit, <1>1, <1>2, PTL DEF RegSpec
<1> QED
  BY <1>3, Zenon DEF ConnectionsStay, PositionsKept, PlacesKept
-------------------------------------------------------------------------------
(* The log (LogFiles).  The records of the files follow each other as the     *)
(* files do, the open file ends as what was logged does, and what a replay has*)
(* given is what lies behind its place in the files.                          *)
LogRecord == [t : Nat, n : Sizes]
FileRecord == [t : Nat, n : Sizes \union {Torn}]

\* The files' records are in the order of the files' times.
FilesOK ==
  /\ DOMAIN files \subseteq Nat \ {0} /\ IsFiniteSet(DOMAIN files)
  /\ files = [s \in DOMAIN files |-> files[s]]
  /\ \A s \in DOMAIN files : files[s] \in Seq(FileRecord)
  /\ \A s \in DOMAIN files : \A j, k \in 1..Len(files[s]) : j < k => files[s][j].t < files[s][k].t
  /\ \A s \in DOMAIN files : \A k \in 1..Len(files[s]) : s <= files[s][k].t
  /\ \A s, u \in DOMAIN files : s < u => \A k \in 1..Len(files[s]) : files[s][k].t < u

\* What was logged is what they hold, but for what a crash has cut.
LoggedOK ==
  /\ logged \in Seq(LogRecord)
  /\ \A i, j \in 1..Len(logged) : i < j => logged[i].t < logged[j].t
  /\ \A i \in 1..Len(logged) : \E s \in DOMAIN files : \E k \in 1..Len(files[s]) : logged[i] = files[s][k]
  /\ \A s \in DOMAIN files : \A k \in 1..Len(files[s]) :
       files[s][k].n # Torn => \E i \in 1..Len(logged) : logged[i] = files[s][k]

\* A cut record is the last of its file; a part of a time is of a time.
CutsOK ==
  /\ \A s \in DOMAIN stub : stub[s] \in Nat
  /\ \A s \in DOMAIN files : \A k \in 1..Len(files[s]) : files[s][k].n = Torn => k = Len(files[s])

\* The writer is ahead of all files; the open one is the last, and holds the
\* last records logged.
WriterOK ==
  /\ logClock \in Nat \ {0} /\ last_write \in Int
  /\ \A s \in DOMAIN files : s <= logClock /\ (s = logClock => Len(files[s]) = 0)
  /\ \A s \in DOMAIN files : \A k \in 1..Len(files[s]) : files[s][k].t < logClock
  /\ ofile # NoFile =>
       /\ ofile \in DOMAIN files /\ ofile < logClock
       /\ \A s \in DOMAIN files : s <= ofile
       /\ last_write + 1 = logClock /\ last_write > 0
       /\ Len(files[ofile]) <= Len(logged)
       /\ \A k \in 1..Len(files[ofile]) : files[ofile][k] = logged[(Len(logged) - Len(files[ofile])) + k]

\* The sorted times of the files, and the search among them.
TimesOK ==
  /\ logClock \in Nat
  /\ time_stamps \in Seq(Nat) /\ Len(time_stamps) >= 1
  /\ \A i \in 1..Len(time_stamps) : time_stamps[i] \in DOMAIN files
  /\ \A s \in DOMAIN files : \E i \in 1..Len(time_stamps) : s = time_stamps[i]
  /\ \A i, j \in 1..Len(time_stamps) : i < j => time_stamps[i] < time_stamps[j]
SearchOK ==
  /\ search.imin \in Nat /\ search.imax \in Nat /\ search.imin < search.imax
  /\ search = Halfway(search.imin, search.imax)
  /\ search.imax < Len(time_stamps)
  /\ Stamp(search.imin) <= logClock /\ logClock < Stamp(search.imax)
  /\ start = logClock

\* What the reader keeps fits its file, and the k-th record of file s lies
\* before it.
ReaderRec == [index : Int, timestamp : Int, ifile : Nat, at : Nat, eof : BOOLEAN]
PlaceOK(r) ==
  /\ r \in ReaderRec /\ r.index \in 0..Len(time_stamps)
  /\ r.index = Len(time_stamps) => r.ifile = NoFile
  /\ r.index # Len(time_stamps) =>
       /\ r.ifile = Stamp(r.index) /\ r.at <= Len(files[r.ifile])
       /\ r.eof => r.at = Len(files[r.ifile])
       /\ ~r.eof => r.at >= 1 /\ r.timestamp = files[r.ifile][r.at].t
Behind(r, s, k) == r.ifile = NoFile \/ s < r.ifile \/ (s = r.ifile /\ (k < r.at \/ r.eof))

ReaderOK ==
  /\ PlaceOK(Reader)
  /\ ifile # NoFile => first <= ifile
  /\ first \in DOMAIN files
  /\ \A s \in DOMAIN files : s > first => s > start
  /\ first <= start \/ \A s \in DOMAIN files : first <= s
\* The last record, given with false when a part of a time follows it.
Hidden(s, k) ==
  /\ ifile = NoFile /\ s \in DOMAIN stub /\ k = Len(files[s])
  /\ \A u \in DOMAIN files : u <= s
DeliveredOK ==
  /\ delivered \in Seq(FileRecord)
  /\ \A i, j \in 1..Len(delivered) : i < j => delivered[i].t < delivered[j].t
  /\ \A i \in 1..Len(delivered) : \E s \in DOMAIN files : \E k \in 1..Len(files[s]) :
       delivered[i] = files[s][k] /\ s >= first /\ Behind(Reader, s, k)
  /\ \A s \in DOMAIN files : \A k \in 1..Len(files[s]) :
       s >= first /\ Behind(Reader, s, k) =>
         Hidden(s, k) \/ \E i \in 1..Len(delivered) : delivered[i] = files[s][k]

LogInv ==
  /\ FilesOK /\ LoggedOK /\ Reader \in ReaderRec
  /\ replaying \in BOOLEAN /\ opening \in {"idle", "search", "opened"}
  /\ ~replaying => WriterOK /\ index = -1 /\ opening = "idle"
  /\ replaying => TimesOK
  /\ opening = "search" => replaying /\ index = -1 /\ SearchOK
  /\ index = -1 => delivered = <<>>
  /\ index # -1 => replaying /\ ReaderOK /\ DeliveredOK /\ start \in Int
-------------------------------------------------------------------------------
LEMMA LogStarts == LogInit => LogInv
<1> SUFFICES ASSUME LogInit PROVE LogInv
  OBVIOUS
<1>1. DOMAIN files = {}
  BY DEF LogInit
<1>2. FilesOK
  BY <1>1, FS_EmptySet DEF FilesOK, LogInit
<1>3. LoggedOK
  BY <1>1, EmptySeq DEF LoggedOK, LogInit
<1>4. WriterOK
  BY <1>1 DEF WriterOK, LogInit, NoFile
<1>5. Reader \in ReaderRec
  <2>1. index = -1 /\ timestamp = -1 /\ ifile = 0 /\ at = 0 /\ eof = FALSE
    BY DEF LogInit, NoFile
  <2>2. eof \in BOOLEAN
    BY <2>1, Zenon
  <2> QED
    BY <2>1, <2>2 DEF Reader, ReaderRec
<1> QED
  BY <1>2, <1>3, <1>4, <1>5 DEF LogInv, LogInit

\* The order of two records in the files is that of their files, or of their
\* places in one.
LEMMA RecordsFollow ==
  ASSUME FilesOK, NEW s, s \in DOMAIN files, NEW u, u \in DOMAIN files,
         NEW j, j \in 1..Len(files[s]), NEW k, k \in 1..Len(files[u])
  PROVE  /\ files[s][j].t \in Nat /\ files[u][k].t \in Nat /\ s \in Nat /\ u \in Nat
         /\ s < u => files[s][j].t < files[u][k].t
         /\ s = u /\ j < k => files[s][j].t < files[u][k].t
         /\ files[s][j].t < files[u][k].t => s < u \/ (s = u /\ j < k)
<1>1. s \in Nat /\ u \in Nat /\ j \in Nat /\ k \in Nat
  BY DEF FilesOK
<1>2. files[s][j] \in FileRecord /\ files[u][k] \in FileRecord
  BY ElementOfSeq DEF FilesOK
<1>3. files[s][j].t \in Nat /\ files[u][k].t \in Nat
  BY <1>2 DEF FileRecord
<1>4. s < u => files[s][j].t < files[u][k].t
  <2>1. s < u => files[s][j].t < u /\ u <= files[u][k].t
    BY DEF FilesOK
  <2> QED
    BY <1>1, <1>3, <2>1
<1>5. u < s => files[u][k].t < files[s][j].t
  <2>1. u < s => files[u][k].t < s /\ s <= files[s][j].t
    BY DEF FilesOK
  <2> QED
    BY <1>1, <1>3, <2>1
<1>6. s = u /\ j < k => files[s][j].t < files[u][k].t
  BY DEF FilesOK
<1>7. s = u /\ k < j => files[u][k].t < files[s][j].t
  BY DEF FilesOK
<1> QED
  BY <1>1, <1>3, <1>4, <1>5, <1>6, <1>7

LEMMA LogSound == LogInv /\ CutsOK => NothingLost /\ ReplayIsTheLog /\ NoneBeforeStart
<1> SUFFICES ASSUME LogInv, CutsOK PROVE NothingLost /\ ReplayIsTheLog /\ NoneBeforeStart
  OBVIOUS
<1>1. FilesOK /\ LoggedOK
  BY DEF LogInv
<1>2. \A s \in DOMAIN files : DOMAIN files[s] = 1..Len(files[s])
  BY <1>1 DEF FilesOK
<1>3. DOMAIN logged = 1..Len(logged)
  BY <1>1 DEF LoggedOK
<1>4. ASSUME NEW t \in Nat, NEW a
      PROVE  a \in RecordsFrom(t) <=>
               \E s \in DOMAIN files : \E k \in 1..Len(files[s]) : s >= t /\ a = files[s][k]
  BY <1>2 DEF RecordsFrom, Range
<1>5. NothingLost
  <2>1. Chronological(logged) /\ \A s \in DOMAIN files : Chronological(files[s])
    <3>1. \A i, j \in 1..Len(logged) : i < j => logged[i].t < logged[j].t
      BY <1>1 DEF LoggedOK
    <3>2. \A s \in DOMAIN files : \A j, k \in 1..Len(files[s]) : j < k => files[s][j].t < files[s][k].t
      BY <1>1 DEF FilesOK
    <3> QED
      BY <1>2, <1>3, <3>1, <3>2, Zenon DEF Chronological
  <2>2. ASSUME NEW a PROVE a \in Range(logged) <=> a \in RecordsFrom(0) /\ a.n # Torn
    <3>1. a \in Range(logged) <=> \E i \in 1..Len(logged) : a = logged[i]
      BY <1>3 DEF Range
    <3>2. \A s \in DOMAIN files : s >= 0
      BY <1>1 DEF FilesOK
    <3>3. a \in RecordsFrom(0) <=> \E s \in DOMAIN files : \E k \in 1..Len(files[s]) : a = files[s][k]
      BY <1>4, <3>2
    <3>4. /\ \A i \in 1..Len(logged) : \E s \in DOMAIN files : \E k \in 1..Len(files[s]) : logged[i] = files[s][k]
          /\ \A s \in DOMAIN files : \A k \in 1..Len(files[s]) :
               files[s][k].n # Torn => \E i \in 1..Len(logged) : logged[i] = files[s][k]
      BY <1>1 DEF LoggedOK
    <3>5. ASSUME a \in Range(logged) PROVE a \in RecordsFrom(0) /\ a.n # Torn
      <4>1. PICK i \in 1..Len(logged) : a = logged[i]
        BY <3>1, <3>5
      <4>2. a \in LogRecord
        BY <1>1, <4>1, ElementOfSeq DEF LoggedOK
      <4>3. a.n # Torn
        BY <4>2, LogAssumption DEF LogRecord, Torn
      <4> QED
        BY <3>3, <3>4, <4>1, <4>3
    <3>6. ASSUME a \in RecordsFrom(0), a.n # Torn PROVE a \in Range(logged)
      <4>1. PICK s \in DOMAIN files : \E k \in 1..Len(files[s]) : a = files[s][k]
        BY <3>3, <3>6
      <4>2. PICK k \in 1..Len(files[s]) : a = files[s][k]
        BY <4>1
      <4>3. PICK i \in 1..Len(logged) : logged[i] = files[s][k]
        BY <3>4, <3>6, <4>2
      <4> QED
        BY <3>1, <4>2, <4>3
    <3> QED
      BY <3>5, <3>6
  <2>3. ASSUME NEW s \in DOMAIN files, NEW u \in DOMAIN files, s < u,
               NEW a \in Range(files[s]), NEW b \in Range(files[u])
        PROVE  a.t < b.t
    <3>1. PICK j \in 1..Len(files[s]) : a = files[s][j]
      BY <1>2 DEF Range
    <3>2. PICK k \in 1..Len(files[u]) : b = files[u][k]
      BY <1>2 DEF Range
    <3> QED
      BY <1>1, <2>3, <3>1, <3>2, RecordsFollow
  <2>4. \A s \in DOMAIN files : \A k \in DOMAIN files[s] : files[s][k].n = Torn => k = Len(files[s])
    BY <1>2 DEF CutsOK
  <2>5. Range(logged) = {a \in RecordsFrom(0) : a.n # Torn}
    BY <2>2
  <2> QED
    BY <2>1, <2>3, <2>4, <2>5 DEF NothingLost
<1>6. ASSUME index # -1
      PROVE  ReaderOK /\ DeliveredOK /\ first \in Nat /\ first \in DOMAIN files
             /\ DOMAIN delivered = 1..Len(delivered)
  BY <1>1, <1>6 DEF LogInv, ReaderOK, DeliveredOK, FilesOK
<1>7. ASSUME index # -1, NEW b
      PROVE  b \in Range(delivered) <=> \E i \in 1..Len(delivered) : b = delivered[i]
  BY <1>6, <1>7 DEF Range
<1>10. ASSUME index # -1, ifile = NoFile, NEW s \in DOMAIN files, NEW k \in 1..Len(files[s]), s >= first
       PROVE  files[s][k] \in Range(delivered) \union LastBeforeStub
  <2>1. Hidden(s, k) \/ \E i \in 1..Len(delivered) : delivered[i] = files[s][k]
    BY <1>6, <1>10 DEF DeliveredOK, Behind, Reader
  <2>2. ASSUME Hidden(s, k) PROVE files[s][k] \in LastBeforeStub
    <3>1. s \in DOMAIN stub /\ (\A v \in DOMAIN files : v <= s) /\ k = Len(files[s])
      BY <2>2 DEF Hidden
    <3>2. files[s] # <<>>
      BY <1>2
    <3> QED
      BY <3>1, <3>2 DEF LastBeforeStub
  <2> QED
    BY <1>7, <1>10, <2>1, <2>2
<1>8. ReplayIsTheLog
  <2> SUFFICES ASSUME index # -1
               PROVE  /\ Chronological(delivered) /\ Range(delivered) \subseteq RecordsFrom(first)
                      /\ \A a \in RecordsFrom(first), b \in Range(delivered) : a.t < b.t => a \in Range(delivered)
                      /\ ifile = NoFile => RecordsFrom(first) \subseteq Range(delivered) \union LastBeforeStub
    BY DEF ReplayIsTheLog
  <2>1. Chronological(delivered)
    BY <1>6 DEF Chronological, DeliveredOK
  <2>2. ASSUME NEW b \in Range(delivered)
        PROVE  \E s \in DOMAIN files : \E k \in 1..Len(files[s]) : b = files[s][k] /\ s >= first /\ Behind(Reader, s, k)
    <3>1. PICK i \in 1..Len(delivered) : b = delivered[i]
      BY <1>7
    <3> QED
      BY <1>6, <3>1 DEF DeliveredOK
  <2>3. Range(delivered) \subseteq RecordsFrom(first)
    BY <1>4, <1>6, <2>2
  <2>4. ASSUME NEW a \in RecordsFrom(first), NEW b \in Range(delivered), a.t < b.t
        PROVE  a \in Range(delivered)
    <3>1. PICK s \in DOMAIN files : \E j \in 1..Len(files[s]) : a = files[s][j] /\ s >= first
      BY <1>4, <1>6
    <3>2. PICK j \in 1..Len(files[s]) : a = files[s][j] /\ s >= first
      BY <3>1
    <3>3. PICK u \in DOMAIN files : \E k \in 1..Len(files[u]) : b = files[u][k] /\ Behind(Reader, u, k)
      BY <2>2
    <3>4. PICK k \in 1..Len(files[u]) : b = files[u][k] /\ Behind(Reader, u, k)
      BY <3>3
    <3>5. (s < u \/ (s = u /\ j < k)) /\ s \in Nat /\ u \in Nat
      BY <1>1, <2>4, <3>2, <3>4, RecordsFollow
    <3>6. Behind(Reader, s, j)
      <4>1. CASE ifile = NoFile
        BY <4>1 DEF Behind, Reader
      <4>2. CASE ifile # NoFile
        <5>1. ifile \in DOMAIN files /\ at \in Int
          <6>1. index \in 0..(Len(time_stamps) - 1) /\ ifile = Stamp(index) /\ at \in Int
            BY <1>6, <4>2 DEF ReaderOK, PlaceOK, Reader, ReaderRec
          <6>2. replaying /\ TimesOK
            BY DEF LogInv
          <6> QED
            BY <6>1, <6>2 DEF TimesOK, Stamp
        <5>2. ifile \in Nat
          BY <1>1, <5>1 DEF FilesOK
        <5> QED
          BY <3>4, <3>5, <4>2, <5>1, <5>2 DEF Behind, Reader
      <4> QED
        BY <4>1, <4>2
    <3>7. ~Hidden(s, j)
      <4> SUFFICES ASSUME Hidden(s, j) PROVE FALSE
        OBVIOUS
      <4>1. u <= s /\ j = Len(files[s])
        BY DEF Hidden
      <4>2. k <= Len(files[u]) /\ Len(files[u]) \in Nat /\ j \in Nat
        BY <1>1 DEF FilesOK
      <4> QED
        BY <3>5, <4>1, <4>2
    <3> QED
      BY <1>6, <1>7, <3>2, <3>6, <3>7 DEF DeliveredOK
  <2>5. ASSUME ifile = NoFile, NEW a \in RecordsFrom(first)
        PROVE  a \in Range(delivered) \union LastBeforeStub
    <3>1. PICK s \in DOMAIN files : \E j \in 1..Len(files[s]) : a = files[s][j] /\ s >= first
      BY <1>4, <1>6
    <3>2. PICK j \in 1..Len(files[s]) : a = files[s][j] /\ s >= first
      BY <3>1
    <3> QED
      BY <1>10, <2>5, <3>2
  <2> QED
    BY <2>1, <2>3, <2>4, <2>5
<1>9. NoneBeforeStart
  <2> SUFFICES ASSUME index # -1
               PROVE  /\ \A s \in DOMAIN files : s > first => s > start
                      /\ ifile = NoFile =>
                           \A a \in Range(logged) : a.t >= start => a \in Range(delivered) \union LastBeforeStub
    BY DEF NoneBeforeStart
  <2>1. \A s \in DOMAIN files : s > first => s > start
    BY <1>6 DEF ReaderOK
  <2>2. ASSUME ifile = NoFile, NEW a \in Range(logged), a.t >= start
        PROVE  a \in Range(delivered) \union LastBeforeStub
    <3> PICK i \in 1..Len(logged) : a = logged[i]
      BY <1>3 DEF Range
    <3>1. PICK s \in DOMAIN files : \E k \in 1..Len(files[s]) : a = files[s][k]
      BY <1>1 DEF LoggedOK
    <3>2. PICK k \in 1..Len(files[s]) : a = files[s][k]
      BY <3>1
    <3>3. s \in Nat /\ a.t \in Nat
      BY <1>1, <3>2, RecordsFollow
    <3>4. s >= first
      <4>1. CASE \A u \in DOMAIN files : first <= u
        BY <1>6, <3>3, <4>1
      <4>2. CASE first <= start
        <5>1. s < first => a.t < first
          BY <1>1, <1>6, <3>2 DEF FilesOK
        <5>2. start \in Int
          BY DEF LogInv
        <5> QED
          BY <1>6, <2>2, <3>3, <4>2, <5>1, <5>2
      <4> QED
        BY <1>6, <4>1, <4>2 DEF ReaderOK
    <3> QED
      BY <1>10, <2>2, <3>2, <3>4
  <2> QED
    BY <2>1, <2>2
<1> QED
  BY <1>5, <1>8, <1>9

-------------------------------------------------------------------------------
LEMMA WriteKeepsLog == LogInv /\ write => LogInv'
<1> SUFFICES ASSUME LogInv, write PROVE LogInv'
  OBVIOUS
<1>1. FilesOK /\ LoggedOK /\ WriterOK /\ ~replaying /\ index = -1 /\ opening = "idle" /\ delivered = <<>>
  BY DEF LogInv, write
<1> PICK t \in logClock..MaxTime, n \in Sizes :
      LET rec == [t |-> t, n |-> n]
          fresh == ofile = NoFile \/ total_size + n > size_max
      IN  /\ ofile' = IF fresh THEN t ELSE ofile
          /\ files' = WithFile(ofile', IF fresh THEN <<rec>> ELSE Append(files[ofile], rec))
          /\ last_write' = t /\ logClock' = t + 1 /\ logged' = Append(logged, rec)
  BY DEF write, FileName
<1> DEFINE rec == [t |-> t, n |-> n]
           fresh == ofile = NoFile \/ total_size + n > size_max
           recs == IF fresh THEN <<rec>> ELSE Append(files[ofile], rec)
<1>2. t \in Nat /\ t > 0 /\ logClock \in Nat /\ logClock <= t /\ rec \in LogRecord /\ rec \in FileRecord /\ rec.t = t
  BY <1>1, LogAssumption DEF WriterOK, LogRecord, FileRecord
<1>3. /\ ofile' = IF fresh THEN t ELSE ofile
      /\ DOMAIN files' = DOMAIN files \union {ofile'}
      /\ files' = [s \in DOMAIN files' |-> files'[s]]
      /\ files'[ofile'] = recs
      /\ \A s \in DOMAIN files : s # ofile' => files'[s] = files[s]
  BY DEF WithFile
<1>4. /\ DOMAIN files \subseteq Nat \ {0}
      /\ \A s \in DOMAIN files : s \in Nat /\ files[s] \in Seq(FileRecord) /\ Len(files[s]) \in Nat
      /\ logged \in Seq(LogRecord) /\ Len(logged) \in Nat
  BY <1>1 DEF FilesOK, LoggedOK
<1>5. ofile' \in Nat \ {0} /\ ofile' <= t /\ \A s \in DOMAIN files : s <= ofile'
  <2>1. CASE fresh
    BY <1>1, <1>2, <1>3, <1>4, <2>1 DEF WriterOK
  <2>2. CASE ~fresh
    BY <1>1, <1>2, <1>3, <1>4, <2>2 DEF WriterOK
  <2> QED
    BY <2>1, <2>2
<1> DEFINE old == IF ofile' \in DOMAIN files THEN files[ofile'] ELSE <<>>
<1>6. old \in Seq(FileRecord) /\ recs = Append(old, rec)
  <2>1. CASE fresh
    <3>1. old = <<>>
      <4>1. t \in DOMAIN files => t = logClock /\ files[t] \in Seq(FileRecord)
        BY <1>1, <1>2, <1>4 DEF WriterOK
      <4>2. t \in DOMAIN files => Len(files[t]) = 0
        BY <1>1, <4>1 DEF WriterOK
      <4> QED
        BY <1>3, <2>1, <4>1, <4>2, EmptySeq
    <3>2. Append(<<>>, rec) = <<rec>>
      OBVIOUS
    <3> HIDE DEF rec
    <3> QED
      BY <2>1, <3>1, <3>2, EmptySeq
  <2>2. CASE ~fresh
    BY <1>1, <1>3, <1>4, <2>2 DEF WriterOK
  <2> QED
    BY <2>1, <2>2
<1>7. /\ Len(old) \in Nat /\ recs \in Seq(FileRecord) /\ Len(recs) = Len(old) + 1 /\ recs[Len(old) + 1] = rec
      /\ \A k \in 1..Len(old) : recs[k] = old[k]
  <2> HIDE DEF recs, old, rec
  <2> QED
    BY <1>2, <1>6, AppendProperties
<1>8. \A k \in 1..Len(old) : ofile' \in DOMAIN files /\ old[k] = files[ofile'][k] /\ k \in 1..Len(files[ofile'])
  BY EmptySeq
<1> HIDE DEF recs, old, rec, fresh
<1>9. \A k \in 1..Len(old) : old[k].t \in Nat /\ ofile' <= old[k].t /\ old[k].t < t
  <2> SUFFICES ASSUME NEW k \in 1..Len(old)
               PROVE  old[k].t \in Nat /\ ofile' <= old[k].t /\ old[k].t < t
    OBVIOUS
  <2>1. old[k].t \in Nat
    BY <1>1, <1>8, RecordsFollow
  <2>2. ofile' <= old[k].t
    BY <1>1, <1>8 DEF FilesOK
  <2>3. old[k].t < logClock
    BY <1>1, <1>8 DEF WriterOK
  <2> QED
    BY <1>2, <2>1, <2>2, <2>3
<1>10. \A s \in DOMAIN files' : s = ofile' \/ (s \in DOMAIN files /\ s # ofile' /\ files'[s] = files[s] /\ s < ofile')
  BY <1>3, <1>4, <1>5, SMTT(30)
<1>11. FilesOK'
  <2>1. DOMAIN files' \subseteq Nat \ {0} /\ IsFiniteSet(DOMAIN files')
    <3>1. IsFiniteSet(DOMAIN files)
      BY <1>1 DEF FilesOK
    <3>2. IsFiniteSet(DOMAIN files \union {ofile'})
      BY <3>1, FS_AddElement
    <3> QED
      BY <1>3, <1>4, <1>5, <3>2
  <2>2. \A s \in DOMAIN files' : files'[s] \in Seq(FileRecord)
    BY <1>3, <1>4, <1>7, <1>10
  <2>3. ASSUME NEW s \in DOMAIN files'
        PROVE  \A j, k \in 1..Len(files'[s]) : j < k => files'[s][j].t < files'[s][k].t
    <3>1. CASE s = ofile'
      <4> SUFFICES ASSUME NEW j \in 1..Len(recs), NEW k \in 1..Len(recs), j < k
                   PROVE  recs[j].t < recs[k].t
        BY <1>3, <3>1
      <4>1. j \in 1..Len(old)
        BY <1>7
      <4>2. CASE k = Len(old) + 1
        BY <1>2, <1>7, <1>9, <4>1, <4>2
      <4>3. CASE k \in 1..Len(old)
        BY <1>1, <1>7, <1>8, <4>1, <4>3 DEF FilesOK
      <4> QED
        BY <1>7, <4>2, <4>3
    <3>2. CASE s # ofile'
      BY <1>1, <1>10, <3>2, ZenonT(30) DEF FilesOK
    <3> QED
      BY <3>1, <3>2
  <2>4. ASSUME NEW s \in DOMAIN files', NEW k \in 1..Len(files'[s])
        PROVE  s <= files'[s][k].t
    <3>1. CASE s = ofile'
      <4>1. k \in 1..Len(old) \/ k = Len(old) + 1
        BY <1>3, <1>7, <3>1
      <4> QED
        BY <1>2, <1>3, <1>5, <1>7, <1>9, <3>1, <4>1
    <3>2. CASE s # ofile'
      BY <1>1, <1>10, <3>2 DEF FilesOK
    <3> QED
      BY <3>1, <3>2
  <2>5. ASSUME NEW s \in DOMAIN files', NEW u \in DOMAIN files', s < u, NEW k \in 1..Len(files'[s])
        PROVE  files'[s][k].t < u
    <3>1. s \in DOMAIN files /\ s # ofile' /\ files'[s] = files[s]
      <4>1. u <= ofile' /\ u \in Nat /\ ofile' \in Nat
        BY <1>4, <1>5, <1>10
      <4>2. s # ofile'
        BY <2>5, <4>1
      <4> QED
        BY <1>10, <4>2
    <3>2. CASE u \in DOMAIN files
      BY <1>1, <2>5, <3>1, <3>2 DEF FilesOK
    <3>3. CASE u = ofile' /\ u \notin DOMAIN files
      <4>1. u = t
        BY <1>1, <1>3, <3>3 DEF WriterOK, fresh
      <4>2. files[s][k].t < logClock /\ files[s][k].t \in Nat
        BY <1>1, <3>1, RecordsFollow DEF WriterOK
      <4> QED
        BY <1>2, <3>1, <4>1, <4>2
    <3> QED
      BY <1>10, <3>2, <3>3
  <2> QED
    BY <1>3, <2>1, <2>2, <2>3, <2>4, <2>5 DEF FilesOK
<1>12. /\ logged' \in Seq(LogRecord) /\ Len(logged') = Len(logged) + 1 /\ logged'[Len(logged) + 1] = rec
       /\ \A i \in 1..Len(logged) : logged'[i] = logged[i]
  <2>1. logged' = Append(logged, rec)
    BY DEF rec
  <2> QED
    BY <1>2, <1>4, <2>1, AppendProperties
<1>13. \A i \in 1..Len(logged) : logged[i].t \in Nat /\ logged[i].t < t
  <2> SUFFICES ASSUME NEW i \in 1..Len(logged) PROVE logged[i].t \in Nat /\ logged[i].t < t
    OBVIOUS
  <2>1. PICK s \in DOMAIN files : \E k \in 1..Len(files[s]) : logged[i] = files[s][k]
    BY <1>1 DEF LoggedOK
  <2>2. PICK k \in 1..Len(files[s]) : logged[i] = files[s][k]
    BY <2>1
  <2>3. files[s][k].t < logClock /\ files[s][k].t \in Nat
    BY <1>1, RecordsFollow DEF WriterOK
  <2> QED
    BY <1>2, <2>2, <2>3
<1>14. LoggedOK'
  <2>1. ASSUME NEW i \in 1..Len(logged'), NEW j \in 1..Len(logged'), i < j
        PROVE  logged'[i].t < logged'[j].t
    <3>1. i \in 1..Len(logged)
      BY <1>4, <1>12, <2>1
    <3>2. CASE j = Len(logged) + 1
      BY <1>2, <1>12, <1>13, <3>1, <3>2
    <3>3. CASE j \in 1..Len(logged)
      BY <1>1, <1>12, <2>1, <3>1, <3>3 DEF LoggedOK
    <3> QED
      BY <1>4, <1>12, <3>2, <3>3
  <2>2. ASSUME NEW i \in 1..Len(logged')
        PROVE  \E s \in DOMAIN files' : \E k \in 1..Len(files'[s]) : logged'[i] = files'[s][k]
    <3>1. CASE i = Len(logged) + 1
      <4>1. Len(old) + 1 \in 1..Len(files'[ofile'])
        BY <1>3, <1>7
      <4>2. ofile' \in DOMAIN files' /\ logged'[i] = files'[ofile'][Len(old) + 1]
        BY <1>3, <1>7, <1>12, <3>1
      <4> QED
        BY <4>1, <4>2, Zenon
    <3>2. CASE i \in 1..Len(logged)
      <4>1. PICK s \in DOMAIN files : \E k \in 1..Len(files[s]) : logged[i] = files[s][k]
        BY <1>1, <3>2 DEF LoggedOK
      <4>2. PICK k \in 1..Len(files[s]) : logged[i] = files[s][k]
        BY <4>1
      <4>3. k \in 1..Len(files'[s]) /\ files'[s][k] = files[s][k]
        <5>1. CASE s = ofile'
          <6>1. old = files[s]
            BY <5>1 DEF old
          <6> QED
            BY <1>3, <1>7, <5>1, <6>1, SMTT(30)
        <5>2. CASE s # ofile'
          BY <1>3, <5>2
        <5> QED
          BY <5>1, <5>2
      <4>4. s \in DOMAIN files' /\ logged'[i] = files'[s][k]
        BY <1>3, <1>12, <3>2, <4>2, <4>3
      <4> QED
        BY <4>3, <4>4, Zenon
    <3>3. i = Len(logged) + 1 \/ i \in 1..Len(logged)
      BY <1>4, <1>12
    <3> QED
      BY <3>1, <3>2, <3>3, Zenon
  <2>3. ASSUME NEW s \in DOMAIN files', NEW k \in 1..Len(files'[s]), files'[s][k].n # Torn
        PROVE  \E i \in 1..Len(logged') : logged'[i] = files'[s][k]
    <3>1. CASE s = ofile' /\ k = Len(old) + 1
      <4>1. Len(logged) + 1 \in 1..Len(logged')
        BY <1>4, <1>12
      <4> QED
        BY <1>3, <1>7, <1>12, <3>1, <4>1
    <3>2. CASE ~(s = ofile' /\ k = Len(old) + 1)
      <4>1. s \in DOMAIN files /\ k \in 1..Len(files[s]) /\ files'[s][k] = files[s][k]
        <5>1. CASE s = ofile'
          <6>1. k \in 1..Len(old)
            BY <1>3, <1>7, <3>2, <5>1
          <6> QED
            BY <1>3, <1>7, <1>8, <5>1, <6>1
        <5>2. CASE s # ofile'
          BY <1>10, <5>2
        <5> QED
          BY <5>1, <5>2
      <4>2. PICK i \in 1..Len(logged) : logged[i] = files[s][k]
        BY <1>1, <2>3, <4>1 DEF LoggedOK
      <4>3. i \in 1..Len(logged')
        BY <1>4, <1>12
      <4> QED
        BY <1>12, <4>1, <4>2, <4>3
    <3> QED
      BY <3>1, <3>2
  <2> QED
    BY <1>12, <2>1, <2>2, <2>3 DEF LoggedOK
<1>15. WriterOK'
  <2>1. logClock' = t + 1 /\ last_write' = t
    OBVIOUS
  <2>2. \A s \in DOMAIN files' : s <= logClock' /\ s # logClock'
    BY <1>2, <1>4, <1>5, <1>10, <2>1
  <2>3. ASSUME NEW s \in DOMAIN files', NEW k \in 1..Len(files'[s])
        PROVE  files'[s][k].t < logClock'
    <3>1. CASE s = ofile'
      <4>1. k \in 1..Len(old) \/ k = Len(old) + 1
        BY <1>3, <1>7, <3>1
      <4> QED
        BY <1>2, <1>3, <1>7, <1>9, <2>1, <3>1, <4>1, SMTT(30)
    <3>2. CASE s # ofile'
      <4>1. files'[s][k] = files[s][k] /\ files[s][k].t < logClock /\ files[s][k].t \in Nat
        BY <1>1, <1>10, <3>2, RecordsFollow DEF WriterOK
      <4> QED
        BY <1>2, <2>1, <4>1
    <3> QED
      BY <3>1, <3>2
  <2>4. ofile' \in DOMAIN files' /\ ofile' < logClock' /\ \A s \in DOMAIN files' : s <= ofile'
    BY <1>2, <1>3, <1>4, <1>5, <1>10, <2>1
  <2>5. Len(files'[ofile']) <= Len(logged') /\
        \A k \in 1..Len(files'[ofile']) : files'[ofile'][k] = logged'[(Len(logged') - Len(files'[ofile'])) + k]
    <3>1. Len(old) <= Len(logged) /\ \A k \in 1..Len(old) : old[k] = logged[(Len(logged) - Len(old)) + k]
      <4>1. CASE old = <<>>
        BY <1>4, <4>1
      <4>2. CASE old # <<>> /\ ~fresh
        BY <1>1, <1>3, <4>2 DEF WriterOK, old, fresh
      <4>3. CASE fresh
        <5>1. Append(old, rec) = <<rec>>
          BY <1>6, <4>3 DEF recs
        <5>2. Len(old) = 0
          BY <1>6, <1>7, <5>1
        <5> QED
          BY <1>4, <1>6, <5>2
      <4> QED
        BY <4>1, <4>2, <4>3
    <3>2. Len(files'[ofile']) = Len(old) + 1 /\ Len(logged') = Len(logged) + 1
      BY <1>3, <1>7, <1>12
    <3> SUFFICES ASSUME NEW k \in 1..(Len(old) + 1)
                 PROVE  recs[k] = logged'[((Len(logged) + 1) - (Len(old) + 1)) + k]
      <4>1. Len(recs) = Len(old) + 1 /\ files'[ofile'] = recs /\ Len(old) + 1 <= Len(logged) + 1
        BY <1>3, <1>4, <1>7, <3>1
      <4> QED
        BY <3>2, <4>1, ZenonT(30)
    <3>3. CASE k = Len(old) + 1
      <4>1. ((Len(logged) + 1) - (Len(old) + 1)) + k = Len(logged) + 1
        BY <1>4, <1>7, <3>3
      <4> QED
        BY <1>7, <1>12, <3>3, <4>1
    <3>4. CASE k \in 1..Len(old)
      <4>1. ((Len(logged) + 1) - (Len(old) + 1)) + k = (Len(logged) - Len(old)) + k
            /\ (Len(logged) - Len(old)) + k \in 1..Len(logged)
        BY <1>4, <1>7, <3>1, <3>4
      <4> QED
        BY <1>7, <1>12, <3>1, <3>4, <4>1
    <3>5. k = Len(old) + 1 \/ k \in 1..Len(old)
      BY <1>7
    <3> QED
      BY <3>3, <3>4, <3>5
  <2>6. logClock' \in Nat \ {0} /\ last_write' \in Int /\ last_write' + 1 = logClock' /\ last_write' > 0
    BY <1>2, <2>1
  <2> QED
    BY <2>2, <2>3, <2>4, <2>5, <2>6 DEF WriterOK
<1>16. UNCHANGED <<replaying, Reader, index, opening, delivered>>
  BY DEF write, replayVars, readerVars, Reader
<1> QED
  BY <1>1, <1>11, <1>14, <1>15, <1>16 DEF LogInv

LEMMA DestroyKeepsLog == LogInv /\ destroy => LogInv'
<1> SUFFICES ASSUME LogInv, destroy PROVE LogInv'
  OBVIOUS
<1>1. /\ FilesOK /\ LoggedOK /\ WriterOK /\ ofile # NoFile /\ ~replaying
      /\ index = -1 /\ opening = "idle" /\ delivered = <<>>
  BY DEF LogInv, destroy
<1>2. files' = WithFile(logClock, <<>>) /\ ofile' = NoFile /\ last_write' = -1 /\ UNCHANGED <<logClock, logged>>
  BY <1>1 DEF destroy, WriterOK
<1>3. /\ DOMAIN files' = DOMAIN files \union {logClock}
      /\ files' = [s \in DOMAIN files' |-> files'[s]]
      /\ files'[logClock] = <<>>
      /\ \A s \in DOMAIN files : s # logClock => files'[s] = files[s]
  BY <1>2 DEF WithFile
<1>4. \A s \in DOMAIN files : s \in Nat /\ files[s] \in Seq(FileRecord) /\ s < logClock
  BY <1>1 DEF FilesOK, WriterOK, NoFile
<1>5. \A s \in DOMAIN files' : s = logClock \/ (s \in DOMAIN files /\ s # logClock /\ files'[s] = files[s])
  BY <1>3
<1>6. \A s \in DOMAIN files : files'[s] = files[s]
  BY <1>1, <1>3, <1>4 DEF WriterOK
<1>7. FilesOK'
  <2>1. DOMAIN files' \subseteq Nat \ {0} /\ IsFiniteSet(DOMAIN files')
    <3>1. IsFiniteSet(DOMAIN files) /\ DOMAIN files \subseteq Nat \ {0} /\ logClock \in Nat \ {0}
      BY <1>1 DEF FilesOK, WriterOK
    <3>2. IsFiniteSet(DOMAIN files \union {logClock})
      BY <3>1, FS_AddElement
    <3> QED
      BY <1>3, <3>1, <3>2
  <2>2. \A s \in DOMAIN files' : files'[s] \in Seq(FileRecord)
    BY <1>3, <1>4, <1>5, EmptySeq
  <2>3. \A s \in DOMAIN files' : \A j, k \in 1..Len(files'[s]) : j < k => files'[s][j].t < files'[s][k].t
    BY <1>1, <1>3, <1>5 DEF FilesOK
  <2>4. \A s \in DOMAIN files' : \A k \in 1..Len(files'[s]) : s <= files'[s][k].t
    BY <1>1, <1>3, <1>5 DEF FilesOK
  <2>5. ASSUME NEW s \in DOMAIN files', NEW u \in DOMAIN files', s < u, NEW k \in 1..Len(files'[s])
        PROVE  files'[s][k].t < u
    <3>1. s \in DOMAIN files /\ files'[s] = files[s]
      BY <1>3, <1>5
    <3>2. CASE u \in DOMAIN files
      BY <1>1, <2>5, <3>1, <3>2 DEF FilesOK
    <3>3. CASE u = logClock
      BY <1>1, <3>1, <3>3 DEF WriterOK
    <3> QED
      BY <1>5, <3>2, <3>3
  <2> QED
    BY <1>3, <2>1, <2>2, <2>3, <2>4, <2>5 DEF FilesOK
<1>8. LoggedOK'
  <2>1. ASSUME NEW i \in 1..Len(logged)
        PROVE  \E s \in DOMAIN files' : \E k \in 1..Len(files'[s]) : logged[i] = files'[s][k]
    <3>1. PICK s \in DOMAIN files : \E k \in 1..Len(files[s]) : logged[i] = files[s][k]
      BY <1>1 DEF LoggedOK
    <3>2. s \in DOMAIN files' /\ files'[s] = files[s]
      BY <1>3, <1>6
    <3> QED
      BY <3>1, <3>2
  <2>2. ASSUME NEW s \in DOMAIN files', NEW k \in 1..Len(files'[s]), files'[s][k].n # Torn
        PROVE  \E i \in 1..Len(logged) : logged[i] = files'[s][k]
    <3>1. s \in DOMAIN files /\ files'[s] = files[s]
      BY <1>3, <1>5
    <3>2. \E i \in 1..Len(logged) : logged[i] = files[s][k]
      BY <1>1, <2>2, <3>1 DEF LoggedOK
    <3> QED
      BY <3>1, <3>2
  <2> QED
    BY <1>1, <1>2, <2>1, <2>2 DEF LoggedOK
<1>9. WriterOK'
  <2>1. \A s \in DOMAIN files' : s <= logClock /\ (s = logClock => Len(files'[s]) = 0)
    BY <1>1, <1>3, <1>4, <1>5 DEF WriterOK
  <2>2. \A s \in DOMAIN files' : \A k \in 1..Len(files'[s]) : files'[s][k].t < logClock
    BY <1>1, <1>3, <1>5 DEF WriterOK
  <2> QED
    BY <1>1, <1>2, <2>1, <2>2 DEF WriterOK
<1>10. UNCHANGED <<replaying, Reader, index, opening, delivered>>
  BY DEF destroy, replayVars, readerVars, Reader
<1> QED
  BY <1>1, <1>7, <1>8, <1>9, <1>10 DEF LogInv

\* The open file holds the last records logged, and the crash takes as many of
\* these as of the file's.
LEMMA CrashKeepsLog == LogInv /\ LogCrash => LogInv'
<1> SUFFICES ASSUME LogInv, LogCrash PROVE LogInv'
  OBVIOUS
<1>1. /\ FilesOK /\ LoggedOK /\ WriterOK /\ ofile # NoFile /\ ~replaying
      /\ index = -1 /\ opening = "idle" /\ delivered = <<>>
  BY DEF LogInv, LogCrash
<1> DEFINE Uncut(k) == SubSeq(files[ofile], 1, k)
           Shortened(k) == Append(Uncut(k), [files[ofile][k + 1] EXCEPT !.n = Torn])
<1>2. PICK k \in 0..Len(files[ofile]) :
         /\ \/ files' = WithFile(ofile, Uncut(k))
            \/ k < Len(files[ofile]) /\ files' = WithFile(ofile, Shortened(k))
         /\ logged' = SubSeq(logged, 1, Len(logged) - (Len(files[ofile]) - k))
  BY DEF LogCrash
<1> DEFINE cut == Len(files[ofile]) - k
           kept == Len(logged) - cut
<1>3. ofile \in DOMAIN files /\ \A s \in DOMAIN files : s \in Nat /\ files[s] \in Seq(FileRecord) /\ Len(files[s]) \in Nat
  BY <1>1 DEF FilesOK, WriterOK
<1>4. logged \in Seq(LogRecord) /\ Len(logged) \in Nat /\ k \in Nat /\ cut \in Nat /\ kept \in 0..Len(logged)
      /\ \A i \in 1..kept : i \in 1..Len(logged)
  BY <1>1, <1>3 DEF LoggedOK, WriterOK
<1> HIDE DEF kept, cut
<1>5. /\ DOMAIN files' = DOMAIN files /\ files' = [s \in DOMAIN files' |-> files'[s]]
      /\ \A s \in DOMAIN files : s # ofile => files'[s] = files[s]
      /\ \/ files'[ofile] = Uncut(k)
         \/ k < Len(files[ofile]) /\ files'[ofile] = Shortened(k)
  <2> HIDE DEF Uncut, Shortened
  <2> QED
    BY <1>1, <1>2, <1>3 DEF FilesOK, WithFile
<1>6. /\ files'[ofile] \in Seq(FileRecord)
      /\ \A j \in 1..k : j \in 1..Len(files'[ofile]) /\ files'[ofile][j] = files[ofile][j]
      /\ \A j \in 1..Len(files'[ofile]) :
           \/ j \in 1..k
           \/ /\ j = k + 1 /\ j = Len(files'[ofile]) /\ j \in 1..Len(files[ofile])
              /\ files'[ofile][j].t = files[ofile][j].t /\ files'[ofile][j].n = Torn
  <2> DEFINE whole == files[ofile]
             kpt == SubSeq(whole, 1, k)
  <2>1. whole \in Seq(FileRecord) /\ k \in 0..Len(whole) /\ Len(whole) \in Nat
    BY <1>2, <1>3
  <2>2. Uncut(k) = kpt /\ Shortened(k) = Append(kpt, [whole[k + 1] EXCEPT !.n = Torn])
    OBVIOUS
  <2> HIDE DEF whole
  <2>3. kpt \in Seq(FileRecord) /\ Len(kpt) = k /\ \A j \in 1..k : kpt[j] = whole[j]
    BY <2>1
  <2> HIDE DEF kpt, Uncut, Shortened
  <2>4. CASE files'[ofile] = Uncut(k)
    BY <2>1, <2>2, <2>3, <2>4 DEF whole
  <2>5. CASE k < Len(files[ofile]) /\ files'[ofile] = Shortened(k)
    <3> DEFINE h == [whole[k + 1] EXCEPT !.n = Torn]
    <3>1. k + 1 \in 1..Len(whole) /\ whole[k + 1] \in FileRecord
      BY <2>1, <2>5 DEF whole
    <3>2. h \in FileRecord /\ h.t = whole[k + 1].t /\ h.n = Torn
      BY <3>1 DEF FileRecord
    <3> HIDE DEF h
    <3>3. files'[ofile] = Append(kpt, h)
      BY <2>2, <2>5 DEF h
    <3>4. /\ files'[ofile] \in Seq(FileRecord) /\ Len(files'[ofile]) = k + 1 /\ files'[ofile][k + 1] = h
          /\ \A j \in 1..k : files'[ofile][j] = kpt[j]
      BY <2>1, <2>3, <3>2, <3>3, AppendProperties
    <3> QED
      BY <2>1, <2>3, <3>1, <3>2, <3>4 DEF whole
  <2> QED
    BY <1>5, <2>4, <2>5
<1> HIDE DEF Uncut, Shortened
<1>7. logged' \in Seq(LogRecord) /\ Len(logged') = kept /\ \A i \in 1..kept : logged'[i] = logged[i]
  <2>1. logged' = SubSeq(logged, 1, kept)
    BY <1>2 DEF kept, cut
  <2> QED
    BY <1>4, <2>1
<1>8. ASSUME NEW s \in DOMAIN files, NEW j \in 1..Len(files'[s])
      PROVE  /\ j \in 1..Len(files[s]) /\ files'[s][j].t = files[s][j].t
             /\ files'[s][j].n # Torn => files'[s][j] = files[s][j] /\ (s = ofile => j <= k)
  <2>1. CASE s # ofile
    BY <1>5, <2>1
  <2>2. CASE s = ofile
    <3>1. k \in Nat /\ k <= Len(files[ofile]) /\ Len(files[ofile]) \in Nat
      BY <1>2, <1>3
    <3>2. CASE j \in 1..k
      BY <1>6, <2>2, <3>1, <3>2
    <3>3. CASE j \notin 1..k
      BY <1>6, <2>2, <3>3
    <3> QED
      BY <3>2, <3>3
  <2> QED
    BY <2>1, <2>2
<1>9. FilesOK'
  <2>1. \A s \in DOMAIN files' : files'[s] \in Seq(FileRecord)
    BY <1>3, <1>5, <1>6
  <2>2. \A s \in DOMAIN files' : \A i, j \in 1..Len(files'[s]) : i < j => files'[s][i].t < files'[s][j].t
    <3> SUFFICES ASSUME NEW s \in DOMAIN files, NEW i \in 1..Len(files'[s]), NEW j \in 1..Len(files'[s]), i < j
                 PROVE  files'[s][i].t < files'[s][j].t
      BY <1>5
    <3>1. i \in 1..Len(files[s]) /\ files'[s][i].t = files[s][i].t
      BY <1>8
    <3>2. j \in 1..Len(files[s]) /\ files'[s][j].t = files[s][j].t
      BY <1>8
    <3> QED
      BY <1>1, <3>1, <3>2 DEF FilesOK
  <2>3. \A s \in DOMAIN files' : \A j \in 1..Len(files'[s]) : s <= files'[s][j].t
    BY <1>1, <1>5, <1>8 DEF FilesOK
  <2>4. \A s, u \in DOMAIN files' : s < u => \A j \in 1..Len(files'[s]) : files'[s][j].t < u
    BY <1>1, <1>5, <1>8 DEF FilesOK
  <2> QED
    BY <1>1, <1>5, <2>1, <2>2, <2>3, <2>4 DEF FilesOK
<1>10. LoggedOK'
  <2>1. ASSUME NEW i \in 1..kept
        PROVE  \E s \in DOMAIN files' : \E j \in 1..Len(files'[s]) : logged'[i] = files'[s][j]
    <3>1. PICK s \in DOMAIN files : \E j \in 1..Len(files[s]) : logged[i] = files[s][j]
      BY <1>1, <1>4 DEF LoggedOK
    <3>2. PICK j \in 1..Len(files[s]) : logged[i] = files[s][j]
      BY <3>1
    <3>3. j \in 1..Len(files'[s]) /\ files'[s][j] = files[s][j]
      <4>1. CASE s # ofile
        BY <1>5, <4>1
      <4>2. CASE s = ofile
        <5> DEFINE l == (Len(logged) - Len(files[ofile])) + j
        <5>1. files[ofile][j] = logged[l] /\ l \in 1..Len(logged)
          BY <1>1, <1>3, <1>4, <4>2 DEF WriterOK
        <5> HIDE DEF l
        <5>2. ~(i < l)
          <6>1. i < l => logged[i].t < logged[l].t
            BY <1>1, <1>4, <5>1 DEF LoggedOK
          <6>2. logged[i] = logged[l] /\ logged[i].t \in Nat
            BY <1>1, <3>2, <4>2, <5>1, RecordsFollow
          <6> QED
            BY <6>1, <6>2
        <5>3. j <= k
          BY <1>3, <1>4, <5>1, <5>2 DEF l, kept, cut
        <5> QED
          BY <1>6, <4>2, <5>3
      <4> QED
        BY <4>1, <4>2
    <3>4. s \in DOMAIN files' /\ logged'[i] = files'[s][j]
      BY <1>5, <1>7, <3>2, <3>3
    <3> QED
      BY <3>3, <3>4, Zenon
  <2>2. ASSUME NEW s \in DOMAIN files', NEW j \in 1..Len(files'[s]), files'[s][j].n # Torn
        PROVE  \E i \in 1..kept : logged'[i] = files'[s][j]
    <3>1. s \in DOMAIN files /\ j \in 1..Len(files[s]) /\ files'[s][j] = files[s][j] /\ (s = ofile => j <= k)
      BY <1>5, <1>8, <2>2
    <3>2. PICK i \in 1..Len(logged) : logged[i] = files[s][j]
      BY <1>1, <2>2, <3>1 DEF LoggedOK
    <3>3. i <= kept
      <4> SUFFICES ASSUME i > kept PROVE FALSE
        BY <1>4, <3>2
      <4> DEFINE l == i - (Len(logged) - Len(files[ofile]))
      <4>1. l \in 1..Len(files[ofile]) /\ l > k /\ (Len(logged) - Len(files[ofile])) + l = i
        BY <1>2, <1>3, <1>4, SMTT(30) DEF kept, cut
      <4> HIDE DEF l
      <4>2. files[ofile][l] = logged[i]
        BY <1>1, <4>1 DEF WriterOK
      <4>3. s < ofile \/ (s = ofile /\ j < l)
        <5>1. s <= ofile
          BY <1>1, <3>1 DEF WriterOK
        <5>2. s = ofile => j <= k
          BY <3>1
        <5> QED
          BY <1>3, <3>1, <4>1, <5>1, <5>2
      <4>4. files[s][j].t \in Nat /\ files[s][j].t < files[ofile][l].t
        BY <1>1, <1>3, <3>1, <4>1, <4>3, RecordsFollow
      <4> QED
        BY <3>2, <4>2, <4>4
    <3>4. i \in 1..kept /\ logged'[i] = files'[s][j]
      BY <1>4, <1>7, <3>1, <3>2, <3>3
    <3> QED
      BY <3>4
  <2>3. \A i, j \in 1..kept : i < j => logged'[i].t < logged'[j].t
    <3>1. \A i, j \in 1..Len(logged) : i < j => logged[i].t < logged[j].t
      BY <1>1 DEF LoggedOK
    <3> QED
      BY <1>4, <1>7, <3>1
  <2> QED
    BY <1>7, <2>1, <2>2, <2>3 DEF LoggedOK
<1>11. WriterOK'
  <2>1. ofile' = NoFile /\ last_write' = -1 /\ UNCHANGED logClock
    BY DEF LogCrash
  <2>2. \A s \in DOMAIN files' : s <= logClock /\ s # logClock
    BY <1>1, <1>3, <1>5 DEF WriterOK
  <2>3. \A s \in DOMAIN files' : \A j \in 1..Len(files'[s]) : files'[s][j].t < logClock
    BY <1>1, <1>5, <1>8 DEF WriterOK
  <2> QED
    BY <1>1, <2>1, <2>2, <2>3 DEF WriterOK
<1>12. UNCHANGED <<replaying, Reader, index, opening, delivered>>
  BY DEF LogCrash, replayVars, readerVars, Reader
<1> QED
  BY <1>1, <1>9, <1>10, <1>11, <1>12 DEF LogInv

LEMMA InitKeepsLog == LogInv /\ init => LogInv'
<1> SUFFICES ASSUME LogInv, init PROVE LogInv'
  OBVIOUS
<1>1. FilesOK /\ LoggedOK /\ ~replaying /\ index = -1 /\ opening = "idle" /\ delivered = <<>>
  BY DEF LogInv, init
<1>2. UNCHANGED <<files, logged, Reader, index, opening, delivered>> /\ replaying'
  BY DEF init, writerVars, readerVars, Reader
<1>3. FilesOK' /\ LoggedOK'
  BY <1>1, <1>2 DEF FilesOK, LoggedOK
<1> DEFINE count == Cardinality(DOMAIN files)
<1>4. count \in Nat /\ count >= 1
  BY <1>1, FS_CardinalityType, FS_EmptySet DEF FilesOK, init
<1>5. /\ time_stamps' \in [1..count -> DOMAIN files] /\ Range(time_stamps') = DOMAIN files
      /\ \A i, j \in DOMAIN time_stamps' : i < j => time_stamps'[i] < time_stamps'[j]
      /\ logClock' \in 0..(MaxTime + 1)
  BY DEF init
<1> HIDE DEF count
<1>6. time_stamps' \in Seq(Nat) /\ Len(time_stamps') = count /\ DOMAIN time_stamps' = 1..count
  BY <1>1, <1>4, <1>5 DEF FilesOK
<1>7. TimesOK'
  <2>1. \A s \in DOMAIN files : \E i \in 1..count : s = time_stamps'[i]
    BY <1>5, <1>6 DEF Range
  <2>2. \A i \in 1..count : time_stamps'[i] \in DOMAIN files
    BY <1>5
  <2>3. logClock' \in Nat
    BY <1>5, LogAssumption
  <2> QED
    BY <1>2, <1>4, <1>5, <1>6, <2>1, <2>2, <2>3 DEF TimesOK
<1> QED
  BY <1>1, <1>2, <1>3, <1>7 DEF LogInv

LEMMA StampsAre ==
  ASSUME FilesOK, TimesOK
  PROVE  /\ Len(time_stamps) \in Nat \ {0}
         /\ \A i \in 0..(Len(time_stamps) - 1) : Stamp(i) \in DOMAIN files /\ Stamp(i) \in Nat \ {0}
         /\ \A i, j \in 0..(Len(time_stamps) - 1) : i < j => Stamp(i) < Stamp(j)
         /\ \A s \in DOMAIN files : \E i \in 0..(Len(time_stamps) - 1) : s = Stamp(i)
<1>1. Len(time_stamps) \in Nat \ {0}
  BY DEF TimesOK
<1>2. ASSUME NEW i \in 0..(Len(time_stamps) - 1)
      PROVE  i + 1 \in 1..Len(time_stamps) /\ Stamp(i) \in DOMAIN files /\ Stamp(i) \in Nat \ {0}
  <2>1. i + 1 \in 1..Len(time_stamps)
    BY <1>1
  <2> QED
    BY <2>1 DEF FilesOK, TimesOK, Stamp
<1>3. ASSUME NEW i \in 0..(Len(time_stamps) - 1), NEW j \in 0..(Len(time_stamps) - 1), i < j
      PROVE  Stamp(i) < Stamp(j)
  <2>1. i + 1 < j + 1
    BY <1>3
  <2> QED
    BY <1>2, <2>1 DEF TimesOK, Stamp
<1>4. ASSUME NEW s \in DOMAIN files
      PROVE  \E i \in 0..(Len(time_stamps) - 1) : s = Stamp(i)
  <2>1. PICK j \in 1..Len(time_stamps) : s = time_stamps[j]
    BY DEF TimesOK
  <2>2. j - 1 \in 0..(Len(time_stamps) - 1) /\ (j - 1) + 1 = j
    BY <1>1
  <2>3. s = Stamp(j - 1)
    BY <2>1, <2>2 DEF Stamp
  <2> QED
    BY <2>2, <2>3
<1> QED
  BY <1>1, <1>2, <1>3, <1>4

\* Reading a time takes the reader past the record it stood at; what it finds
\* behind the last one is of no record.
LEMMA ReadTimeIs ==
  ASSUME FilesOK, TimesOK, CutsOK, NEW q, PlaceOK(q), q.ifile # NoFile, NEW r \in ReadTime(q)
  PROVE  /\ PlaceOK(r) /\ r.index = q.index /\ r.ifile = q.ifile
         /\ q.eof => r = q
         /\ r.timestamp < q.timestamp => r.eof /\ ~q.eof /\ q.ifile \in DOMAIN stub /\ q.at = Len(files[q.ifile])
         /\ \A s \in DOMAIN files : \A k \in 1..Len(files[s]) :
              Behind(r, s, k) <=> Behind(q, s, k) \/ (s = q.ifile /\ k = q.at)
<1>1. /\ q.index \in 0..(Len(time_stamps) - 1) /\ q.index # Len(time_stamps) /\ q.ifile = Stamp(q.index)
      /\ q.at \in Nat /\ q.at <= Len(files[q.ifile]) /\ q \in ReaderRec
      /\ q.eof => q.at = Len(files[q.ifile])
      /\ ~q.eof => q.at >= 1 /\ q.timestamp = files[q.ifile][q.at].t
  <2>1. Len(time_stamps) \in Nat
    BY StampsAre
  <2> QED
    BY <2>1 DEF PlaceOK, ReaderRec
<1>2. q.ifile \in DOMAIN files /\ q.ifile \in Nat \ {0}
  BY <1>1, StampsAre
<1>3. files[q.ifile] \in Seq(FileRecord) /\ Len(files[q.ifile]) \in Nat
  BY <1>2 DEF FilesOK
<1>4. q.index \in Int /\ q.timestamp \in Int /\ q.ifile \in Nat /\ q.eof \in BOOLEAN
      /\ q = [index |-> q.index, timestamp |-> q.timestamp, ifile |-> q.ifile, at |-> q.at, eof |-> q.eof]
  BY <1>1 DEF ReaderRec
<1>5. CASE q.at < Len(files[q.ifile])
  <2> DEFINE x == files[q.ifile][q.at + 1].t
  <2>1. ~q.eof /\ q.at \in 1..Len(files[q.ifile]) /\ q.at + 1 \in 1..Len(files[q.ifile])
    BY <1>1, <1>3, <1>5
  <2>2. x \in Nat /\ q.timestamp < x
    BY <1>1, <1>2, <2>1, RecordsFollow
  <2>3. r = [q EXCEPT !.timestamp = x, !.at = q.at + 1]
    BY <1>5 DEF ReadTime
  <2>4. x = files[q.ifile][q.at + 1].t
    OBVIOUS
  <2> HIDE DEF x
  <2>5. r = [index |-> q.index, timestamp |-> x, ifile |-> q.ifile, at |-> q.at + 1, eof |-> q.eof]
    BY <1>4, <2>3
  <2>6. /\ r \in ReaderRec /\ r.index = q.index /\ r.timestamp = x /\ r.ifile = q.ifile /\ r.at = q.at + 1 /\ r.eof = q.eof
    BY <1>1, <1>4, <2>2, <2>5 DEF ReaderRec
  <2>7. PlaceOK(r)
    BY <1>1, <2>1, <2>4, <2>6 DEF PlaceOK
  <2>8. ASSUME NEW s \in DOMAIN files, NEW k \in 1..Len(files[s])
        PROVE  Behind(r, s, k) <=> Behind(q, s, k) \/ (s = q.ifile /\ k = q.at)
    <3>1. k < q.at + 1 <=> k < q.at \/ k = q.at
      BY <1>1
    <3> QED
      BY <2>1, <2>6, <3>1 DEF Behind
  <2>9. ~(r.timestamp < q.timestamp)
    BY <1>4, <2>2, <2>6
  <2> QED
    BY <2>1, <2>6, <2>7, <2>8, <2>9
<1>6. CASE ~(q.at < Len(files[q.ifile]))
  <2>1. q.at = Len(files[q.ifile])
    BY <1>1, <1>3, <1>6
  <2>2. PICK x \in Int : /\ r = [q EXCEPT !.timestamp = x, !.eof = TRUE]
                         /\ x = q.timestamp \/ (~q.eof /\ q.ifile \in DOMAIN stub)
    <3>1. CASE q.eof \/ q.ifile \notin DOMAIN stub
      <4>1. r = [q EXCEPT !.eof = TRUE]
        BY <1>6, <3>1 DEF ReadTime
      <4>2. r = [q EXCEPT !.timestamp = q.timestamp, !.eof = TRUE]
        BY <1>4, <4>1
      <4> QED
        BY <1>4, <4>2
    <3>2. CASE ~(q.eof \/ q.ifile \notin DOMAIN stub)
      <4>1. PICK x \in Mixed(q.timestamp, stub[q.ifile]) : r = [q EXCEPT !.timestamp = x, !.eof = TRUE]
        BY <1>6, <3>2 DEF ReadTime
      <4>2. stub[q.ifile] \in Nat
        BY <3>2 DEF CutsOK
      <4>3. x \in Int
        BY <4>1, <4>2 DEF Mixed
      <4> QED
        BY <3>2, <4>1, <4>3
    <3> QED
      BY <3>1, <3>2
  <2>3. r = [index |-> q.index, timestamp |-> x, ifile |-> q.ifile, at |-> q.at, eof |-> TRUE]
    BY <1>4, <2>2
  <2>4. r \in ReaderRec /\ r.index = q.index /\ r.timestamp = x /\ r.ifile = q.ifile /\ r.at = q.at /\ r.eof = TRUE
    BY <1>1, <1>4, <2>3 DEF ReaderRec
  <2>5. PlaceOK(r)
    BY <1>1, <2>1, <2>4 DEF PlaceOK
  <2>6. q.eof => r = q
    BY <1>4, <2>2, <2>3
  <2>7. ASSUME NEW s \in DOMAIN files, NEW k \in 1..Len(files[s])
        PROVE  Behind(r, s, k) <=> Behind(q, s, k) \/ (s = q.ifile /\ k = q.at)
    <3>1. s = q.ifile => (k < q.at \/ k = q.at)
      BY <1>1, <2>1
    <3> QED
      BY <2>4, <3>1 DEF Behind
  <2>8. r.timestamp < q.timestamp => r.eof /\ ~q.eof /\ q.ifile \in DOMAIN stub
    BY <1>4, <2>2, <2>4
  <2> QED
    BY <2>1, <2>4, <2>5, <2>6, <2>7, <2>8
<1> QED
  BY <1>5, <1>6

\* A file is opened at its first record, if it has one.
LEMMA OpenedIs ==
  ASSUME FilesOK, TimesOK, CutsOK, NEW q, q \in ReaderRec, NEW i, i \in 0..(Len(time_stamps) - 1),
         NEW o, o = OpenRead(q, i), NEW r \in ReadTime(o)
  PROVE  /\ PlaceOK(r) /\ r.index = i /\ r.ifile = Stamp(i) /\ Stamp(i) \in DOMAIN files
         /\ \A s \in DOMAIN files : \A k \in 1..Len(files[s]) : Behind(r, s, k) <=> s < Stamp(i)
<1>1. i \in Int /\ Stamp(i) \in DOMAIN files /\ Stamp(i) \in Nat \ {0}
  BY StampsAre
<1>2. /\ o \in ReaderRec /\ o.index = i /\ o.ifile = Stamp(i) /\ o.at = 0 /\ o.eof = FALSE
  BY <1>1 DEF OpenRead, ReaderRec
<1>3. files[Stamp(i)] \in Seq(FileRecord) /\ Len(files[Stamp(i)]) \in Nat
  BY <1>1 DEF FilesOK
<1>4. i # Len(time_stamps) /\ i \in 0..Len(time_stamps)
  BY StampsAre
<1>5. CASE Len(files[Stamp(i)]) = 0
  <2>1. PICK x \in Int : r = [o EXCEPT !.timestamp = x, !.eof = TRUE]
    <3>1. CASE Stamp(i) \notin DOMAIN stub
      <4>1. r = [o EXCEPT !.eof = TRUE]
        BY <1>2, <1>5, <3>1 DEF ReadTime
      <4>2. o.timestamp \in Int /\ r = [o EXCEPT !.timestamp = o.timestamp, !.eof = TRUE]
        BY <1>2, <4>1 DEF ReaderRec
      <4> QED
        BY <4>2
    <3>2. CASE Stamp(i) \in DOMAIN stub
      <4>1. PICK x \in Mixed(o.timestamp, stub[Stamp(i)]) : r = [o EXCEPT !.timestamp = x, !.eof = TRUE]
        <5>1. ~(o.at < Len(files[o.ifile])) /\ ~(o.eof \/ o.ifile \notin DOMAIN stub)
          BY <1>2, <1>5, <3>2
        <5>2. r \in {[o EXCEPT !.timestamp = x, !.eof = TRUE] : x \in Mixed(o.timestamp, stub[o.ifile])}
          BY <5>1, Zenon DEF ReadTime
        <5> QED
          BY <1>2, <5>2
      <4>2. x \in Int
        BY <3>2, <4>1 DEF Mixed, CutsOK
      <4> QED
        BY <4>1, <4>2
    <3> QED
      BY <3>1, <3>2
  <2>2. r \in ReaderRec /\ r.index = i /\ r.ifile = Stamp(i) /\ r.at = 0 /\ r.eof = TRUE
    <3>1. r = [index |-> o.index, timestamp |-> x, ifile |-> o.ifile, at |-> o.at, eof |-> TRUE]
      BY <1>2, <2>1 DEF ReaderRec
    <3> QED
      BY <1>1, <1>2, <3>1 DEF ReaderRec
  <2> QED
    BY <1>1, <1>4, <1>5, <2>2 DEF PlaceOK, Behind, NoFile
<1>6. CASE Len(files[Stamp(i)]) # 0
  <2>1. r = [o EXCEPT !.timestamp = files[Stamp(i)][1].t, !.at = 1]
    <3>1. o.at < Len(files[o.ifile])
      BY <1>2, <1>3, <1>6
    <3>2. r = [o EXCEPT !.timestamp = files[o.ifile][o.at + 1].t, !.at = o.at + 1]
      BY <3>1 DEF ReadTime
    <3>3. o.at + 1 = 1 /\ o.ifile = Stamp(i)
      BY <1>2
    <3> QED
      BY <3>2, <3>3, Zenon
  <2>2. files[Stamp(i)][1].t \in Nat
    BY <1>1, <1>3, <1>6, RecordsFollow
  <2>3. r \in ReaderRec /\ r.index = i /\ r.ifile = Stamp(i) /\ r.at = 1 /\ r.eof = FALSE
        /\ r.timestamp = files[Stamp(i)][1].t
    <3> DEFINE x == files[Stamp(i)][1].t
    <3>1. x \in Int
      BY <2>2
    <3> HIDE DEF x
    <3>2. r = [o EXCEPT !.timestamp = x, !.at = 1]
      BY <2>1 DEF x
    <3>3. r = [index |-> o.index, timestamp |-> x, ifile |-> o.ifile, at |-> 1, eof |-> o.eof]
      BY <1>2, <3>2 DEF ReaderRec
    <3>4. o.index \in Int /\ o.ifile \in Nat
      BY <1>1, <1>2
    <3>5. r.timestamp = x /\ r \in ReaderRec /\ r.index = i /\ r.ifile = Stamp(i) /\ r.at = 1 /\ r.eof = FALSE
      BY <1>2, <3>1, <3>3, <3>4 DEF ReaderRec
    <3> QED
      BY <3>5 DEF x
  <2> QED
    BY <1>1, <1>3, <1>4, <1>6, <2>3 DEF PlaceOK, Behind, NoFile
<1> QED
  BY <1>5, <1>6

\* The next file: what lay in the old one is behind the reader now.
LEMMA OpenNextIs ==
  ASSUME FilesOK, TimesOK, CutsOK, NEW q, q \in ReaderRec, q.index \in 0..(Len(time_stamps) - 1),
         NEW r \in OpenNext(q)
  PROVE  /\ PlaceOK(r) /\ r.index # -1
         /\ r.ifile = NoFile => \A s \in DOMAIN files : s <= Stamp(q.index)
         /\ \A s \in DOMAIN files : \A k \in 1..Len(files[s]) : Behind(r, s, k) <=> s <= Stamp(q.index)
         /\ r.ifile # NoFile => r.ifile > Stamp(q.index)
<1> DEFINE i == q.index + 1
<1>1. q.index \in Nat /\ Len(time_stamps) \in Nat /\ q.index # Len(time_stamps) /\ i \in 0..Len(time_stamps)
  BY StampsAre
<1>2. \A s \in DOMAIN files : s \in Nat
  BY DEF FilesOK
<1>3. Stamp(q.index) \in Nat
  BY StampsAre
<1>4. CASE i = Len(time_stamps)
  <2>1. r = [q EXCEPT !.index = i, !.ifile = NoFile, !.eof = FALSE]
    BY <1>1, <1>4 DEF OpenNext
  <2>2. r \in ReaderRec /\ r.index = i /\ r.ifile = NoFile
    <3>1. i \in Int
      BY <1>1
    <3> HIDE DEF i
    <3>2. q.timestamp \in Int /\ q.at \in Nat
      BY DEF ReaderRec
    <3>3. r = [index |-> i, timestamp |-> q.timestamp, ifile |-> NoFile, at |-> q.at, eof |-> FALSE]
      BY <2>1 DEF ReaderRec
    <3> QED
      BY <3>1, <3>2, <3>3 DEF ReaderRec, NoFile
  <2>3. PlaceOK(r)
    BY <1>1, <1>4, <2>2 DEF PlaceOK
  <2>4. \A s \in DOMAIN files : s <= Stamp(q.index)
    <3> SUFFICES ASSUME NEW s \in DOMAIN files PROVE s <= Stamp(q.index)
      OBVIOUS
    <3>1. PICK j \in 0..(Len(time_stamps) - 1) : s = Stamp(j)
      BY StampsAre
    <3>2. j = q.index \/ j < q.index
      BY <1>1, <1>4
    <3> QED
      BY <1>2, <1>3, <3>1, <3>2, StampsAre
  <2> QED
    BY <1>1, <2>2, <2>3, <2>4 DEF Behind
<1>5. CASE i # Len(time_stamps)
  <2>1. r \in ReadTime(OpenRead(q, i)) /\ i \in 0..(Len(time_stamps) - 1)
    BY <1>1, <1>5 DEF OpenNext
  <2>2. /\ PlaceOK(r) /\ r.index = i /\ r.ifile = Stamp(i) /\ Stamp(i) \in DOMAIN files
        /\ \A s \in DOMAIN files : \A k \in 1..Len(files[s]) : Behind(r, s, k) <=> s < Stamp(i)
    <3> HIDE DEF i
    <3> QED
      BY <2>1, OpenedIs
  <2>3. Stamp(q.index) < Stamp(i)
    <3>1. q.index < i
      BY <1>1
    <3> QED
      BY <2>1, <3>1, StampsAre
  <2>4. ASSUME NEW s \in DOMAIN files PROVE s < Stamp(i) <=> s <= Stamp(q.index)
    <3>1. PICK j \in 0..(Len(time_stamps) - 1) : s = Stamp(j)
      BY StampsAre
    <3>2. j < q.index \/ j = q.index \/ j = i \/ j > i
      BY <1>1
    <3>3. j < q.index => Stamp(j) < Stamp(q.index)
      BY StampsAre
    <3>4. i < j => Stamp(i) < Stamp(j)
      BY <2>1, StampsAre
    <3> HIDE DEF i
    <3> QED
      BY <1>2, <1>3, <2>2, <2>3, <3>1, <3>2, <3>3, <3>4
  <2>5. r.ifile # NoFile /\ r.index # -1
    <3>1. Stamp(i) # 0 /\ i # -1
      BY <1>1, <2>1, StampsAre
    <3> QED
      BY <2>2, <3>1 DEF NoFile
  <2> QED
    BY <1>2, <1>3, <2>2, <2>3, <2>4, <2>5
<1> QED
  BY <1>4, <1>5

\* At the end of a file the reader goes on to the next, and passes no record.
LEMMA GoesOnIs ==
  ASSUME FilesOK, TimesOK, CutsOK, NEW q, PlaceOK(q), q.ifile # NoFile, NEW r \in GoesOn(q)
  PROVE  /\ PlaceOK(r) /\ r.index # -1
         /\ r.ifile # NoFile => r.ifile >= q.ifile
         /\ r.ifile = NoFile => \A s \in DOMAIN files : s <= q.ifile
         /\ \A s \in DOMAIN files : \A k \in 1..Len(files[s]) : Behind(r, s, k) <=> Behind(q, s, k)
<1>1. /\ q \in ReaderRec /\ q.index \in 0..(Len(time_stamps) - 1) /\ q.ifile = Stamp(q.index) /\ q.ifile \in Nat
  <2>1. Len(time_stamps) \in Nat
    BY StampsAre
  <2> QED
    BY <2>1 DEF PlaceOK, ReaderRec
<1>2. CASE q.eof
  <2>1. r \in OpenNext(q)
    BY <1>2 DEF GoesOn
  <2>2. /\ PlaceOK(r) /\ r.index # -1
        /\ r.ifile = NoFile => \A s \in DOMAIN files : s <= Stamp(q.index)
        /\ \A s \in DOMAIN files : \A k \in 1..Len(files[s]) : Behind(r, s, k) <=> s <= Stamp(q.index)
        /\ r.ifile # NoFile => r.ifile > Stamp(q.index)
    BY <1>1, <2>1, OpenNextIs
  <2>3. ASSUME NEW s \in DOMAIN files, NEW k \in 1..Len(files[s]) PROVE Behind(q, s, k) <=> s <= q.ifile
    <3>1. s \in Nat
      BY DEF FilesOK
    <3> QED
      BY <1>1, <1>2, <3>1 DEF Behind
  <2>4. r.ifile \in Nat
    BY <2>2 DEF PlaceOK, ReaderRec
  <2> QED
    BY <1>1, <2>2, <2>3, <2>4
<1>3. CASE ~q.eof
  <2>1. r = q /\ q.index # -1
    BY <1>1, <1>3 DEF GoesOn
  <2> QED
    BY <1>1, <2>1
<1> QED
  BY <1>2, <1>3

LEMMA ReaderBecomesIs ==
  ASSUME NEW r, r \in ReaderRec, ReaderBecomes(r)
  PROVE  Reader' = r
BY DEF ReaderRec, ReaderBecomes, Reader

\* The first file: no later one begins at or before the time asked for, and it
\* begins no later than that, unless it is the oldest.
LEMMA OpenFirstKeepsLog ==
  ASSUME LogInv, CutsOK, replaying, index = -1, NEW i, i \in 0..(Len(time_stamps) - 1), OpenFirst(i),
         UNCHANGED <<files, logged, logClock, replaying, time_stamps, delivered>>, start' \in Int,
         \A s \in DOMAIN files : s > Stamp(i) => s > start',
         Stamp(i) <= start' \/ \A s \in DOMAIN files : Stamp(i) <= s
  PROVE  LogInv'
<1>1. FilesOK /\ LoggedOK /\ TimesOK /\ Reader \in ReaderRec /\ delivered = <<>>
  BY DEF LogInv
<1>0. PICK r \in ReadTime(OpenRead(Reader, i)) : ReaderBecomes(r)
  BY DEF OpenFirst
<1>2. /\ PlaceOK(r) /\ r.index = i /\ r.ifile = Stamp(i) /\ Stamp(i) \in DOMAIN files
      /\ \A s \in DOMAIN files : \A k \in 1..Len(files[s]) : Behind(r, s, k) <=> s < Stamp(i)
  BY <1>1, OpenedIs
<1>3. ReaderBecomes(r) /\ first' = Stamp(i) /\ opening' = "opened"
  BY <1>0 DEF OpenFirst
<1>4. Reader' = r /\ ifile' = Stamp(i) /\ index' = i
  BY <1>2, <1>3, ReaderBecomesIs DEF PlaceOK, ReaderBecomes
<1>5. FilesOK' /\ LoggedOK' /\ TimesOK'
  BY <1>1 DEF FilesOK, LoggedOK, TimesOK
<1>6. PlaceOK(Reader)' /\ Reader' \in ReaderRec
  BY <1>2, <1>4 DEF PlaceOK, Stamp
<1>7. Stamp(i) \in Nat
  BY <1>1, <1>2 DEF FilesOK
<1>8. ReaderOK'
  BY <1>2, <1>3, <1>4, <1>6, <1>7 DEF ReaderOK
<1>9. DeliveredOK'
  <2>1. delivered' = <<>>
    BY <1>1
  <2>2. ASSUME NEW s \in DOMAIN files', NEW k \in 1..Len(files'[s]), s >= first', Behind(Reader, s, k)'
        PROVE  FALSE
    <3>1. Behind(r, s, k) /\ s \in Nat
      BY <1>1, <1>4, <2>2 DEF Behind, FilesOK
    <3> QED
      BY <1>2, <1>3, <1>7, <2>2, <3>1
  <2> QED
    BY <2>1, <2>2, EmptySeq DEF DeliveredOK
<1> QED
  BY <1>1, <1>3, <1>4, <1>5, <1>6, <1>8, <1>9 DEF LogInv

LEMMA SearchBeginsOK == LogInv /\ CutsOK /\ get_time_index => LogInv'
<1> SUFFICES ASSUME LogInv, CutsOK, get_time_index PROVE LogInv'
  OBVIOUS
<1> DEFINE imax == Len(time_stamps) - 1
<1>1. /\ FilesOK /\ LoggedOK /\ TimesOK /\ Reader \in ReaderRec /\ replaying /\ index = -1 /\ delivered = <<>>
      /\ UNCHANGED <<files, logged, logClock, replaying, time_stamps, delivered>> /\ start' = logClock
  BY DEF LogInv, get_time_index, writerVars
<1>2. imax \in Nat /\ Len(time_stamps) \in Nat /\ logClock \in Nat
  BY <1>1, StampsAre DEF TimesOK
<1>3. ASSUME NEW j \in 0..imax PROVE Stamp(j) \in Nat /\ Stamp(0) <= Stamp(j) /\ Stamp(j) <= Stamp(imax)
  <2>1. Stamp(j) \in Nat /\ Stamp(0) \in Nat /\ Stamp(imax) \in Nat
    BY <1>1, <1>2, StampsAre
  <2>2. j = 0 \/ Stamp(0) < Stamp(j)
    BY <1>1, <1>2, StampsAre
  <2>3. j = imax \/ Stamp(j) < Stamp(imax)
    BY <1>1, <1>2, StampsAre
  <2> QED
    BY <2>1, <2>2, <2>3
<1>4. \A s \in DOMAIN files : \E j \in 0..imax : s = Stamp(j)
  BY <1>1, StampsAre
<1>5. CASE logClock < Stamp(0)
  <2>1. OpenFirst(0) /\ 0 \in 0..imax
    BY <1>2, <1>5 DEF get_time_index
  <2>2. \A s \in DOMAIN files : Stamp(0) <= s /\ s > logClock
    BY <1>2, <1>3, <1>4, <1>5
  <2> QED
    BY <1>1, <1>2, <2>1, <2>2, OpenFirstKeepsLog
<1>6. CASE ~(logClock < Stamp(0)) /\ logClock >= Stamp(imax)
  <2>1. OpenFirst(imax) /\ imax \in 0..imax
    BY <1>2, <1>6 DEF get_time_index
  <2>2. \A s \in DOMAIN files : ~(s > Stamp(imax))
    BY <1>2, <1>3, <1>4
  <2> HIDE DEF imax
  <2>3. imax \in 0..(Len(time_stamps) - 1)
    BY <1>2 DEF imax
  <2> QED
    BY <1>1, <1>2, <1>6, <2>1, <2>2, <2>3, OpenFirstKeepsLog
<1>7. CASE ~(logClock < Stamp(0)) /\ ~(logClock >= Stamp(imax))
  <2>1. search' = Halfway(0, imax) /\ opening' = "search" /\ UNCHANGED <<Reader, index, first>>
    BY <1>7 DEF get_time_index, readerVars, Reader
  <2>2. search'.imin = 0 /\ search'.imax = imax
    BY <2>1 DEF Halfway
  <2>3. 0 < imax /\ Stamp(0) <= logClock /\ logClock < Stamp(imax)
    BY <1>2, <1>3, <1>7
  <2>4. SearchOK'
    BY <1>1, <1>2, <2>1, <2>2, <2>3 DEF SearchOK, Stamp
  <2>5. FilesOK' /\ LoggedOK' /\ TimesOK'
    BY <1>1 DEF FilesOK, LoggedOK, TimesOK
  <2> QED
    BY <1>1, <2>1, <2>4, <2>5 DEF LogInv
<1> QED
  BY <1>5, <1>6, <1>7

\* The file looked at lies between the ends of the search.
LEMMA SearchedIs ==
  ASSUME LogInv, opening = "search"
  PROVE  /\ FilesOK /\ TimesOK /\ SearchOK /\ replaying /\ index = -1
         /\ search.imin \in Nat /\ search.imax \in Nat /\ search.imax <= Len(time_stamps) - 1
         /\ search.i = search.imin + ((search.imax - search.imin) \div 2)
         /\ search.imin <= search.i /\ search.i < search.imax
<1>1. FilesOK /\ TimesOK /\ SearchOK /\ replaying /\ index = -1
  BY DEF LogInv
<1>2. search.imin \in Nat /\ search.imax \in Nat /\ search.imin < search.imax /\ search.imax < Len(time_stamps)
  BY <1>1 DEF SearchOK
<1>3. search.i = search.imin + ((search.imax - search.imin) \div 2)
  <2>1. search = Halfway(search.imin, search.imax)
    BY <1>1 DEF SearchOK
  <2> QED
    BY <2>1 DEF Halfway
<1> DEFINE d == search.imax - search.imin
<1>4. d \in Nat /\ d > 0 /\ search.imax = search.imin + d
  BY <1>2
<1> HIDE DEF d
<1>5. d \div 2 \in Nat /\ d \div 2 < d
  BY <1>4
<1>6. Len(time_stamps) \in Nat
  BY <1>1, StampsAre
<1> QED
  BY <1>1, <1>2, <1>3, <1>4, <1>5, <1>6 DEF d

LEMMA SearchOnHalves ==
  ASSUME LogInv, SearchOn
  PROVE  /\ search'.imin \in Nat /\ search'.imax \in Nat /\ search'.imin < search'.imax
         /\ search'.imax < Len(time_stamps) /\ search' = Halfway(search'.imin, search'.imax)
         /\ Stamp(search'.imin) <= logClock /\ logClock < Stamp(search'.imax)
         /\ 2 * (search'.imax - search'.imin) <= search.imax - search.imin
<1>1. opening = "search" /\ ~Returns(search.i) /\ search' = Narrowed(search.i)
  BY DEF SearchOn
<1> DEFINE i == search.i
<1>2. /\ FilesOK /\ TimesOK /\ SearchOK /\ search.imin \in Nat /\ search.imax \in Nat
      /\ search.imax < Len(time_stamps) /\ search.imin <= i /\ i < search.imax
      /\ i = search.imin + ((search.imax - search.imin) \div 2) /\ i \in Nat
  <2>1. FilesOK /\ TimesOK
    BY <1>1, SearchedIs
  <2>2. Len(time_stamps) \in Nat
    BY <2>1, StampsAre
  <2>3. (search.imax - search.imin) \div 2 \in Int
    BY <1>1, SearchedIs
  <2> QED
    BY <1>1, <2>2, <2>3, SearchedIs
<1>3. Stamp(search.imin) <= logClock /\ logClock < Stamp(search.imax) /\ logClock \in Nat
  BY <1>2 DEF SearchOK, TimesOK
<1>4. i \in 0..(Len(time_stamps) - 1) /\ i + 1 \in 0..(Len(time_stamps) - 1) /\ Stamp(i) \in Nat /\ Stamp(i + 1) \in Nat
  <2>1. Len(time_stamps) \in Nat
    BY <1>2, StampsAre
  <2>2. i \in 0..(Len(time_stamps) - 1) /\ i + 1 \in 0..(Len(time_stamps) - 1)
    BY <1>2, <2>1
  <2> HIDE DEF i
  <2> QED
    BY <1>2, <2>2, StampsAre
<1>5. /\ 2 * (i - search.imin) <= search.imax - search.imin
      /\ 2 * (search.imax - (i + 1)) <= search.imax - search.imin
  <2> SUFFICES ASSUME NEW lo \in Nat, NEW hi \in Nat, NEW k, k = lo + ((hi - lo) \div 2)
               PROVE  2 * (k - lo) <= hi - lo /\ 2 * (hi - (k + 1)) <= hi - lo
    BY <1>2
  <2> DEFINE d == hi - lo
             h == d \div 2
  <2>1. d \in Int /\ h \in Int /\ 2 * h <= d /\ d <= 2 * h + 1
    OBVIOUS
  <2>2. k - lo = h /\ hi - (k + 1) = (d - h) - 1
    BY <2>1
  <2> HIDE DEF d, h
  <2> QED
    BY <2>1, <2>2 DEF d
<1>6. CASE Stamp(i) > logClock
  <2>1. search' = Halfway(search.imin, i) /\ i # search.imin
    BY <1>1, <1>6 DEF Narrowed, Returns
  <2>2. search'.imin = search.imin /\ search'.imax = i
    BY <2>1 DEF Halfway
  <2>3. 2 * (i - search.imin) <= search.imax - search.imin
    BY <1>5
  <2>4. search.imin < i /\ i < Len(time_stamps)
    BY <1>2, <1>4, <2>1
  <2> HIDE DEF i
  <2> QED
    BY <1>2, <1>3, <1>4, <1>6, <2>1, <2>2, <2>3, <2>4
<1>7. CASE ~(Stamp(i) > logClock)
  <2>1. search' = Halfway(i + 1, search.imax) /\ ~(Stamp(i + 1) > logClock)
    BY <1>1, <1>7 DEF Narrowed, Returns
  <2>2. search'.imin = i + 1 /\ search'.imax = search.imax
    BY <2>1 DEF Halfway
  <2>3. 2 * (search.imax - (i + 1)) <= search.imax - search.imin
    BY <1>5
  <2>4. i + 1 # search.imax
    BY <1>3, <1>4, <2>1
  <2> HIDE DEF i
  <2>5. i + 1 < search.imax /\ i + 1 \in Nat
    BY <1>2, <2>4
  <2>6. Stamp(i + 1) <= logClock
    BY <1>3, <1>4, <2>1
  <2> DEFINE next == i + 1
  <2> HIDE DEF next
  <2>7. next = i + 1
    BY DEF next
  <2> QED
    BY <1>2, <1>3, <2>1, <2>2, <2>3, <2>5, <2>6, <2>7
<1> QED
  BY <1>6, <1>7

LEMMA SearchOnKeepsLog == LogInv /\ SearchOn => LogInv'
<1> SUFFICES ASSUME LogInv, SearchOn PROVE LogInv'
  OBVIOUS
<1>1. /\ FilesOK /\ LoggedOK /\ TimesOK /\ SearchOK /\ Reader \in ReaderRec
      /\ replaying /\ index = -1 /\ opening = "search" /\ delivered = <<>>
  BY DEF LogInv, SearchOn
<1>2. UNCHANGED <<files, logged, logClock, replaying, start, time_stamps, opening, index, Reader, delivered>>
  BY DEF SearchOn, writerVars, readerVars, Reader
<1>3. FilesOK' /\ LoggedOK' /\ TimesOK'
  BY <1>1, <1>2 DEF FilesOK, LoggedOK, TimesOK
<1>4. SearchOK'
  <2>1. start = logClock
    BY <1>1 DEF SearchOK
  <2> QED
    BY <1>2, <2>1, SearchOnHalves DEF SearchOK, Stamp
<1> QED
  BY <1>1, <1>2, <1>3, <1>4 DEF LogInv

LEMMA SearchEndsKeepsLog == LogInv /\ CutsOK /\ SearchEnds => LogInv'
<1> SUFFICES ASSUME LogInv, CutsOK, SearchEnds PROVE LogInv'
  OBVIOUS
<1> DEFINE i == search.i
<1>1. /\ opening = "search" /\ Returns(i) /\ OpenFirst(i)
      /\ UNCHANGED <<files, logged, logClock, replaying, start, time_stamps, delivered>>
  BY DEF SearchEnds, Found, writerVars
<1>2. /\ FilesOK /\ TimesOK /\ SearchOK /\ replaying /\ index = -1 /\ search.imin \in Nat /\ search.imax \in Nat
      /\ search.imax <= Len(time_stamps) - 1 /\ search.imin <= i /\ i < search.imax
  BY <1>1, SearchedIs
<1>3. Stamp(search.imin) <= logClock /\ logClock \in Nat /\ start = logClock
  BY <1>2 DEF SearchOK, TimesOK
<1>4. i \in Nat
  <2>1. (search.imax - search.imin) \div 2 \in Int
    BY <1>2
  <2> QED
    BY <1>1, <1>2, <2>1, SearchedIs
<1>5. Len(time_stamps) \in Nat
  BY <1>2, StampsAre
<1> HIDE DEF i
<1>6. i \in 0..(Len(time_stamps) - 1) /\ i + 1 \in 0..(Len(time_stamps) - 1)
  BY <1>2, <1>4, <1>5
<1>7. Stamp(i) \in Nat /\ Stamp(i + 1) \in Nat
  BY <1>2, <1>6, StampsAre
<1>8. Stamp(i) <= logClock /\ logClock < Stamp(i + 1)
  BY <1>1, <1>3, <1>7 DEF Returns
<1>9. ASSUME NEW s \in DOMAIN files, s > Stamp(i) PROVE s > start
  <2>1. PICK j \in 0..(Len(time_stamps) - 1) : s = Stamp(j)
    BY <1>2, StampsAre
  <2>2. j < i => Stamp(j) < Stamp(i)
    BY <1>2, <1>6, StampsAre
  <2>3. j = i + 1 \/ (i + 1 < j => Stamp(i + 1) < Stamp(j))
    BY <1>2, <1>6, StampsAre
  <2>4. Stamp(j) \in Nat
    BY <1>2, StampsAre
  <2>5. j < i \/ j = i \/ j = i + 1 \/ i + 1 < j
    BY <1>4
  <2> QED
    BY <1>3, <1>7, <1>8, <1>9, <2>1, <2>2, <2>3, <2>4, <2>5
<1> QED
  BY <1>1, <1>2, <1>3, <1>6, <1>8, <1>9, OpenFirstKeepsLog

\* The reader goes past the record it gives, and past no other.
LEMMA GivenOK ==
  ASSUME FilesOK, DeliveredOK, ReaderOK, TimesOK, ifile # NoFile, ~eof, index # -1,
         delivered' = Append(delivered, files[ifile][at]), UNCHANGED <<files, first>>,
         \A s \in DOMAIN files : \A k \in 1..Len(files[s]) :
           Behind(Reader, s, k)' <=> Behind(Reader, s, k) \/ (s = ifile /\ k = at)
  PROVE  DeliveredOK'
<1>1. /\ index \in 0..(Len(time_stamps) - 1) /\ ifile = Stamp(index) /\ at \in Nat /\ at >= 1
      /\ at <= Len(files[ifile]) /\ first <= ifile
  BY DEF ReaderOK, PlaceOK, Reader, ReaderRec
<1>2. ifile \in DOMAIN files /\ files[ifile] \in Seq(FileRecord)
  BY <1>1, StampsAre DEF FilesOK
<1>3. at \in 1..Len(files[ifile])
  BY <1>1, <1>2
<1> DEFINE rec == files[ifile][at]
<1>4. rec \in FileRecord
  BY <1>2, <1>3
<1>5. delivered \in Seq(FileRecord) /\ Len(delivered) \in Nat
  BY DEF DeliveredOK
<1>6. rec = files[ifile][at]
  OBVIOUS
<1> HIDE DEF rec
<1>7. /\ delivered' \in Seq(FileRecord) /\ Len(delivered') = Len(delivered) + 1 /\ delivered'[Len(delivered) + 1] = rec
      /\ \A i \in 1..Len(delivered) : delivered'[i] = delivered[i]
  BY <1>4, <1>5, <1>6, AppendProperties
<1>8. ASSUME NEW i \in 1..Len(delivered)
      PROVE  delivered[i].t < rec.t
  <2>1. PICK s \in DOMAIN files : \E k \in 1..Len(files[s]) : delivered[i] = files[s][k] /\ Behind(Reader, s, k)
    BY DEF DeliveredOK
  <2>2. PICK k \in 1..Len(files[s]) : delivered[i] = files[s][k] /\ Behind(Reader, s, k)
    BY <2>1
  <2>3. s < ifile \/ (s = ifile /\ k < at)
    BY <2>2 DEF Behind, Reader
  <2> QED
    BY <1>2, <1>3, <1>6, <2>2, <2>3, RecordsFollow
<1>9. ASSUME NEW i \in 1..Len(delivered'), NEW j \in 1..Len(delivered'), i < j
      PROVE  delivered'[i].t < delivered'[j].t
  <2>1. i \in 1..Len(delivered) /\ (j = Len(delivered) + 1 \/ j \in 1..Len(delivered))
    BY <1>5, <1>7, <1>9
  <2>2. CASE j = Len(delivered) + 1
    BY <1>7, <1>8, <2>1, <2>2
  <2>3. CASE j \in 1..Len(delivered)
    BY <1>7, <1>9, <2>1, <2>3 DEF DeliveredOK
  <2> QED
    BY <2>1, <2>2, <2>3
<1>10. ASSUME NEW i \in 1..Len(delivered')
       PROVE  \E s \in DOMAIN files : \E k \in 1..Len(files[s]) :
                delivered'[i] = files[s][k] /\ s >= first /\ Behind(Reader, s, k)'
  <2>1. CASE i = Len(delivered) + 1
    <3>1. PICK s \in DOMAIN files : s = ifile
      BY <1>2
    <3>2. PICK k \in 1..Len(files[s]) : k = at
      BY <1>3, <3>1
    <3>3. s >= first
      <4>1. first \in Nat /\ ifile \in Nat
        BY <1>2 DEF ReaderOK, FilesOK
      <4> QED
        BY <1>1, <3>1, <4>1
    <3>4. Behind(Reader, s, k)' /\ delivered'[i] = files[s][k]
      BY <1>6, <1>7, <2>1, <3>1, <3>2
    <3> QED
      BY <3>3, <3>4
  <2>2. CASE i \in 1..Len(delivered)
    <3>1. PICK s \in DOMAIN files : \E k \in 1..Len(files[s]) :
             delivered[i] = files[s][k] /\ s >= first /\ Behind(Reader, s, k)
      BY <2>2 DEF DeliveredOK
    <3>2. PICK k \in 1..Len(files[s]) : delivered[i] = files[s][k] /\ s >= first /\ Behind(Reader, s, k)
      BY <3>1
    <3>3. Behind(Reader, s, k)' /\ delivered'[i] = files[s][k]
      BY <1>7, <2>2, <3>2
    <3> QED
      BY <3>2, <3>3
  <2> QED
    BY <1>5, <1>7, <2>1, <2>2
<1>11. ASSUME NEW s \in DOMAIN files, NEW k \in 1..Len(files[s]), s >= first, Behind(Reader, s, k)'
       PROVE  Hidden(s, k)' \/ \E i \in 1..Len(delivered') : delivered'[i] = files[s][k]
  <2>1. CASE s = ifile /\ k = at
    <3>1. Len(delivered) + 1 \in 1..Len(delivered') /\ delivered'[Len(delivered) + 1] = files[s][k]
      BY <1>5, <1>6, <1>7, <2>1
    <3> QED
      BY <3>1
  <2>2. CASE Behind(Reader, s, k)
    <3>1. PICK i \in 1..Len(delivered) : delivered[i] = files[s][k]
      BY <1>11, <2>2 DEF DeliveredOK, Hidden
    <3>2. i \in 1..Len(delivered') /\ delivered'[i] = files[s][k]
      BY <1>5, <1>7, <3>1
    <3> QED
      BY <3>2
  <2> QED
    BY <1>11, <2>1, <2>2
<1> QED
  BY <1>7, <1>9, <1>10, <1>11, ZenonT(30) DEF DeliveredOK

LEMMA ReadKeepsLog == LogInv /\ CutsOK /\ read => LogInv'
<1> SUFFICES ASSUME LogInv, CutsOK, read PROVE LogInv'
  OBVIOUS
<1>1. /\ FilesOK /\ LoggedOK /\ TimesOK /\ ReaderOK /\ DeliveredOK /\ Reader \in ReaderRec
      /\ replaying /\ index # -1 /\ start \in Int
  BY DEF LogInv, read
<1>2. /\ UNCHANGED <<files, logged, logClock, replaying, start, first, time_stamps, search>>
      /\ opening' = "idle"
  BY DEF read, writerVars
<1>3. FilesOK' /\ LoggedOK' /\ TimesOK'
  BY <1>1, <1>2 DEF FilesOK, LoggedOK, TimesOK
<1>4. SUFFICES ReaderOK' /\ DeliveredOK' /\ index' # -1
  BY <1>1, <1>2, <1>3, <1>4 DEF LogInv, ReaderOK, PlaceOK
<1>5. ASSUME NEW r, PlaceOK(r), r.index # -1, r.ifile # NoFile => first <= r.ifile, ReaderBecomes(r)
      PROVE  ReaderOK' /\ index' # -1 /\ Reader' = r
  <2>1. Reader' = r /\ ifile' = r.ifile /\ index' = r.index
    BY <1>5, ReaderBecomesIs DEF PlaceOK, ReaderBecomes
  <2>2. PlaceOK(Reader)'
    BY <1>2, <1>5, <2>1 DEF PlaceOK, Stamp
  <2> QED
    BY <1>1, <1>2, <1>5, <2>1, <2>2 DEF ReaderOK
<1>6. CASE ~RecordDue
  <2>1. UNCHANGED <<Reader, index, ifile, delivered, stub>>
    BY <1>6 DEF read, readerVars, Reader, writerVars
  <2>2. PlaceOK(Reader)'
    BY <1>1, <1>2, <2>1 DEF ReaderOK, PlaceOK, Stamp
  <2>3. ReaderOK'
    BY <1>1, <1>2, <2>1, <2>2 DEF ReaderOK
  <2>4. DeliveredOK'
    BY <1>1, <1>2, <2>1 DEF DeliveredOK, Behind, Hidden
  <2> QED
    BY <1>1, <2>1, <2>3, <2>4
<1>7. CASE RecordDue
  <2>1. /\ PlaceOK(Reader) /\ Reader.ifile = ifile /\ Reader.at = at /\ Reader.eof = eof /\ Reader.timestamp = timestamp
        /\ ifile # NoFile /\ first <= ifile /\ ifile \in Nat /\ first \in Nat
    BY <1>1, <1>7 DEF ReaderOK, PlaceOK, Reader, ReaderRec, RecordDue, FilesOK
  <2>2. PICK r \in ReadTime(Reader) :
          \/ r.timestamp >= timestamp /\ Gives /\ \E q \in GoesOn(r) : ReaderBecomes(q)
          \/ /\ r.timestamp < timestamp
             /\ \E q \in OpenNext(r) :
                  \/ q.ifile = NoFile /\ ReaderBecomes(q) /\ UNCHANGED delivered
                  \/ q.ifile # NoFile /\ Gives /\ \E p \in GoesOn(q) : ReaderBecomes(p)
    BY <1>7 DEF read
  <2>3. /\ PlaceOK(r) /\ r.ifile = ifile /\ (eof => r = Reader)
        /\ r.timestamp < timestamp => r.eof /\ ~eof /\ ifile \in DOMAIN stub /\ at = Len(files[ifile])
        /\ \A s \in DOMAIN files : \A k \in 1..Len(files[s]) :
             Behind(r, s, k) <=> Behind(Reader, s, k) \/ (s = ifile /\ k = at)
    BY <1>1, <2>1, ReadTimeIs
  <2>4. PICK q \in GoesOn(r) :
          \/ Gives /\ ReaderBecomes(q)
          \/ q.ifile = NoFile /\ ReaderBecomes(q) /\ UNCHANGED delivered /\ r.timestamp < timestamp
          \/ q.ifile # NoFile /\ Gives /\ \E p \in GoesOn(q) : ReaderBecomes(p)
    BY <2>2, <2>3 DEF GoesOn
  <2>5. /\ PlaceOK(q) /\ q.index # -1 /\ (q.ifile # NoFile => q.ifile >= ifile)
        /\ q.ifile = NoFile => \A s \in DOMAIN files : s <= ifile
        /\ \A s \in DOMAIN files : \A k \in 1..Len(files[s]) : Behind(q, s, k) <=> Behind(r, s, k)
    BY <1>1, <2>1, <2>3, GoesOnIs
  <2>6. q.ifile \in Nat
    BY <2>5 DEF PlaceOK, ReaderRec
  <2>7. ASSUME NEW p, PlaceOK(p), p.index # -1, p.ifile # NoFile => p.ifile >= ifile, ReaderBecomes(p),
               \A s \in DOMAIN files : \A k \in 1..Len(files[s]) : Behind(p, s, k) <=> Behind(r, s, k), Gives
        PROVE  ReaderOK' /\ DeliveredOK' /\ index' # -1
    <3>1. p.ifile # NoFile => first <= p.ifile
      <4>1. p.ifile \in Nat
        BY <2>7 DEF PlaceOK, ReaderRec
      <4> QED
        BY <2>1, <2>7, <4>1
    <3>2. ReaderOK' /\ index' # -1 /\ Reader' = p
      BY <1>5, <2>7, <3>1
    <3>3. ASSUME NEW s \in DOMAIN files, NEW k \in 1..Len(files[s])
          PROVE  Behind(Reader, s, k)' <=> Behind(Reader, s, k) \/ (s = ifile /\ k = at)
      <4>1. Behind(Reader, s, k)' <=> Behind(p, s, k)
        BY <3>2 DEF Behind
      <4> QED
        BY <2>3, <2>7, <4>1
    <3>4. CASE eof
      <4>1. \A s \in DOMAIN files : \A k \in 1..Len(files[s]) : Behind(Reader, s, k)' <=> Behind(Reader, s, k)
        <5>1. \A s \in DOMAIN files : \A k \in 1..Len(files[s]) : Behind(r, s, k) <=> Behind(Reader, s, k)
          BY <2>3, <3>4
        <5> QED
          BY <2>3, <3>3, <5>1
      <4>2. delivered' = delivered
        BY <2>7, <3>4 DEF Gives
      <4>3. \A s \in DOMAIN files : \A k \in 1..Len(files[s]) : ~Hidden(s, k)
        BY <2>1 DEF Hidden
      <4> QED
        BY <1>1, <1>2, <3>2, <4>1, <4>2, <4>3 DEF DeliveredOK
    <3>5. CASE ~eof
      <4>1. delivered' = Append(delivered, files[ifile][at])
        BY <2>7, <3>5 DEF Gives
      <4> QED
        BY <1>1, <1>2, <2>1, <3>2, <3>3, <3>5, <4>1, GivenOK
    <3> QED
      BY <3>4, <3>5
  <2>8. CASE Gives /\ ReaderBecomes(q)
    BY <2>5, <2>7, <2>8
  <2>9. CASE q.ifile = NoFile /\ ReaderBecomes(q) /\ UNCHANGED delivered /\ r.timestamp < timestamp
    <3>1. ReaderOK' /\ index' # -1 /\ Reader' = q /\ ifile' = NoFile
      BY <1>5, <2>5, <2>9 DEF ReaderBecomes
    <3>2. UNCHANGED stub
      BY DEF read, writerVars
    <3>3. \A s \in DOMAIN files : \A k \in 1..Len(files[s]) : Behind(Reader, s, k)'
      BY <2>9, <3>1 DEF Behind
    <3>4. ASSUME NEW s \in DOMAIN files, NEW k \in 1..Len(files[s]), s >= first
          PROVE  Hidden(s, k)' \/ \E i \in 1..Len(delivered) : delivered[i] = files[s][k]
      <4>1. Behind(Reader, s, k) \/ (s = ifile /\ k = at)
        BY <2>3, <2>5, <2>9 DEF Behind
      <4>2. CASE Behind(Reader, s, k)
        BY <1>1, <2>1, <3>4, <4>2 DEF DeliveredOK, Hidden
      <4>3. CASE s = ifile /\ k = at
        BY <1>2, <2>3, <2>5, <2>9, <3>1, <3>2, <4>3 DEF Hidden
      <4> QED
        BY <4>1, <4>2, <4>3
    <3>5. ASSUME NEW i \in 1..Len(delivered)
          PROVE  \E s \in DOMAIN files : \E k \in 1..Len(files[s]) : delivered[i] = files[s][k] /\ s >= first
      BY <1>1 DEF DeliveredOK
    <3>6. /\ delivered \in Seq(FileRecord)
          /\ \A i, j \in 1..Len(delivered) : i < j => delivered[i].t < delivered[j].t
      BY <1>1 DEF DeliveredOK
    <3>7. DeliveredOK'
      BY <1>2, <2>9, <3>3, <3>4, <3>5, <3>6 DEF DeliveredOK
    <3> QED
      BY <3>1, <3>7
  <2>10. CASE q.ifile # NoFile /\ Gives /\ \E p \in GoesOn(q) : ReaderBecomes(p)
    <3>1. PICK p \in GoesOn(q) : ReaderBecomes(p)
      BY <2>10
    <3>2. /\ PlaceOK(p) /\ p.index # -1 /\ (p.ifile # NoFile => p.ifile >= q.ifile)
          /\ \A s \in DOMAIN files : \A k \in 1..Len(files[s]) : Behind(p, s, k) <=> Behind(q, s, k)
      BY <1>1, <2>5, <2>10, GoesOnIs
    <3>3. p.ifile # NoFile => p.ifile >= ifile
      <4>1. p.ifile \in Nat
        BY <3>2 DEF PlaceOK, ReaderRec
      <4> QED
        BY <2>1, <2>5, <2>6, <2>10, <3>2, <4>1
    <3>4. \A s \in DOMAIN files : \A k \in 1..Len(files[s]) : Behind(p, s, k) <=> Behind(r, s, k)
      BY <2>5, <3>2
    <3> QED
      BY <2>7, <2>10, <3>1, <3>2, <3>3, <3>4
  <2> QED
    BY <2>4, <2>8, <2>9, <2>10
<1> QED
  BY <1>6, <1>7

LEMMA TimeKeepsLog == LogInv /\ TimePasses => LogInv'
<1> SUFFICES ASSUME LogInv, TimePasses PROVE LogInv'
  OBVIOUS
<1>1. FilesOK /\ LoggedOK /\ TimesOK /\ replaying /\ opening = "idle" /\ Reader \in ReaderRec
  BY DEF LogInv, TimePasses
<1>2. /\ UNCHANGED <<files, stub, logged, replaying, start, first, time_stamps, opening, index, ifile, Reader, delivered>>
      /\ logClock' = logClock + 1
  BY DEF TimePasses, writerVars, replayVars, readerVars, Reader
<1>3. FilesOK' /\ LoggedOK' /\ TimesOK'
  BY <1>1, <1>2 DEF FilesOK, LoggedOK, TimesOK
<1>4. ASSUME ReaderOK PROVE ReaderOK'
  <2>1. PlaceOK(Reader)'
    BY <1>2, <1>4 DEF ReaderOK, PlaceOK, Stamp
  <2> QED
    BY <1>2, <1>4, <2>1 DEF ReaderOK
<1>5. DeliveredOK => DeliveredOK'
  BY <1>2 DEF DeliveredOK, Behind, Hidden
<1> QED
  BY <1>1, <1>2, <1>3, <1>4, <1>5 DEF LogInv

LEMMA LogKept == LogInv /\ CutsOK /\ [LogNext]_logVars => LogInv'
<1> SUFFICES ASSUME LogInv, CutsOK, [LogNext]_logVars PROVE LogInv'
  OBVIOUS
<1>1. CASE UNCHANGED logVars
  <2>1. UNCHANGED <<files, stub, ofile, last_write, logClock, logged, replaying, start, first, time_stamps, opening,
                    search, index, ifile, delivered, Reader>>
    BY <1>1 DEF logVars, writerVars, replayVars, readerVars, Reader
  <2>2. FilesOK' = FilesOK /\ LoggedOK' = LoggedOK /\ WriterOK' = WriterOK /\ TimesOK' = TimesOK
    BY <2>1 DEF FilesOK, LoggedOK, WriterOK, TimesOK
  <2>3. SearchOK' = SearchOK
    BY <2>1 DEF SearchOK, Stamp
  <2>4. PlaceOK(Reader)' = PlaceOK(Reader)
    BY <2>1 DEF PlaceOK, Stamp
  <2>5. ReaderOK' = ReaderOK
    BY <2>1, <2>4 DEF ReaderOK
  <2>6. DeliveredOK' = DeliveredOK
    BY <2>1 DEF DeliveredOK, Behind, Hidden
  <2> QED
    BY <2>1, <2>2, <2>3, <2>5, <2>6 DEF LogInv
<1> QED
  BY <1>1, WriteKeepsLog, DestroyKeepsLog, CrashKeepsLog, InitKeepsLog, SearchBeginsOK, SearchOnKeepsLog,
     SearchEndsKeepsLog, ReadKeepsLog, TimeKeepsLog DEF LogNext


\* A crash cuts one record, the first of those it takes, and what is written
\* later goes behind it into another file.
LEMMA CutsKept == LogInv /\ CutsOK /\ [LogNext]_logVars => CutsOK'
<1> SUFFICES ASSUME LogInv, CutsOK, [LogNext]_logVars PROVE CutsOK'
  OBVIOUS
<1>1. ASSUME UNCHANGED <<files, stub>> PROVE CutsOK'
  BY <1>1 DEF CutsOK
<1>2. ASSUME UNCHANGED stub, NEW name, NEW records, files' = WithFile(name, records),
             \A k \in 1..Len(records) : records[k].n = Torn => k = Len(records)
      PROVE  CutsOK'
  <2>1. ASSUME NEW s \in DOMAIN files' PROVE files'[s] = records \/ (s \in DOMAIN files /\ files'[s] = files[s])
    BY <1>2 DEF WithFile
  <2> QED
    BY <1>2, <2>1 DEF CutsOK
<1>3. CASE write
  <2>1. ~replaying /\ UNCHANGED stub
    BY <1>3 DEF write
  <2>2. FilesOK /\ WriterOK
    BY <2>1 DEF LogInv
  <2>3. PICK t \in logClock..MaxTime, n \in Sizes :
          LET rec == [t |-> t, n |-> n]
              fresh == ofile = NoFile \/ total_size + n > size_max
          IN  files' = WithFile(ofile', IF fresh THEN <<rec>> ELSE Append(files[ofile], rec))
    BY <1>3 DEF write
  <2> DEFINE rec == [t |-> t, n |-> n]
             fresh == ofile = NoFile \/ total_size + n > size_max
  <2>4. rec.n = n /\ n # Torn
    BY LogAssumption DEF Torn
  <2>5. files' = WithFile(ofile', IF fresh THEN <<rec>> ELSE Append(files[ofile], rec))
    BY <2>3
  <2> HIDE DEF rec, fresh
  <2>6. CASE fresh
    <3> DEFINE new == <<rec>>
    <3>1. files' = WithFile(ofile', new)
      BY <2>5, <2>6
    <3>2. Len(new) = 1 /\ new[1] = rec
      OBVIOUS
    <3> HIDE DEF new
    <3>3. \A k \in 1..Len(new) : new[k].n = Torn => k = Len(new)
      BY <3>2
    <3> QED
      BY <1>2, <2>1, <3>1, <3>3
  <2>7. CASE ~fresh
    <3>1. ofile \in DOMAIN files /\ files[ofile] \in Seq(FileRecord) /\ Len(files[ofile]) \in Nat
      BY <2>2, <2>7 DEF WriterOK, FilesOK, fresh
    <3> DEFINE old == files[ofile]
               new == Append(old, rec)
    <3>2. \A k \in 1..Len(old) : old[k] = logged[(Len(logged) - Len(old)) + k] /\ (Len(logged) - Len(old)) + k \in 1..Len(logged)
      BY <2>2, <2>7, <3>1 DEF WriterOK, fresh, LogInv, LoggedOK
    <3>3. \A k \in 1..Len(old) : old[k].n # Torn
      <4>1. \A i \in 1..Len(logged) : logged[i] \in LogRecord
        BY ElementOfSeq DEF LogInv, LoggedOK
      <4> QED
        BY <3>2, <4>1, LogAssumption DEF LogRecord, Torn
    <3> HIDE DEF old
    <3>4. Len(new) = Len(old) + 1 /\ (\A k \in 1..Len(old) : new[k] = old[k]) /\ new[Len(old) + 1] = rec
          /\ Len(old) \in Nat
      BY <3>1 DEF old
    <3> HIDE DEF new
    <3>5. \A k \in 1..Len(new) : new[k].n # Torn
      BY <2>4, <3>3, <3>4
    <3>6. files' = WithFile(ofile', new)
      BY <2>5, <2>7 DEF new, old
    <3> QED
      BY <1>2, <2>1, <3>5, <3>6
  <2> QED
    BY <2>6, <2>7
<1>4. CASE destroy
  <2>1. UNCHANGED stub /\ (files' = WithFile(last_write + 1, <<>>) \/ files' = files)
    BY <1>4 DEF destroy
  <2> QED
    BY <1>1, <1>2, <2>1
<1>5. CASE LogCrash
  <2>1. ~replaying /\ ofile # NoFile
    BY <1>5 DEF LogCrash
  <2>2. ofile \in DOMAIN files /\ files[ofile] \in Seq(FileRecord) /\ Len(files[ofile]) \in Nat
    BY <2>1 DEF LogInv, WriterOK, FilesOK
  <2> DEFINE old == files[ofile]
  <2>3. PICK k \in 0..Len(old) :
          \/ files' = WithFile(ofile, SubSeq(old, 1, k)) /\ UNCHANGED stub
          \/ /\ k < Len(old)
             /\ files' = WithFile(ofile, Append(SubSeq(old, 1, k), [old[k + 1] EXCEPT !.n = Torn])) /\ UNCHANGED stub
          \/ /\ k < Len(old)
             /\ files' = WithFile(ofile, SubSeq(old, 1, k))
             /\ stub' = [s \in DOMAIN stub \union {ofile} |-> IF s = ofile THEN old[k + 1].t ELSE stub[s]]
    BY <1>5 DEF LogCrash
  <2> DEFINE kpt == SubSeq(old, 1, k)
  <2>4. old \in Seq(FileRecord) /\ Len(old) \in Nat /\ \A l \in 1..Len(old) : old[l].n # Torn
    <3>1. ASSUME NEW l \in 1..Len(old)
          PROVE  old[l] = logged[(Len(logged) - Len(old)) + l] /\ (Len(logged) - Len(old)) + l \in 1..Len(logged)
      <4>1. WriterOK /\ LoggedOK
        BY <2>1 DEF LogInv
      <4>2. Len(old) <= Len(logged) /\ old[l] = logged[(Len(logged) - Len(old)) + l]
        BY <2>1, <4>1 DEF WriterOK
      <4>3. Len(logged) \in Nat
        BY <4>1 DEF LoggedOK
      <4> QED
        BY <2>2, <4>2, <4>3
    <3>2. \A i \in 1..Len(logged) : logged[i] \in LogRecord
      BY ElementOfSeq DEF LogInv, LoggedOK
    <3> QED
      BY <2>2, <3>1, <3>2, LogAssumption DEF LogRecord, Torn
  <2>5. old = files[ofile]
    OBVIOUS
  <2> HIDE DEF old
  <2>6. kpt \in Seq(FileRecord) /\ Len(kpt) = k /\ k \in Nat /\ \A l \in 1..k : kpt[l] = old[l] /\ l \in 1..Len(old)
    BY <2>4
  <2> HIDE DEF kpt
  <2>7. \A l \in 1..Len(kpt) : kpt[l].n # Torn
    BY <2>4, <2>6
  <2>8. CASE files' = WithFile(ofile, kpt) /\ UNCHANGED stub
    BY <1>2, <2>7, <2>8
  <2>9. CASE k < Len(old) /\ files' = WithFile(ofile, Append(kpt, [old[k + 1] EXCEPT !.n = Torn])) /\ UNCHANGED stub
    <3> DEFINE h == [old[k + 1] EXCEPT !.n = Torn]
               new == Append(kpt, h)
    <3>1. Len(new) = k + 1 /\ \A l \in 1..k : new[l] = kpt[l]
      BY <2>6
    <3>2. files' = WithFile(ofile, new)
      BY <2>9
    <3> HIDE DEF new
    <3>3. \A l \in 1..Len(new) : new[l].n = Torn => l = Len(new)
      BY <2>6, <2>7, <3>1
    <3> QED
      BY <1>2, <2>9, <3>2, <3>3
  <2>10. CASE /\ k < Len(old)
              /\ files' = WithFile(ofile, kpt)
              /\ stub' = [s \in DOMAIN stub \union {ofile} |-> IF s = ofile THEN old[k + 1].t ELSE stub[s]]
    <3>1. old[k + 1].t \in Nat
      <4>1. k + 1 \in 1..Len(old)
        BY <2>4, <2>6, <2>10
      <4>2. old[k + 1] \in FileRecord
        BY <2>4, <4>1, ElementOfSeq
      <4> QED
        BY <4>2 DEF FileRecord
    <3>2. \A s \in DOMAIN stub' : stub'[s] \in Nat
      BY <2>10, <3>1 DEF CutsOK
    <3>3. \A s \in DOMAIN files' : files'[s] = kpt \/ (s \in DOMAIN files /\ files'[s] = files[s])
      BY <2>10 DEF WithFile
    <3> QED
      BY <2>7, <3>2, <3>3 DEF CutsOK
  <2> QED
    BY <2>3, <2>8, <2>9, <2>10 DEF kpt
<1>6. CASE init \/ get_time_index \/ SearchOn \/ SearchEnds \/ read
  BY <1>1, <1>6 DEF init, get_time_index, SearchOn, SearchEnds, read, writerVars
<1>7. CASE TimePasses
  BY <1>1, <1>7 DEF TimePasses, writerVars
<1>8. CASE UNCHANGED logVars
  BY <1>1, <1>8 DEF logVars, writerVars
<1> QED
  BY <1>3, <1>4, <1>5, <1>6, <1>7, <1>8 DEF LogNext

LEMMA SearchShrinks ==
  LogInv /\ [LogNext]_logVars =>
    [opening = "search" /\ opening' = "search" =>
       2 * (search'.imax - search'.imin) <= search.imax - search.imin]_logVars
<1> SUFFICES ASSUME LogInv, LogNext, opening = "search", opening' = "search"
             PROVE  2 * (search'.imax - search'.imin) <= search.imax - search.imin
  OBVIOUS
<1>1. replaying
  BY DEF LogInv
<1>2. SearchOn
  BY <1>1 DEF LogNext, write, destroy, LogCrash, init, get_time_index, SearchEnds, OpenFirst, read, TimePasses
<1> QED
  BY <1>2, SearchOnHalves

(* What is written comes back: whatever the sizes, the restarts and the       *)
(* crashes, the files hold what was logged and at most one cut record each; a *)
(* replay gives the records of its first file and of all later ones in order, *)
(* a cut one in its place, and misses none from the time it was started for   *)
(* but the log's last if a part of a time lies behind it; and each turn of the*)
(* search for that file halves what is left of it.                            *)
THEOREM LogComesBack == LogSpec => LogIsReplayed
<1>1. LogInit => LogInv /\ CutsOK
  <2>1. LogInit => CutsOK
    BY DEF LogInit, CutsOK
  <2> QED
    BY <2>1, LogStarts
<1>2. LogInv /\ CutsOK /\ [LogNext]_logVars => LogInv' /\ CutsOK'
  BY LogKept, CutsKept
<1>3. LogInv /\ CutsOK => NothingLost /\ ReplayIsTheLog /\ NoneBeforeStart
  BY LogSound
<1>4. LogInv /\ [LogNext]_logVars =>
        [opening = "search" /\ opening' = "search" =>
           2 * (search'.imax - search'.imin) <= search.imax - search.imin]_logVars
  BY SearchShrinks
<1> QED
  BY <1>1, <1>2, <1>3, <1>4, PTL DEF LogSpec, LogIsReplayed, SearchHalves
=============================================================================
