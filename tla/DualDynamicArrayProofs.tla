------------------------ MODULE DualDynamicArrayProofs ------------------------
(***************************************************************************)
(* Proofs about DualDynamicArray, for any keys, values and minimum         *)
(* capacity, and any number of pairs.                                      *)
(***************************************************************************)
EXTENDS DualDynamicArray, TLAPS

(* No key is stored twice.  Without this remove would leave a pair of its  *)
(* key behind, and find would not be determined.                           *)
KeysDistinct ==
    \A i, j \in 0 .. m_size - 1 : m_first_array[i] = m_first_array[j] => i = j

IInv == TypeOK /\ InBounds /\ NoWaste /\ KeysDistinct

-----------------------------------------------------------------------------
(* Resizing to cap keeps the n slots in use, in either of the two arrays. *)
LEMMA ResizedKeeps ==
    ASSUME m_cap \in Nat, NEW array, NEW n \in Nat, NEW cap \in Nat,
           n <= m_cap, n <= cap
    PROVE  /\ \A i \in 0 .. n - 1 : Resized(array, n, cap)[i] = array[i]
           /\ array \in [Slots(m_cap) -> Keys \cup {NoValue}]
                => Resized(array, n, cap) \in [Slots(cap) -> Keys \cup {NoValue}]
           /\ array \in [Slots(m_cap) -> Values \cup {NoValue}]
                => Resized(array, n, cap) \in [Slots(cap) -> Values \cup {NoValue}]
<1>1. CASE cap = m_cap
    BY <1>1 DEF Resized
<1>2. CASE cap # m_cap
  <2>1. \A i \in 0 .. n - 1 : i \in Slots(cap) /\ i < n
    BY DEF Slots
  <2>2. \A i \in Slots(cap) : i < n => i \in Slots(m_cap)
    BY DEF Slots
  <2>3. Resized(array, n, cap) = [i \in Slots(cap) |-> IF i < n THEN array[i] ELSE NoValue]
    BY <1>2 DEF Resized
  <2> QED
    BY <2>1, <2>2, <2>3
<1> QED
    BY <1>1, <1>2

(* grow makes room for one more pair. *)
LEMMA GrownRoom ==
    ASSUME m_size \in Nat, m_cap \in Nat \ {0}, m_size <= m_cap
    PROVE  /\ GrownCap \in Nat \ {0}
           /\ m_size + 1 <= GrownCap
           /\ GrownCap # m_cap => GrownCap = 2 * m_cap /\ m_size = m_cap
BY DEF GrownCap

(* shrink leaves room for the n pairs that are left. *)
LEMMA ShrunkRoom ==
    ASSUME NEW n \in Nat, m_cap \in Nat \ {0}, n <= m_cap
    PROVE  /\ ShrunkCap(n) \in Nat \ {0}
           /\ n <= ShrunkCap(n)
           /\ ShrunkCap(n) # m_cap => ShrunkCap(n) = n /\ n = m_cap \div 2
<1>1. MIN_DDA_SIZE \in Nat \ {0}
    BY ArrayAssumption DEF ArrayAssumption
<1> QED
    BY <1>1 DEF ShrunkCap

(* find returns the one index that holds k. *)
LEMMA FindIndex ==
    ASSUME KeysDistinct, NEW k, Matches(k) # {}
    PROVE  /\ find(k) \in 0 .. m_size - 1
           /\ m_first_array[find(k)] = k
           /\ m_size \in Nat => \A i \in 0 .. m_size - 1 : i # find(k) => m_first_array[i] # k
<1>1. PICK i \in 0 .. m_size - 1 : m_first_array[i] = k
    BY DEF Matches
<1>2. \A j \in Matches(k) : j = i
    BY <1>1 DEF Matches, KeysDistinct
<1>3. i \in Matches(k) /\ \A j \in Matches(k) : i <= j
    BY <1>1, <1>2 DEF Matches
<1>4. find(k) \in Matches(k)
    BY <1>3 DEF find
<1>5. find(k) = i
    BY <1>2, <1>4
<1> QED
    BY <1>1, <1>2, <1>5 DEF Matches

-----------------------------------------------------------------------------
(* What add leaves: the old slots, and the new pair behind them. *)
LEMMA AddEffect ==
    ASSUME TypeOK, InBounds, NEW k \in Keys, NEW v \in Values, add(k, v)
    PROVE  /\ m_size' = m_size + 1 /\ m_cap' = GrownCap
           /\ m_first_array' \in [Slots(m_cap') -> Keys \cup {NoValue}]
           /\ m_second_array' \in [Slots(m_cap') -> Values \cup {NoValue}]
           /\ m_first_array'[m_size] = k /\ m_second_array'[m_size] = v
           /\ \A i \in 0 .. m_size - 1 :
                /\ m_first_array'[i] = m_first_array[i]
                /\ m_second_array'[i] = m_second_array[i]
<1> DEFINE first == Resized(m_first_array, m_size, GrownCap)
           second == Resized(m_second_array, m_size, GrownCap)
<1>1. /\ m_size \in Nat /\ m_cap \in Nat \ {0} /\ m_size <= m_cap
      /\ m_first_array \in [Slots(m_cap) -> Keys \cup {NoValue}]
      /\ m_second_array \in [Slots(m_cap) -> Values \cup {NoValue}]
    BY DEF TypeOK, InBounds
<1>2. GrownCap \in Nat \ {0} /\ m_size + 1 <= GrownCap
    BY <1>1, GrownRoom
<1>3. m_size <= GrownCap /\ m_size \in Slots(GrownCap) /\ m_size \notin 0 .. m_size - 1
    BY <1>1, <1>2 DEF Slots
<1>4. /\ first \in [Slots(GrownCap) -> Keys \cup {NoValue}]
      /\ \A i \in 0 .. m_size - 1 : first[i] = m_first_array[i]
    BY <1>1, <1>2, <1>3, ResizedKeeps
<1>5. /\ second \in [Slots(GrownCap) -> Values \cup {NoValue}]
      /\ \A i \in 0 .. m_size - 1 : second[i] = m_second_array[i]
    BY <1>1, <1>2, <1>3, ResizedKeeps
<1>6. /\ m_size' = m_size + 1 /\ m_cap' = GrownCap
      /\ m_first_array' = [first EXCEPT ![m_size] = k]
      /\ m_second_array' = [second EXCEPT ![m_size] = v]
    BY DEF add
<1> HIDE DEF first, second
<1>7. \A i \in 0 .. m_size - 1 : i \in Slots(GrownCap) /\ i # m_size
    BY <1>1, <1>2, <1>3 DEF Slots
<1> QED
    BY <1>3, <1>4, <1>5, <1>6, <1>7

(* What remove leaves: one pair less, the last one in the place of the     *)
(* removed one.                                                            *)
LEMMA RemoveEffect ==
    ASSUME TypeOK, InBounds, KeysDistinct, NEW k \in Keys, remove(k), Matches(k) # {}
    PROVE  /\ m_size - 1 \in Nat /\ m_size' = m_size - 1 /\ m_cap' = ShrunkCap(m_size - 1)
           /\ m_first_array' \in [Slots(m_cap') -> Keys \cup {NoValue}]
           /\ m_second_array' \in [Slots(m_cap') -> Values \cup {NoValue}]
           /\ \A i \in 0 .. m_size' - 1 :
                LET j == IF i = find(k) THEN m_size - 1 ELSE i
                IN  /\ m_first_array'[i] = m_first_array[j]
                    /\ m_second_array'[i] = m_second_array[j]
<1> DEFINE n == m_size - 1
           first == Swapped(m_first_array, k)
           second == Swapped(m_second_array, k)
<1>1. /\ m_size \in Nat /\ m_cap \in Nat \ {0} /\ m_size <= m_cap
      /\ m_first_array \in [Slots(m_cap) -> Keys \cup {NoValue}]
      /\ m_second_array \in [Slots(m_cap) -> Values \cup {NoValue}]
    BY DEF TypeOK, InBounds
<1>2. find(k) \in 0 .. m_size - 1
    BY FindIndex
<1>3. n \in Nat /\ n <= m_cap /\ n \in Slots(m_cap) /\ find(k) \in Slots(m_cap)
    BY <1>1, <1>2 DEF Slots
<1>4. ShrunkCap(n) \in Nat /\ n <= ShrunkCap(n)
    BY <1>1, <1>3, ShrunkRoom
<1>5. /\ m_size' = n /\ m_cap' = ShrunkCap(n)
      /\ m_first_array' = Resized(first, n, ShrunkCap(n))
      /\ m_second_array' = Resized(second, n, ShrunkCap(n))
    BY DEF remove
<1>6. /\ first = [m_first_array EXCEPT ![find(k)] = m_first_array[n]]
      /\ second = [m_second_array EXCEPT ![find(k)] = m_second_array[n]]
    BY DEF Swapped
<1> HIDE DEF n, first, second
<1>7. /\ first \in [Slots(m_cap) -> Keys \cup {NoValue}]
      /\ second \in [Slots(m_cap) -> Values \cup {NoValue}]
    BY <1>1, <1>3, <1>6
<1>8. /\ Resized(first, n, ShrunkCap(n)) \in [Slots(ShrunkCap(n)) -> Keys \cup {NoValue}]
      /\ \A i \in 0 .. n - 1 : Resized(first, n, ShrunkCap(n))[i] = first[i]
    BY <1>1, <1>3, <1>4, <1>7, ResizedKeeps
<1>9. /\ Resized(second, n, ShrunkCap(n)) \in [Slots(ShrunkCap(n)) -> Values \cup {NoValue}]
      /\ \A i \in 0 .. n - 1 : Resized(second, n, ShrunkCap(n))[i] = second[i]
    BY <1>1, <1>3, <1>4, <1>7, ResizedKeeps
<1>10. \A i \in 0 .. n - 1 : i \in Slots(m_cap)
    BY <1>1, <1>3 DEF Slots
<1>11. \A i \in 0 .. n - 1 :
        /\ first[i] = IF i = find(k) THEN m_first_array[n] ELSE m_first_array[i]
        /\ second[i] = IF i = find(k) THEN m_second_array[n] ELSE m_second_array[i]
    BY <1>1, <1>6, <1>10
<1> QED
    BY <1>3, <1>5, <1>8, <1>9, <1>11 DEF n

-----------------------------------------------------------------------------
(* add of a key that is not there keeps the inductive invariant. *)
LEMMA AddNext ==
    ASSUME IInv, NEW k \in Keys \ KeysHeld, NEW v \in Values, add(k, v)
    PROVE  IInv'
<1>1. TypeOK /\ InBounds /\ NoWaste /\ KeysDistinct
    BY DEF IInv
<1>2. /\ m_size \in Nat /\ m_cap \in Nat \ {0} /\ m_size <= m_cap
      /\ MIN_DDA_SIZE \in Nat \ {0} /\ k # NoValue /\ v # NoValue
    BY <1>1, ArrayAssumption DEF ArrayAssumption, TypeOK, InBounds
<1>3. /\ m_size' = m_size + 1 /\ m_cap' = GrownCap
      /\ m_first_array' \in [Slots(m_cap') -> Keys \cup {NoValue}]
      /\ m_second_array' \in [Slots(m_cap') -> Values \cup {NoValue}]
      /\ m_first_array'[m_size] = k /\ m_second_array'[m_size] = v
      /\ \A i \in 0 .. m_size - 1 :
            /\ m_first_array'[i] = m_first_array[i]
            /\ m_second_array'[i] = m_second_array[i]
    BY <1>1, AddEffect
<1>4. /\ GrownCap \in Nat \ {0} /\ m_size + 1 <= GrownCap
      /\ GrownCap # m_cap => GrownCap = 2 * m_cap /\ m_size = m_cap
    BY <1>2, GrownRoom
<1>5. \A i \in 0 .. m_size' - 1 : i = m_size \/ i \in 0 .. m_size - 1
    BY <1>2, <1>3
<1>6. TypeOK'
    BY <1>2, <1>3, <1>4 DEF TypeOK
<1>7. InBounds'
  <2>1. m_size' <= m_cap'
    BY <1>3, <1>4
  <2>2. \A i \in 0 .. m_size' - 1 : m_first_array'[i] # NoValue /\ m_second_array'[i] # NoValue
    BY <1>1, <1>2, <1>3, <1>5 DEF InBounds
  <2> QED
    BY <2>1, <2>2 DEF InBounds
<1>8. NoWaste'
    BY <1>1, <1>2, <1>3, <1>4 DEF NoWaste
<1>9. KeysDistinct'
  <2>1. \A i \in 0 .. m_size - 1 : m_first_array[i] # k
    BY DEF KeysHeld
  <2> QED
    BY <1>1, <1>3, <1>5, <2>1 DEF KeysDistinct
<1> QED
    BY <1>6, <1>7, <1>8, <1>9 DEF IInv

(* remove of a key that is there keeps it as well. *)
LEMMA RemoveNext ==
    ASSUME IInv, NEW k \in Keys, remove(k), Matches(k) # {}
    PROVE  IInv'
<1> DEFINE n == m_size - 1
           From(i) == IF i = find(k) THEN n ELSE i
<1>1. TypeOK /\ InBounds /\ NoWaste /\ KeysDistinct
    BY DEF IInv
<1>2. /\ m_size \in Nat /\ m_cap \in Nat \ {0} /\ m_size <= m_cap /\ MIN_DDA_SIZE \in Nat \ {0}
    BY <1>1, ArrayAssumption DEF ArrayAssumption, TypeOK, InBounds
<1>3. /\ n \in Nat /\ m_size' = n /\ m_cap' = ShrunkCap(n)
      /\ m_first_array' \in [Slots(m_cap') -> Keys \cup {NoValue}]
      /\ m_second_array' \in [Slots(m_cap') -> Values \cup {NoValue}]
      /\ \A i \in 0 .. n - 1 : /\ m_first_array'[i] = m_first_array[From(i)]
                               /\ m_second_array'[i] = m_second_array[From(i)]
    BY <1>1, RemoveEffect
<1>4. /\ ShrunkCap(n) \in Nat \ {0} /\ n <= ShrunkCap(n)
      /\ ShrunkCap(n) # m_cap => ShrunkCap(n) = n /\ n = m_cap \div 2
    BY <1>2, <1>3, ShrunkRoom
<1>5. \A i \in 0 .. n - 1 : From(i) \in 0 .. m_size - 1
    BY <1>2, <1>3
<1>6. \A i, j \in 0 .. n - 1 : From(i) = From(j) => i = j
    BY <1>2, <1>3
<1> HIDE DEF From
<1>7. TypeOK'
    BY <1>3, <1>4 DEF TypeOK
<1>8. InBounds'
    BY <1>1, <1>3, <1>4, <1>5 DEF InBounds
<1>9. NoWaste'
  <2>1. m_cap >= 4 * MIN_DDA_SIZE => 2 * m_size > m_cap
    BY <1>1 DEF NoWaste
  <2>2. ShrunkCap(n) = IF n = m_cap \div 2 /\ n > MIN_DDA_SIZE THEN m_cap \div 2 ELSE m_cap
    BY DEF ShrunkCap
  <2>3. ShrunkCap(n) >= 4 * MIN_DDA_SIZE => 2 * n > ShrunkCap(n)
    BY <1>2, <1>3, <2>1, <2>2
  <2> QED
    BY <1>3, <2>3 DEF NoWaste
<1>10. KeysDistinct'
    BY <1>1, <1>3, <1>5, <1>6 DEF KeysDistinct
<1> QED
    BY <1>7, <1>8, <1>9, <1>10 DEF IInv

(* The inductive invariant holds of the new, empty array. *)
LEMMA IInvInit == Init => IInv
<1> SUFFICES ASSUME Init PROVE IInv
    OBVIOUS
<1>1. MIN_DDA_SIZE \in Nat \ {0}
    BY ArrayAssumption DEF ArrayAssumption
<1>2. TypeOK
    BY <1>1 DEF Init, TypeOK, Fresh
<1>3. InBounds /\ NoWaste /\ KeysDistinct
    BY <1>1 DEF Init, InBounds, NoWaste, KeysDistinct
<1> QED
    BY <1>2, <1>3 DEF IInv

(* Every step keeps it; remove of a key that is not there changes nothing. *)
LEMMA IInvNext == IInv /\ [Next]_vars => IInv'
<1> SUFFICES ASSUME IInv, [Next]_vars PROVE IInv'
    OBVIOUS
<1>1. ASSUME NEW k \in Keys \ KeysHeld, NEW v \in Values, add(k, v) PROVE IInv'
    BY <1>1, AddNext
<1>2. ASSUME NEW k \in Keys, remove(k), Matches(k) # {} PROVE IInv'
    BY <1>2, RemoveNext
<1>3. ASSUME UNCHANGED vars PROVE IInv'
    BY <1>3 DEF vars, arrays, IInv, TypeOK, InBounds, NoWaste, KeysDistinct
<1>4. ASSUME NEW k \in Keys, remove(k), Matches(k) = {} PROVE IInv'
    BY <1>3, <1>4 DEF remove
<1> QED
    BY <1>1, <1>2, <1>3, <1>4 DEF Next

(* The arrays have their capacity, m_size is inside it, storage follows    *)
(* the contents and no key is stored twice, after any calls.               *)
THEOREM Invariance == Spec => []IInv
BY IInvInit, IInvNext, PTL DEF Spec

(* The arrays are m_cap long and hold what was put there. *)
THEOREM TypeCorrect == Spec => []TypeOK
<1>1. IInv => TypeOK
    BY DEF IInv
<1> QED
    BY <1>1, Invariance, PTL

(* No call of add, find or remove uses an index outside of the storage, or *)
(* a slot that was never written.                                          *)
THEOREM Bounds == Spec => []InBounds
<1>1. IInv => InBounds
    BY DEF IInv
<1> QED
    BY <1>1, Invariance, PTL

(* From four times the smallest capacity on, more than half is in use. *)
THEOREM StorageFollows == Spec => []NoWaste
<1>1. IInv => NoWaste
    BY DEF IInv
<1> QED
    BY <1>1, Invariance, PTL

-----------------------------------------------------------------------------
(* add is PairTable's Add. *)
LEMMA AddRefines ==
    ASSUME IInv, NEW k \in Keys \ KeysHeld, NEW v \in Values, add(k, v)
    PROVE  Abstract!Add(k, v)
<1>1. TypeOK /\ InBounds
    BY DEF IInv
<1>2. m_size \in Nat
    BY <1>1 DEF TypeOK
<1>3. /\ m_size' = m_size + 1
      /\ m_first_array'[m_size] = k /\ m_second_array'[m_size] = v
      /\ \A i \in 0 .. m_size - 1 :
            /\ m_first_array'[i] = m_first_array[i]
            /\ m_second_array'[i] = m_second_array[i]
    BY <1>1, AddEffect
<1>4. 0 .. m_size' - 1 = (0 .. m_size - 1) \cup {m_size}
    BY <1>2, <1>3
<1>5. Pairs' = Pairs \cup {<<k, v>>}
  <2>1. Pairs' = {<<m_first_array'[i], m_second_array'[i]>> : i \in 0 .. m_size' - 1}
    BY DEF Pairs
  <2>2. ASSUME NEW p \in Pairs' PROVE p \in Pairs \cup {<<k, v>>}
    BY <1>3, <1>4, <2>1, <2>2 DEF Pairs
  <2>3. ASSUME NEW p \in Pairs PROVE p \in Pairs'
    BY <1>3, <1>4, <2>1, <2>3 DEF Pairs
  <2>4. <<k, v>> \in Pairs'
    BY <1>3, <1>4, <2>1
  <2> QED
    BY <2>2, <2>3, <2>4
<1>6. k \notin Abstract!KeysIn(Pairs)
    BY DEF KeysHeld, Pairs, Abstract!KeysIn
<1> QED
    BY <1>5, <1>6 DEF Abstract!Add

(* remove is PairTable's Remove. *)
LEMMA RemoveRefines ==
    ASSUME IInv, NEW k \in Keys, remove(k), Matches(k) # {}
    PROVE  Abstract!Remove(k)
<1> DEFINE n == m_size - 1
           f == find(k)
           From(i) == IF i = f THEN n ELSE i
<1>1. TypeOK /\ InBounds /\ KeysDistinct
    BY DEF IInv
<1>2. m_size \in Nat
    BY <1>1 DEF TypeOK
<1>3. /\ n \in Nat /\ m_size' = n
      /\ \A i \in 0 .. n - 1 : /\ m_first_array'[i] = m_first_array[From(i)]
                               /\ m_second_array'[i] = m_second_array[From(i)]
    BY <1>1, RemoveEffect
<1>4. /\ f \in 0 .. m_size - 1 /\ m_first_array[f] = k
      /\ \A i \in 0 .. m_size - 1 : i # f => m_first_array[i] # k
    BY <1>1, <1>2, FindIndex
<1> HIDE DEF f
<1>5. \A i \in 0 .. n - 1 : From(i) \in 0 .. m_size - 1 /\ From(i) # f
    BY <1>2, <1>3, <1>4
<1>6. \A j \in 0 .. m_size - 1 : j # f => \E i \in 0 .. n - 1 : From(i) = j
  <2> SUFFICES ASSUME NEW j \in 0 .. m_size - 1, j # f
               PROVE  \E i \in 0 .. n - 1 : From(i) = j
    OBVIOUS
  <2>1. CASE j = n
    <3>1. f \in 0 .. n - 1 /\ From(f) = j
      BY <1>2, <1>3, <1>4, <2>1
    <3> QED
      BY <3>1
  <2>2. CASE j # n
    <3>1. j \in 0 .. n - 1 /\ From(j) = j
      BY <1>2, <1>3, <2>2
    <3> QED
      BY <3>1
  <2> QED
    BY <2>1, <2>2
<1> HIDE DEF From
<1>7. Pairs' = {<<m_first_array'[i], m_second_array'[i]>> : i \in 0 .. n - 1}
    BY <1>3 DEF Pairs
<1>8. ASSUME NEW p \in Pairs' PROVE p \in Pairs /\ p[1] # k
  <2>1. PICK i \in 0 .. n - 1 : p = <<m_first_array'[i], m_second_array'[i]>>
    BY <1>7, <1>8
  <2>2. p = <<m_first_array[From(i)], m_second_array[From(i)]>>
    BY <1>3, <2>1
  <2> QED
    BY <1>4, <1>5, <2>2 DEF Pairs
<1>9. ASSUME NEW p \in Pairs, p[1] # k PROVE p \in Pairs'
  <2>1. PICK j \in 0 .. m_size - 1 : p = <<m_first_array[j], m_second_array[j]>>
    BY <1>9 DEF Pairs
  <2>2. j # f
    BY <1>4, <1>9, <2>1
  <2>3. PICK i \in 0 .. n - 1 : From(i) = j
    BY <1>6, <2>2
  <2> QED
    BY <1>3, <1>7, <2>1, <2>3
<1> QED
    BY <1>8, <1>9 DEF Abstract!Remove

(* remove of a key that is not there changes nothing, and so does Remove. *)
LEMMA MissRefines ==
    ASSUME NEW k \in Keys, remove(k), Matches(k) = {}
    PROVE  UNCHANGED Pairs /\ Abstract!Remove(k)
<1>1. UNCHANGED vars
    BY DEF remove
<1>2. UNCHANGED Pairs
    BY <1>1 DEF vars, arrays, Pairs
<1>3. \A p \in Pairs : p[1] # k
    BY DEF Pairs, Matches
<1> QED
    BY <1>2, <1>3 DEF Abstract!Remove

(* DualDynamicArray implements PairTable, each call as its namesake. *)
THEOREM Implementation == Spec => ImplementsPairTable
<1> DEFINE Calls ==
        /\ \A k \in Keys \ KeysHeld, v \in Values : add(k, v) => Abstract!Add(k, v)
        /\ \A k \in Keys : remove(k) => Abstract!Remove(k)
<1>1. Init => Abstract!Init
    BY DEF Init, Pairs, Abstract!Init
<1>2. IInv => Calls
    BY AddRefines, RemoveRefines, MissRefines
<1>3. IInv /\ [Next]_vars => [Abstract!Next]_Pairs
  <2> SUFFICES ASSUME IInv, [Next]_vars PROVE [Abstract!Next]_Pairs
    OBVIOUS
  <2>1. ASSUME NEW k \in Keys \ KeysHeld, NEW v \in Values, add(k, v)
        PROVE  Abstract!Next
    BY <2>1, AddRefines DEF Abstract!Next
  <2>2. ASSUME NEW k \in Keys, remove(k)
        PROVE  Abstract!Next
    BY <2>2, RemoveRefines, MissRefines DEF Abstract!Next
  <2>3. ASSUME UNCHANGED vars PROVE UNCHANGED Pairs
    BY <2>3 DEF vars, arrays, Pairs
  <2> QED
    BY <2>1, <2>2, <2>3 DEF Next
<1> HIDE DEF Calls
<1>4. IInv /\ [Next]_vars => [Calls]_vars
    BY <1>2
<1>5. Spec => Abstract!Spec
    BY <1>1, <1>3, Invariance, PTL DEF Spec, Abstract!Spec
<1>6. Spec => [][Calls]_vars
    BY <1>4, Invariance, PTL DEF Spec
<1> QED
    BY <1>5, <1>6 DEF ImplementsPairTable, Calls
=============================================================================
