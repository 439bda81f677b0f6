--------------------------- MODULE DualDynamicArray ---------------------------
(***************************************************************************)
(* DualDynamicArray<T, N>: two parallel arrays that grow by doubling and   *)
(* shrink by halving.  JudoServer keeps its sockets in one: pollfd in the  *)
(* first array (handed to poll), ssl_node* in the second, compared by file *)
(* descriptor.  Capacity starts at MIN_DDA_SIZE (16); shrink tests against *)
(* the literal 16, here the same constant.                                 *)
(***************************************************************************)
EXTENDS Naturals, FiniteSets

CONSTANTS
    Keys, Values,       \* T (up to m_compare) and N
    NoValue,            \* contents of a slot that was never written
    MIN_DDA_SIZE

ASSUME ArrayAssumption ==
    /\ MIN_DDA_SIZE \in Nat \ {0}
    /\ NoValue \notin Keys /\ NoValue \notin Values

VARIABLES
    m_size, m_cap,
    m_first_array, m_second_array

arrays == <<m_first_array, m_second_array>>
vars == <<m_size, m_cap, arrays>>

Slots(cap) == 0 .. cap - 1
Fresh(cap) == [i \in Slots(cap) |-> NoValue]

Init ==
    /\ m_size = 0
    /\ m_cap = MIN_DDA_SIZE
    /\ m_first_array = Fresh(MIN_DDA_SIZE)
    /\ m_second_array = Fresh(MIN_DDA_SIZE)

(* An array after the storage was sized for cap with n slots in use: if the *)
(* capacity changes, the n slots are copied to new storage.                 *)
ResizedNot(array, n, cap) == array      \* mutant: m_cap changes, the storage does not
Resized(array, n, cap) ==
    IF cap = m_cap THEN array
    ELSE [i \in Slots(cap) |-> IF i < n THEN array[i] ELSE NoValue]

(* grow, called before the new pair is written. *)
GrownCapLate == IF m_size > m_cap THEN 2 * m_cap ELSE m_cap     \* mutant: off by one
GrownCap == IF m_size + 1 > m_cap THEN 2 * m_cap ELSE m_cap

add(k, v) ==
    /\ m_cap' = GrownCap
    /\ m_first_array' = [Resized(m_first_array, m_size, GrownCap) EXCEPT ![m_size] = k]
    /\ m_second_array' = [Resized(m_second_array, m_size, GrownCap) EXCEPT ![m_size] = v]
    /\ m_size' = m_size + 1

(* find: the first index that compares equal. *)
Matches(k) == {i \in 0 .. m_size - 1 : m_first_array[i] = k}
find(k) == CHOOSE i \in Matches(k) : \A j \in Matches(k) : i <= j

(* shrink, called after m_size was decremented to n. *)
ShrunkCapNever(n) == m_cap      \* mutant: never gives storage back
ShrunkCap(n) ==
    IF n = m_cap \div 2 /\ n > MIN_DDA_SIZE THEN m_cap \div 2 ELSE m_cap

(* The last element takes the place of the removed one. *)
NotSwapped(array, k) == array   \* mutant: the last element is dropped instead
Swapped(array, k) == [array EXCEPT ![find(k)] = array[m_size - 1]]

remove(k) ==
    IF Matches(k) = {}
    THEN UNCHANGED vars
    ELSE LET n == m_size - 1
         IN  /\ m_size' = n
             /\ m_cap' = ShrunkCap(n)
             /\ m_first_array' = Resized(Swapped(m_first_array, k), n, ShrunkCap(n))
             /\ m_second_array' = Resized(Swapped(m_second_array, k), n, ShrunkCap(n))

getFromFirstByIndex(i) == m_first_array[i]
getFromSecondByIndex(i) == m_second_array[i]

(* The destructor gives the storage back and leaves the counters. *)
delete ==
    /\ m_first_array' = Fresh(0) /\ m_second_array' = Fresh(0)
    /\ UNCHANGED <<m_size, m_cap>>

-----------------------------------------------------------------------------
KeysHeld == {m_first_array[i] : i \in 0 .. m_size - 1}

(* The server adds each open socket once, and open sockets have different  *)
(* descriptors; it may remove one that is not there.                       *)
Next ==
    \/ \E k \in Keys \ KeysHeld, v \in Values : add(k, v)
    \/ \E k \in Keys : remove(k)

Spec == Init /\ [][Next]_vars

-----------------------------------------------------------------------------
(* The arrays are exactly m_cap long and hold keys and values where they   *)
(* have been written; no index of add or remove misses the storage.        *)
TypeOK ==
    /\ m_size \in Nat /\ m_cap \in Nat \ {0}
    /\ m_first_array \in [Slots(m_cap) -> Keys \cup {NoValue}]
    /\ m_second_array \in [Slots(m_cap) -> Values \cup {NoValue}]

(* Every index below m_size is inside the storage, whatever mix of adds    *)
(* and removes made it grow and shrink, and holds a pair that was added.   *)
InBounds ==
    /\ m_size <= m_cap
    /\ \A i \in 0 .. m_size - 1 :
        m_first_array[i] # NoValue /\ m_second_array[i] # NoValue

(* Storage follows the contents both ways: from four times the smallest    *)
(* capacity on, more than half of the slots are in use.                    *)
NoWaste == m_cap >= 4 * MIN_DDA_SIZE => 2 * m_size > m_cap

Pairs == {<<m_first_array[i], m_second_array[i]>> : i \in 0 .. m_size - 1}

Abstract == INSTANCE PairTable WITH pairs <- Pairs

(* The two arrays stay parallel: through every copy, swap and resize a key *)
(* keeps the value it was added with, add brings exactly its pair, remove  *)
(* takes away exactly the pair of its key, and no other is lost or doubled.*)
ImplementsPairTable ==
    /\ Abstract!Spec
    /\ [][/\ \A k \in Keys \ KeysHeld, v \in Values : add(k, v) => Abstract!Add(k, v)
          /\ \A k \in Keys : remove(k) => Abstract!Remove(k)]_vars
=============================================================================
