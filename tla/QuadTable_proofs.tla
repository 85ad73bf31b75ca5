--------------------------- MODULE QuadTable_proofs ---------------------------
(***************************************************************************)
(* Proofs about the quad table, for every set of quads.                    *)
(***************************************************************************)
EXTENDS QuadTable, SequenceTheorems, TLAPS

(* Vectors of positions.                                                   *)

\* push onto an index vector adds one position to what it lists.
LEMMA PushLists ==
    ASSUME NEW v \in Seq(Nat), NEW S, Lists(v, S), NEW i \in Nat, i \notin S
    PROVE  /\ Append(v, i) \in Seq(Nat)
           /\ Lists(Append(v, i), S \cup {i})
           /\ Append(v, i) # << >>
<1> DEFINE w == Append(v, i)
<1>1. /\ w \in Seq(Nat)
      /\ Len(w) = Len(v) + 1
      /\ \A a \in 1..Len(v) : w[a] = v[a]
      /\ w[Len(v) + 1] = i
      /\ Len(v) \in Nat
    OBVIOUS
<1>2. \A a \in 1..Len(v) : v[a] \in S
    BY DEF Lists
<1>3. \A a, b \in 1..Len(w) : w[a] = w[b] => a = b
  <2> SUFFICES ASSUME NEW a \in 1..Len(w), NEW b \in 1..Len(w), w[a] = w[b]
               PROVE  a = b
      OBVIOUS
  <2>1. CASE a \in 1..Len(v) /\ b \in 1..Len(v)
      BY <2>1, <1>1 DEF Lists
  <2>2. CASE a \notin 1..Len(v) \/ b \notin 1..Len(v)
      BY <2>2, <1>1, <1>2
  <2> QED
      BY <2>1, <2>2
<1>4. {w[a] : a \in 1..Len(w)} = S \cup {i}
    BY <1>1 DEF Lists
<1> QED
    BY <1>1, <1>3, <1>4 DEF Lists

\* A one-entry vector lists that entry.
LEMMA SingletonLists ==
    ASSUME NEW i \in Nat
    PROVE  <<i>> \in Seq(Nat) /\ Lists(<<i>>, {i}) /\ <<i>> # << >>
BY DEF Lists

\* swap_remove drops one position from what a vector lists and keeps the rest,
\* whichever entry takes the vacated slot.
LEMMA SwapRemoveLists ==
    ASSUME NEW v \in Seq(Nat), NEW S, Lists(v, S), NEW i \in S
    PROVE  /\ SwapRemove(v, i) \in Seq(Nat)
           /\ Lists(SwapRemove(v, i), S \ {i})
           /\ SwapRemove(v, i) = << >> <=> S \ {i} = {}
<1> DEFINE n == Len(v)
           At == {k \in 1..n : v[k] = i}
           pos == CHOOSE k \in At : \A j \in At : k <= j
           w == SwapRemove(v, i)
<1>1. n \in Nat /\ \A a \in 1..n : v[a] \in Nat
    OBVIOUS
<1>2. PICK p \in 1..n : v[p] = i
    BY DEF Lists
<1>3. At = {p}
    BY <1>2 DEF Lists
<1>4. pos = p
    BY <1>1, <1>3
<1>5. w = [k \in 1..(n - 1) |-> IF k = p THEN v[n] ELSE v[k]]
    BY <1>3, <1>4 DEF SwapRemove
<1>6. n \in 1..n
    BY <1>1, <1>2
<1>7. w \in Seq(Nat) /\ Len(w) = n - 1
    BY <1>1, <1>5, <1>6
<1>8. \A a \in 1..(n - 1) : w[a] = IF a = p THEN v[n] ELSE v[a]
    BY <1>5
<1>9. \A a, b \in 1..(n - 1) : w[a] = w[b] => a = b
  <2> SUFFICES ASSUME NEW a \in 1..(n - 1), NEW b \in 1..(n - 1), w[a] = w[b]
               PROVE  a = b
      OBVIOUS
  <2>1. a \in 1..n /\ b \in 1..n /\ a # n /\ b # n
      BY <1>1
  <2> QED
      BY <2>1, <1>6, <1>8 DEF Lists
<1>10. {w[a] : a \in 1..(n - 1)} = S \ {i}
  <2>1. ASSUME NEW a \in 1..(n - 1)
        PROVE  w[a] \in S \ {i}
    <3>1. a \in 1..n /\ a # n
        BY <1>1
    <3> QED
        BY <3>1, <1>2, <1>6, <1>8 DEF Lists
  <2>2. ASSUME NEW x \in S \ {i}
        PROVE  \E a \in 1..(n - 1) : w[a] = x
    <3>1. PICK b \in 1..n : v[b] = x
        BY DEF Lists
    <3>2. b # p
        BY <3>1, <1>2
    <3>3. CASE b = n
      <4>1. p \in 1..(n - 1)
          BY <3>2, <3>3, <1>1
      <4> QED
          BY <4>1, <3>1, <3>3, <1>8
    <3>4. CASE b # n
      <4>1. b \in 1..(n - 1)
          BY <3>4, <1>1
      <4> QED
          BY <4>1, <3>1, <3>2, <1>8
    <3> QED
        BY <3>3, <3>4
  <2> QED
      BY <2>1, <2>2
<1>11. w = << >> <=> S \ {i} = {}
  <2>1. w = << >> <=> n = 1
      BY SMTT(30), <1>1, <1>6, <1>7
  <2>2. n = 1 => S \ {i} = {}
      BY <1>10
  <2>3. n # 1 => S \ {i} # {}
    <3> SUFFICES ASSUME n # 1
                 PROVE  S \ {i} # {}
        OBVIOUS
    <3>0. n \in Nat /\ n >= 1
        BY <1>1, <1>6
    <3>1. 1 \in 1..(n - 1)
      <4> HIDE DEF n
      <4> QED
          BY <3>0
    <3> QED
        BY <3>1, <1>10
  <2> QED
      BY <2>1, <2>2, <2>3
<1> QED
    BY <1>7, <1>9, <1>10, <1>11 DEF Lists

\* Relocation replaces one position by another in what a vector lists.
LEMMA RewriteLists ==
    ASSUME NEW v \in Seq(Nat), NEW S, Lists(v, S), NEW old \in S,
           NEW new_ \in Nat, new_ \notin S
    PROVE  /\ Rewrite(v, old, new_) \in Seq(Nat)
           /\ Lists(Rewrite(v, old, new_), (S \ {old}) \cup {new_})
<1> DEFINE n == Len(v)
           At == {k \in 1..n : v[k] = old}
           pos == CHOOSE k \in At : \A j \in At : k <= j
           w == Rewrite(v, old, new_)
<1>1. n \in Nat /\ \A a \in 1..n : v[a] \in Nat
    OBVIOUS
<1>2. PICK p \in 1..n : v[p] = old
    BY DEF Lists
<1>3. At = {p}
    BY <1>2 DEF Lists
<1>4. pos = p
    BY <1>1, <1>3
<1>5. w = [v EXCEPT ![p] = new_]
    BY <1>3, <1>4 DEF Rewrite
<1>6. /\ w \in Seq(Nat)
      /\ Len(w) = n
      /\ \A a \in 1..n : w[a] = IF a = p THEN new_ ELSE v[a]
    BY <1>1, <1>5
<1>7. \A a \in 1..n : v[a] \in S
    BY DEF Lists
<1>8. \A a, b \in 1..n : w[a] = w[b] => a = b
    BY SMTT(30), <1>6, <1>7 DEF Lists
<1>9. {w[a] : a \in 1..n} = (S \ {old}) \cup {new_}
  <2>1. ASSUME NEW a \in 1..n
        PROVE  w[a] \in (S \ {old}) \cup {new_}
      BY <1>2, <1>6 DEF Lists
  <2>2. ASSUME NEW x \in S \ {old}
        PROVE  \E a \in 1..n : w[a] = x
      BY <1>2, <1>6 DEF Lists
  <2>3. w[p] = new_
      BY <1>6
  <2> QED
      BY <2>1, <2>2, <2>3
<1> QED
    BY <1>6, <1>8, <1>9 DEF Lists

------------------------------------------------------------------------------
(* One secondary index.                                                    *)

\* Index n, held in m, files exactly the positions D of the vector ql.
Filed(m, n, ql, D) ==
    /\ DOMAIN m = {Key(n, ql[j]) : j \in D}
    /\ \A k \in DOMAIN m : /\ m[k] \in Seq(Nat)
                           /\ Lists(m[k], {j \in D : Key(n, ql[j]) = k})

\* add_*_index: one more position is filed.
LEMMA PushFiled ==
    ASSUME NEW m, NEW n, NEW ql, NEW ql2, NEW D, Filed(m, n, ql, D),
           NEW i \in Nat, i \notin D, \A j \in D : ql2[j] = ql[j]
    PROVE  Filed(PushEntry(m, Key(n, ql2[i]), i), n, ql2, D \cup {i})
<1> DEFINE key == Key(n, ql2[i])
           m2 == PushEntry(m, key, i)
           P(k) == {j \in D : Key(n, ql[j]) = k}
           P2(k) == {j \in D \cup {i} : Key(n, ql2[j]) = k}
<1>1. DOMAIN m2 = DOMAIN m \cup {key}
    BY DEF PushEntry, Put
<1>2. DOMAIN m2 = {Key(n, ql2[j]) : j \in D \cup {i}}
    BY <1>1 DEF Filed
<1>3. ASSUME NEW k \in DOMAIN m2
      PROVE  m2[k] \in Seq(Nat) /\ Lists(m2[k], P2(k))
  <2>1. CASE k # key
    <3>1. k \in DOMAIN m /\ m2[k] = m[k]
        BY <2>1, <1>1 DEF PushEntry, Put
    <3>2. P2(k) = P(k)
        BY <2>1
    <3> QED
        BY <3>1, <3>2 DEF Filed
  <2>2. CASE k = key /\ key \in DOMAIN m
    <3>1. m2[k] = Append(m[k], i)
        BY <2>2 DEF PushEntry, Put
    <3>2. P2(k) = P(k) \cup {i}
        BY <2>2
    <3>3. m[k] \in Seq(Nat) /\ Lists(m[k], P(k)) /\ i \notin P(k)
        BY <2>2 DEF Filed
    <3>4. m2[k] \in Seq(Nat) /\ Lists(m2[k], P(k) \cup {i})
      <4> HIDE DEF P
      <4> QED
          BY <3>1, <3>3, PushLists
    <3> QED
        BY <3>2, <3>4
  <2>3. CASE k = key /\ key \notin DOMAIN m
    <3>1. m2[k] = <<i>>
        BY <2>3 DEF PushEntry, Put
    <3>2. P2(k) = {i}
        BY <2>3 DEF Filed
    <3> QED
        BY <3>1, <3>2, SingletonLists
  <2> QED
      BY <2>1, <2>2, <2>3
<1> QED
    BY <1>2, <1>3 DEF Filed

\* remove_*_index_entry: one position is no longer filed, and a key that filed
\* nothing else is pruned.
LEMMA RemoveFiled ==
    ASSUME NEW m, NEW n, NEW ql, NEW D, Filed(m, n, ql, D), NEW i \in D
    PROVE  Filed(RemoveEntry(m, Key(n, ql[i]), i), n, ql, D \ {i})
<1> DEFINE key == Key(n, ql[i])
           m2 == RemoveEntry(m, key, i)
           P(k) == {j \in D : Key(n, ql[j]) = k}
           P2(k) == {j \in D \ {i} : Key(n, ql[j]) = k}
           v == SwapRemove(m[key], i)
<1>1. key \in DOMAIN m /\ m[key] \in Seq(Nat) /\ Lists(m[key], P(key)) /\ i \in P(key)
    BY DEF Filed
<1>2. P2(key) = P(key) \ {i}
    OBVIOUS
<1>3. v \in Seq(Nat) /\ Lists(v, P2(key)) /\ (v = << >> <=> P2(key) = {})
  <2> HIDE DEF P, P2, key
  <2>1. /\ v \in Seq(Nat)
        /\ Lists(v, P(key) \ {i})
        /\ v = << >> <=> P(key) \ {i} = {}
      BY <1>1, SwapRemoveLists
  <2> QED
      BY <1>2, <2>1
<1>4. m2 = IF v = << >> THEN Without(m, key) ELSE Put(m, key, v)
    BY <1>1 DEF RemoveEntry
<1>5. \A k \in DOMAIN m : k # key => P2(k) = P(k)
    OBVIOUS
<1>6. CASE v = << >>
  <2>1. DOMAIN m2 = DOMAIN m \ {key} /\ \A k \in DOMAIN m2 : m2[k] = m[k]
      BY <1>4, <1>6 DEF Without
  <2>2. P2(key) = {}
      BY <1>3, <1>6
  <2>3. DOMAIN m2 = {Key(n, ql[j]) : j \in D \ {i}}
      BY <2>1, <2>2 DEF Filed
  <2>4. \A k \in DOMAIN m2 : m2[k] \in Seq(Nat) /\ Lists(m2[k], P2(k))
      BY <2>1, <1>5 DEF Filed
  <2> QED
      BY <2>3, <2>4 DEF Filed
<1>7. CASE v # << >>
  <2>1. /\ DOMAIN m2 = DOMAIN m
        /\ m2[key] = v
        /\ \A k \in DOMAIN m2 : k # key => m2[k] = m[k]
      BY <1>1, <1>4, <1>7 DEF Put
  <2>2. P2(key) # {}
      BY <1>3, <1>7
  <2>3. DOMAIN m2 = {Key(n, ql[j]) : j \in D \ {i}}
      BY <2>1, <2>2 DEF Filed
  <2>4. \A k \in DOMAIN m2 : m2[k] \in Seq(Nat) /\ Lists(m2[k], P2(k))
      BY <2>1, <1>3, <1>5 DEF Filed
  <2> QED
      BY <2>3, <2>4 DEF Filed
<1> QED
    BY <1>6, <1>7

\* relocate_*_index_entry: the quad that was at old is filed at to instead.
LEMMA RelocateFiled ==
    ASSUME NEW m, NEW n, NEW ql, NEW ql2, NEW D, Filed(m, n, ql, D),
           NEW old \in D, NEW to \in Nat, to \notin D,
           \A j \in D \ {old} : ql2[j] = ql[j], ql2[to] = ql[old]
    PROVE  Filed(RelocateEntry(m, Key(n, ql[old]), old, to), n, ql2, (D \ {old}) \cup {to})
<1> DEFINE key == Key(n, ql[old])
           m2 == RelocateEntry(m, key, old, to)
           D2 == (D \ {old}) \cup {to}
           P(k) == {j \in D : Key(n, ql[j]) = k}
           P2(k) == {j \in D2 : Key(n, ql2[j]) = k}
           v == Rewrite(m[key], old, to)
<1>1. /\ key \in DOMAIN m
      /\ m[key] \in Seq(Nat)
      /\ Lists(m[key], P(key))
      /\ old \in P(key)
      /\ to \notin P(key)
    BY DEF Filed
<1>2. P2(key) = (P(key) \ {old}) \cup {to}
    OBVIOUS
<1>3. v \in Seq(Nat) /\ Lists(v, P2(key))
  <2> HIDE DEF P, P2, key
  <2> QED
      BY <1>1, <1>2, RewriteLists
<1>4. /\ DOMAIN m2 = DOMAIN m
      /\ m2[key] = v
      /\ \A k \in DOMAIN m2 : k # key => m2[k] = m[k]
    BY <1>1 DEF RelocateEntry, Put
<1>5. \A k \in DOMAIN m : k # key => P2(k) = P(k)
    OBVIOUS
<1>6. DOMAIN m2 = {Key(n, ql2[j]) : j \in D2}
    BY <1>4 DEF Filed
<1>7. \A k \in DOMAIN m2 : m2[k] \in Seq(Nat) /\ Lists(m2[k], P2(k))
    BY <1>3, <1>4, <1>5 DEF Filed
<1> QED
    BY <1>6, <1>7 DEF Filed

------------------------------------------------------------------------------
(* The vector, the dedup map and the indexes together.                     *)

\* The part of the invariant that is about them, in the terms of the lemmas.
Core ==
    /\ quad_list \in Seq(Quads)
    /\ quad_count = Len(quad_list)
    /\ DOMAIN four_keys_index \subseteq Quads
    /\ \A q \in DOMAIN four_keys_index : four_keys_index[q] \in 1..quad_count
    /\ DedupIsInverse
    /\ DOMAIN index = IndexNames
    /\ \A n \in IndexNames : Filed(index[n], n, quad_list, 1..quad_count)

\* The part about flags, rebuild and savepoint.
Marks ==
    /\ intensional_quads \subseteq Quads
    /\ rebuild \in [running : BOOLEAN, todo : Seq(Quads),
                    skip : Ids \cup {Absent}, flags : SUBSET Quads]
    /\ savepoint \in -1..quad_count
    /\ FlagsOnlyOnStored
    /\ RebuildShape

\* The two parts are the inductive invariant.
LEMMA IInvParts == IInv <=> Core /\ Marks
<1>1. ASSUME DOMAIN index = IndexNames
      PROVE  (\A n \in IndexNames : Filed(index[n], n, quad_list, 1..quad_count))
               <=> /\ IndexesExact
                   /\ \A n \in IndexNames : \A k \in DOMAIN index[n] : index[n][k] \in Seq(Nat)
  <2>1. \A n \in IndexNames : {Key(n, q) : q \in Stored} = {Key(n, quad_list[j]) : j \in 1..quad_count}
      BY DEF Stored
  <2> QED
      BY <2>1, <1>1 DEF Filed, IndexesExact, Positions
<1> QED
    BY <1>1 DEF IInv, Core, Marks, TypeOK

\* add_quad keeps the vector and all its indexes consistent and stores the quad.
LEMMA InsertKeepsCore ==
    ASSUME Core, NEW q \in Quads, Insert(q)
    PROVE  /\ Core'
           /\ Stored' = Stored \cup {q}
           /\ quad_count' >= quad_count
           /\ \A j \in 1..quad_count : quad_list'[j] = quad_list[j]
<1>0. quad_count \in Nat
    BY DEF Core
<1>1. CASE contains(q)
  <2>1. UNCHANGED <<quad_list, quad_count, four_keys_index, index>>
      BY <1>1 DEF Insert
  <2>2. Core'
      BY <2>1 DEF Core, DedupIsInverse
  <2>3. q \in Stored
      BY <1>1 DEF contains, Core, DedupIsInverse, Stored
  <2> QED
      BY <2>1, <2>2, <2>3, <1>0 DEF Stored
<1>2. CASE ~contains(q)
  <2> DEFINE i == quad_count + 1
  <2>1. /\ four_keys_index' = Put(four_keys_index, q, i)
        /\ index' = [n \in IndexNames |-> PushEntry(index[n], Key(n, q), i)]
        /\ quad_list' = Append(quad_list, q)
        /\ quad_count' = i
      BY <1>2 DEF Insert
  <2>2. /\ quad_list' \in Seq(Quads)
        /\ quad_count' = Len(quad_list')
        /\ \A j \in 1..quad_count : quad_list'[j] = quad_list[j]
        /\ quad_list'[i] = q
      BY <2>1 DEF Core
  <2>3. 1..i = (1..quad_count) \cup {i} /\ i \in Nat /\ i \notin 1..quad_count
      BY <1>0
  <2>4. /\ DOMAIN four_keys_index' = DOMAIN four_keys_index \cup {q}
        /\ four_keys_index'[q] = i
        /\ \A r \in DOMAIN four_keys_index : four_keys_index'[r] = four_keys_index[r]
      BY <2>1, <1>2 DEF Put, contains
  <2>5. /\ DOMAIN four_keys_index' \subseteq Quads
        /\ \A r \in DOMAIN four_keys_index' : four_keys_index'[r] \in 1..quad_count'
      BY <2>1, <2>3, <2>4 DEF Core
  <2>6. DedupIsInverse'
    <3>1. ASSUME NEW r \in DOMAIN four_keys_index'
          PROVE  quad_list'[four_keys_index'[r]] = r
        BY <2>2, <2>4 DEF Core, DedupIsInverse
    <3>2. ASSUME NEW j \in 1..quad_count'
          PROVE  /\ quad_list'[j] \in DOMAIN four_keys_index'
                 /\ four_keys_index'[quad_list'[j]] = j
        BY <2>1, <2>2, <2>3, <2>4 DEF Core, DedupIsInverse
    <3> QED
        BY <3>1, <3>2 DEF DedupIsInverse
  <2>7. DOMAIN index' = IndexNames
      BY <2>1
  <2>8. ASSUME NEW n \in IndexNames
        PROVE  Filed(index'[n], n, quad_list', 1..quad_count')
    <3>1. index'[n] = PushEntry(index[n], Key(n, quad_list'[i]), i)
        BY <2>1, <2>2
    <3>2. Filed(index[n], n, quad_list, 1..quad_count)
        BY DEF Core
    <3>3. Filed(PushEntry(index[n], Key(n, quad_list'[i]), i), n, quad_list',
                (1..quad_count) \cup {i})
      <4> HIDE DEF i
      <4> QED
          BY <3>2, <2>2, <2>3, PushFiled
    <3> QED
        BY <3>1, <3>3, <2>1, <2>3
  <2>9. Stored' = Stored \cup {q}
      BY <2>1, <2>2, <2>3 DEF Stored
  <2> QED
      BY <2>1, <2>2, <2>5, <2>6, <2>7, <2>8, <2>9, <1>0 DEF Core
<1> QED
    BY <1>1, <1>2

\* The table QuadTable::new returns.
Empty ==
    /\ quad_list = << >>
    /\ quad_count = 0
    /\ four_keys_index = << >>
    /\ index = [n \in IndexNames |-> << >>]

\* Resetting the table gives a consistent, empty one.
LEMMA EmptyCore == Empty => Core /\ Stored = {}
<1> SUFFICES ASSUME Empty
             PROVE  Core /\ Stored = {}
    OBVIOUS
<1> USE DEF Empty
<1>1. 1..quad_count = {} /\ DOMAIN four_keys_index = {}
    OBVIOUS
<1>2. \A n \in IndexNames : DOMAIN index[n] = {}
    OBVIOUS
<1>3. \A n \in IndexNames : Filed(index[n], n, quad_list, 1..quad_count)
    BY <1>1, <1>2 DEF Filed
<1>4. quad_list \in Seq(Quads) /\ quad_count = Len(quad_list)
    OBVIOUS
<1>5. DedupIsInverse
    BY <1>1 DEF DedupIsInverse
<1> QED
    BY <1>1, <1>3, <1>4, <1>5 DEF Core, Stored

\* remove_quad keeps the vector and all its indexes consistent, also when the last
\* quad is moved into the vacated slot, and removes that quad alone.
LEMMA RemoveKeepsCore ==
    ASSUME Core, NEW target \in Quads, remove_quad(target)
    PROVE  /\ Core'
           /\ Stored' = Stored \ {target}
           /\ quad_count' \in Nat
<1> DEFINE at == four_keys_index[target]
           last == quad_count
           moved == quad_list[last]
           rest == Without(four_keys_index, target)
<1>1. /\ target \in DOMAIN four_keys_index
      /\ at \in 1..last
      /\ quad_list[at] = target
      /\ last \in Nat
      /\ last \in 1..last
    BY DEF remove_quad, contains, Core, DedupIsInverse
<1>2. /\ index' = [n \in IndexNames |-> Unlinked(n, target, at, last)]
      /\ four_keys_index' = IF at = last THEN rest ELSE Put(rest, moved, at)
      /\ quad_list' = [k \in 1..(last - 1) |-> IF k = at THEN moved ELSE quad_list[k]]
      /\ quad_count' = last - 1
    BY DEF remove_quad
<1>3. \A k \in 1..last : quad_list[k] \in Quads
    BY DEF Core
<1>4. /\ quad_list' \in Seq(Quads)
      /\ quad_count' = Len(quad_list')
      /\ \A k \in 1..(last - 1) : quad_list'[k] = IF k = at THEN moved ELSE quad_list[k]
      /\ quad_count' \in Nat
    BY <1>1, <1>2, <1>3
<1>5. 1..(last - 1) = (1..last) \ {last}
    BY <1>1
<1>6. at # last => /\ at \in 1..(last - 1)
                   /\ 1..(last - 1) = (((1..last) \ {at}) \ {last}) \cup {at}
    BY <1>1
<1>7. \A a, b \in 1..last : quad_list[a] = quad_list[b] => a = b
    BY DEF Core, DedupIsInverse
<1>8. /\ DOMAIN four_keys_index' = DOMAIN four_keys_index \ {target}
      /\ at # last => four_keys_index'[moved] = at
      /\ \A r \in DOMAIN four_keys_index' :
            r # moved => four_keys_index'[r] = four_keys_index[r]
  <2>1. moved \in DOMAIN four_keys_index
      BY <1>1 DEF Core, DedupIsInverse
  <2>2. at # last => moved # target
      BY <1>1, <1>7
  <2>3. DOMAIN rest = DOMAIN four_keys_index \ {target}
        /\ \A r \in DOMAIN rest : rest[r] = four_keys_index[r]
      BY DEF Without
  <2> QED
      BY <1>2, <2>1, <2>2, <2>3 DEF Put
<1>9. DedupIsInverse'
  <2>1. ASSUME NEW j \in 1..(last - 1)
        PROVE  /\ quad_list'[j] \in DOMAIN four_keys_index'
               /\ four_keys_index'[quad_list'[j]] = j
    <3>1. j \in 1..last /\ j # last
        BY <1>1
    <3>2. CASE j = at
      <4>1. quad_list'[j] = moved /\ at # last /\ moved # target
          BY <3>1, <3>2, <1>1, <1>4, <1>7
      <4>2. moved \in DOMAIN four_keys_index
          BY <1>1 DEF Core, DedupIsInverse
      <4> QED
          BY <4>1, <4>2, <3>2, <1>8
    <3>3. CASE j # at
      <4>1. quad_list'[j] = quad_list[j] /\ quad_list[j] # target /\ quad_list[j] # moved
          BY <3>1, <3>3, <1>1, <1>4, <1>7
      <4>2. quad_list[j] \in DOMAIN four_keys_index /\ four_keys_index[quad_list[j]] = j
          BY <3>1 DEF Core, DedupIsInverse
      <4> QED
          BY <4>1, <4>2, <1>8
    <3> QED
        BY <3>2, <3>3
  <2>2. ASSUME NEW r \in DOMAIN four_keys_index'
        PROVE  /\ four_keys_index'[r] \in 1..(last - 1)
               /\ quad_list'[four_keys_index'[r]] = r
    <3>1. /\ r \in DOMAIN four_keys_index
          /\ r # target
          /\ four_keys_index[r] \in 1..last
          /\ quad_list[four_keys_index[r]] = r
        BY <1>8 DEF Core, DedupIsInverse
    <3>2. CASE r = moved
      <4>1. at # last
          BY <3>1, <3>2, <1>1
      <4> QED
          BY <4>1, <3>2, <1>4, <1>6, <1>8
    <3>3. CASE r # moved
      <4>1. four_keys_index'[r] = four_keys_index[r]
          BY <3>3, <1>8
      <4>2. four_keys_index[r] # last /\ four_keys_index[r] # at
          BY <3>1, <3>3, <1>1
      <4> QED
          BY <4>1, <4>2, <3>1, <1>4, <1>5
    <3> QED
        BY <3>2, <3>3
  <2> QED
      BY <2>1, <2>2, <1>2 DEF DedupIsInverse
<1>10. /\ DOMAIN four_keys_index' \subseteq Quads
       /\ \A r \in DOMAIN four_keys_index' : four_keys_index'[r] \in 1..quad_count'
  <2>1. DOMAIN four_keys_index' \subseteq Quads
      BY <1>8 DEF Core
  <2>2. ASSUME NEW r \in DOMAIN four_keys_index'
        PROVE  four_keys_index'[r] \in 1..(last - 1)
    <3>1. /\ r \in DOMAIN four_keys_index
          /\ r # target
          /\ four_keys_index[r] \in 1..last
          /\ quad_list[four_keys_index[r]] = r
        BY <1>8 DEF Core, DedupIsInverse
    <3>2. CASE r = moved
      <4>1. at # last
          BY <3>1, <3>2, <1>1
      <4> QED
          BY <4>1, <3>2, <1>6, <1>8
    <3>3. CASE r # moved
      <4>1. four_keys_index'[r] = four_keys_index[r]
          BY <3>3, <1>8
      <4>2. four_keys_index[r] # last
          BY <3>1, <3>3
      <4> QED
          BY <4>1, <4>2, <3>1, <1>5
    <3> QED
        BY <3>2, <3>3
  <2> QED
      BY <2>1, <2>2, <1>2
<1>11. DOMAIN index' = IndexNames
    BY <1>2
<1>12. ASSUME NEW n \in IndexNames
       PROVE  Filed(index'[n], n, quad_list', 1..quad_count')
  <2> DEFINE cleared == RemoveEntry(index[n], Key(n, target), at)
  <2>1. Filed(cleared, n, quad_list, (1..last) \ {at})
    <3>1. Filed(index[n], n, quad_list, 1..last)
        BY DEF Core
    <3>2. Filed(RemoveEntry(index[n], Key(n, quad_list[at]), at), n, quad_list, (1..last) \ {at})
      <4> HIDE DEF at, last
      <4> QED
          BY <3>1, <1>1, RemoveFiled
    <3> QED
        BY <3>2, <1>1
  <2>2. index'[n] = IF at = last THEN cleared
                    ELSE RelocateEntry(cleared, Key(n, moved), last, at)
      BY <1>2 DEF Unlinked
  <2>3. CASE at = last
    <3>1. \A j \in 1..(last - 1) : quad_list'[j] = quad_list[j]
        BY <2>3, <1>1, <1>4
    <3>2. Filed(cleared, n, quad_list, 1..(last - 1))
        BY <2>1, <2>3, <1>5
    <3>3. Filed(cleared, n, quad_list', 1..(last - 1))
      <4> HIDE DEF cleared, last
      <4> QED
          BY <3>1, <3>2 DEF Filed
    <3> QED
        BY <3>3, <2>2, <2>3, <1>2
  <2>4. CASE at # last
    <3> DEFINE D == (1..last) \ {at}
    <3>1. last \in D /\ at \in Nat /\ at \notin D
        BY <2>4, <1>1
    <3>2. \A j \in D \ {last} : quad_list'[j] = quad_list[j]
        BY <1>4, <1>5
    <3>3. quad_list'[at] = quad_list[last]
        BY <2>4, <1>4, <1>6
    <3>4. Filed(RelocateEntry(cleared, Key(n, quad_list[last]), last, at), n, quad_list',
                (D \ {last}) \cup {at})
      <4> HIDE DEF cleared, at, last, D
      <4>1. Filed(cleared, n, quad_list, D)
          BY <2>1 DEF D
      <4> QED
          BY <4>1, <3>1, <3>2, <3>3, RelocateFiled
    <3> QED
        BY <3>4, <2>2, <2>4, <1>2, <1>6
  <2> QED
      BY <2>3, <2>4
<1>13. Stored' = Stored \ {target}
  <2>1. ASSUME NEW j \in 1..(last - 1)
        PROVE  quad_list'[j] \in Stored \ {target}
    <3>1. j \in 1..last /\ j # last
        BY <1>1
    <3> QED
        BY <3>1, <1>1, <1>4, <1>7 DEF Stored
  <2>2. ASSUME NEW k \in 1..last, quad_list[k] # target
        PROVE  \E j \in 1..(last - 1) : quad_list'[j] = quad_list[k]
    <3>1. k # at
        BY <2>2, <1>1
    <3>2. CASE k = last
        BY <3>1, <3>2, <1>4, <1>6
    <3>3. CASE k # last
        BY <3>1, <3>3, <1>4, <1>5
    <3> QED
        BY <3>2, <3>3
  <2> QED
      BY SMTT(30), <2>1, <2>2, <1>2 DEF Stored
<1> QED
    BY <1>2, <1>4, <1>9, <1>10, <1>11, <1>12, <1>13 DEF Core

------------------------------------------------------------------------------
(* The invariant.                                                          *)

\* Both rebuilds start from an empty table that owes its caller the survivors.
LEMMA ResetKeepsIInv ==
    ASSUME IInv, NEW todo \in Seq(Quads), NEW skip \in Ids \cup {Absent}, Reset(todo, skip)
    PROVE  /\ IInv'
           /\ Stored' = {}
           /\ Pending' = {q \in {todo[k] : k \in 1..Len(todo)} : q.triple_id # skip}
           /\ rebuild'.running
           /\ rebuild'.flags = Pending' \cap intensional_quads
<1> DEFINE F == {todo[k] : k \in {j \in 1..Len(todo) : /\ todo[j].triple_id # skip
                                                     /\ todo[j] \in intensional_quads}}
<1>1. rebuild' = [running |-> TRUE, todo |-> todo, skip |-> skip, flags |-> F]
    BY DEF Reset, KeptFlags
<1>2. /\ rebuild'.running = TRUE /\ rebuild'.todo = todo
      /\ rebuild'.skip = skip /\ rebuild'.flags = F
    BY <1>1
<1>3. \A k \in 1..Len(todo) : todo[k] \in Quads
    OBVIOUS
<1>4. Pending' = {q \in {todo[k] : k \in 1..Len(todo)} : q.triple_id # skip}
    BY <1>2 DEF Pending
<1>5. F = Pending' \cap intensional_quads
    BY <1>4
<1>6. F \subseteq Quads
    BY <1>3
<1>7. Core' /\ Stored' = {}
  <2>1. Empty'
      BY DEF Reset, Empty
  <2>2. (Core /\ Stored = {})'
      BY <2>1, EmptyCore, PTL
  <2> QED
      BY <2>2
<1>8. Marks'
  <2>1. rebuild' \in [running : BOOLEAN, todo : Seq(Quads),
                      skip : Ids \cup {Absent}, flags : SUBSET Quads]
      BY <1>1, <1>6
  <2>2. intensional_quads' = {} /\ quad_count' = 0 /\ savepoint' = NoSavepoint
      BY DEF Reset
  <2>3. savepoint' \in -1..quad_count'
      BY <2>2 DEF NoSavepoint
  <2>4. FlagsOnlyOnStored'
      BY <2>2, <1>2, <1>5 DEF FlagsOnlyOnStored
  <2>5. RebuildShape'
      BY <2>2, <1>2 DEF RebuildShape
  <2> QED
      BY <2>1, <2>2, <2>3, <2>4, <2>5 DEF Marks
<1>9. IInv'
    BY <1>7, <1>8, IInvParts, PTL
<1> QED
    BY <1>2, <1>4, <1>5, <1>7, <1>9

\* One iteration of the rebuild loop moves a quad from the pending to the stored
\* ones, or passes over one that is filtered out.
LEMMA RebuildStepKeeps ==
    ASSUME IInv, RebuildStep
    PROVE  IInv' /\ Stored' \cup Pending' = Stored \cup Pending
<1> DEFINE h == Head(rebuild.todo)
           T == rebuild.todo
<1>1. Core /\ Marks
    BY IInvParts
<1>2. /\ T \in Seq(Quads) /\ T # << >>
      /\ h \in Quads /\ Tail(T) \in Seq(Quads)
      /\ h = T[1] /\ Len(T) \in Nat \ {0}
      /\ Len(Tail(T)) = Len(T) - 1
      /\ \A k \in 1..Len(Tail(T)) : Tail(T)[k] = T[k + 1]
    BY <1>1 DEF RebuildStep, Marks
<1>3. /\ rebuild' = [rebuild EXCEPT !.todo = Tail(T)]
      /\ rebuild'.todo = Tail(T) /\ rebuild'.skip = rebuild.skip
      /\ rebuild'.flags = rebuild.flags /\ rebuild'.running = rebuild.running
      /\ rebuild.running
    BY <1>1 DEF RebuildStep, Marks
<1>4. {T[k] : k \in 1..Len(T)} = {h} \cup {Tail(T)[k] : k \in 1..Len(Tail(T))}
  <2>1. ASSUME NEW k \in 1..Len(T)
        PROVE  T[k] \in {h} \cup {Tail(T)[j] : j \in 1..Len(Tail(T))}
    <3>1. CASE k = 1
        BY <3>1, <1>2
    <3>2. CASE k # 1
      <4>1. k - 1 \in 1..Len(Tail(T)) /\ Tail(T)[k - 1] = T[(k - 1) + 1] /\ (k - 1) + 1 = k
          BY <3>2, <1>2
      <4> QED
          BY <4>1
    <3> QED
        BY <3>1, <3>2
  <2>2. 1 \in 1..Len(T) /\ \A k \in 1..Len(Tail(T)) : k + 1 \in 1..Len(T)
      BY <1>2
  <2> QED
      BY <2>1, <2>2, <1>2
<1>5. CASE h.triple_id = rebuild.skip
  <2>1. UNCHANGED <<quad_list, quad_count, four_keys_index, index>>
      BY <1>5 DEF RebuildStep
  <2>2. Core' /\ Stored' = Stored
      BY <2>1, <1>1 DEF Core, DedupIsInverse, Stored
  <2>3. Pending' = Pending
      BY ZenonT(30), <1>3, <1>4, <1>5 DEF Pending
  <2> QED
    <3>1. Marks'
        BY <2>1, <2>2, <2>3, <1>1, <1>2, <1>3 DEF Marks, RebuildStep, FlagsOnlyOnStored, RebuildShape
    <3>2. IInv'
        BY <3>1, <2>2, IInvParts, PTL
    <3> QED
        BY <3>2, <2>2, <2>3
<1>6. CASE h.triple_id # rebuild.skip
  <2>1. Insert(h)
      BY <1>6 DEF RebuildStep
  <2>2. Core' /\ Stored' = Stored \cup {h} /\ quad_count' >= quad_count
      BY <2>1, <1>1, <1>2, InsertKeepsCore
  <2>3. Pending' \cup {h} = Pending
      BY ZenonT(30), <1>3, <1>4, <1>6 DEF Pending
  <2>4. Marks'
    <3>1. savepoint' \in -1..quad_count'
      <4>1. quad_count \in Nat /\ quad_count' \in Nat
          BY <1>1, <2>2 DEF Core
      <4> QED
          BY <4>1, <2>2, <1>1 DEF Marks, RebuildStep
    <3>2. rebuild' \in [running : BOOLEAN, todo : Seq(Quads),
                        skip : Ids \cup {Absent}, flags : SUBSET Quads]
        BY <1>1, <1>2, <1>3 DEF Marks
    <3>3. FlagsOnlyOnStored'
        BY <2>2, <2>3, <1>1, <1>3 DEF Marks, RebuildStep, FlagsOnlyOnStored
    <3>4. RebuildShape'
        BY <1>1, <1>3 DEF Marks, RebuildStep, RebuildShape
    <3> QED
        BY <3>1, <3>2, <3>3, <3>4, <1>1 DEF Marks, RebuildStep
  <2>5. IInv'
      BY <2>2, <2>4, IInvParts, PTL
  <2> QED
      BY <2>2, <2>3, <2>5
<1> QED
    BY <1>5, <1>6

\* Rolling back hands a prefix of the vector to the rebuild loop.
LEMMA Prefix ==
    ASSUME Core, NEW len \in Nat, len <= Len(quad_list)
    PROVE  /\ SubSeq(quad_list, 1, len) \in Seq(Quads)
           /\ Len(SubSeq(quad_list, 1, len)) = len
           /\ \A k \in 1..len : SubSeq(quad_list, 1, len)[k] = quad_list[k]
BY DEF Core

\* Every operation preserves the invariant.
LEMMA StepKeepsIInv == IInv /\ [Next]_vars => IInv'
<1> SUFFICES ASSUME IInv, [Next]_vars
             PROVE  IInv'
    OBVIOUS
<1>0. Core /\ Marks
    BY IInvParts
<1>1. quad_count \in Nat
    BY <1>0 DEF Core
<1>2. ASSUME NEW q \in Quads, add_quad(q)
      PROVE  IInv'
  <2>1. Core' /\ Stored' = Stored \cup {q} /\ quad_count' >= quad_count
      BY <1>0, <1>2, InsertKeepsCore DEF add_quad
  <2>2. quad_count' \in Nat
      BY <2>1 DEF Core
  <2>3. Marks'
      BY <1>0, <1>1, <1>2, <2>1, <2>2
      DEF Marks, add_quad, FlagsOnlyOnStored, RebuildShape, Pending
  <2> QED
      BY <2>1, <2>3, IInvParts, PTL
<1>3. ASSUME NEW q \in Quads, add_intensional_quad(q)
      PROVE  IInv'
  <2>1. Core' /\ Stored' = Stored \cup {q} /\ quad_count' >= quad_count
      BY <1>0, <1>3, InsertKeepsCore DEF add_intensional_quad
  <2>2. quad_count' \in Nat
      BY <2>1 DEF Core
  <2>3. Marks'
      BY <1>0, <1>1, <1>3, <2>1, <2>2
      DEF Marks, add_intensional_quad, FlagsOnlyOnStored, RebuildShape, Pending
  <2> QED
      BY <2>1, <2>3, IInvParts, PTL
<1>4. ASSUME NEW q \in Quads, remove_quad(q)
      PROVE  IInv'
  <2>1. Core' /\ Stored' = Stored \ {q} /\ quad_count' \in Nat
      BY <1>0, <1>4, RemoveKeepsCore
  <2>2. /\ intensional_quads' = intensional_quads \ {q}
        /\ savepoint' = NoSavepoint
        /\ rebuild' = rebuild
        /\ rebuild = Idle
      BY <1>0, <1>4 DEF remove_quad, Marks, RebuildShape
  <2>3. savepoint' \in -1..quad_count'
      BY <2>1, <2>2 DEF NoSavepoint
  <2>4. FlagsOnlyOnStored' /\ RebuildShape'
      BY <2>1, <2>2, <1>0 DEF Marks, FlagsOnlyOnStored, RebuildShape, Idle
  <2>5. Marks'
      BY <2>2, <2>3, <2>4, <1>0 DEF Marks
  <2> QED
      BY <2>1, <2>5, IInvParts, PTL
<1>5. ASSUME NEW g \in Ids, remove_graph(g)
      PROVE  IInv'
    BY <1>0, <1>5, ResetKeepsIInv DEF remove_graph, Core
<1>6. ASSUME truncate_to
      PROVE  IInv'
  <2>1. CASE savepoint >= Len(quad_list)
    <3>1. Core'
        BY <1>0, <1>6, <2>1 DEF truncate_to, Core, DedupIsInverse
    <3>2. Marks'
        BY <1>0, <1>1, <1>6, <2>1
        DEF truncate_to, Marks, FlagsOnlyOnStored, RebuildShape, Pending, Stored, NoSavepoint
    <3> QED
        BY <3>1, <3>2, IInvParts, PTL
  <2>2. CASE ~(savepoint >= Len(quad_list))
    <3>1. savepoint \in Nat /\ savepoint <= Len(quad_list)
        BY <1>0, <1>1, <1>6, <2>2 DEF truncate_to, Core, Marks, NoSavepoint
    <3>2. SubSeq(quad_list, 1, savepoint) \in Seq(Quads)
        BY <3>1, <1>0, Prefix
    <3> QED
        BY <3>2, <1>6, <2>2, ResetKeepsIInv DEF truncate_to
  <2> QED
      BY <2>1, <2>2
<1>7. ASSUME RebuildStep
      PROVE  IInv'
    BY <1>7, RebuildStepKeeps
<1>8. ASSUME RebuildDone
      PROVE  IInv'
  <2>1. Core'
      BY <1>0, <1>8 DEF RebuildDone, Core, DedupIsInverse
  <2>2. rebuild.flags \subseteq Stored
      BY <1>0, <1>8 DEF RebuildDone, Marks, FlagsOnlyOnStored, Pending
  <2>3. /\ intensional_quads' = rebuild.flags
        /\ rebuild' = Idle
        /\ savepoint' = savepoint
        /\ quad_count' = quad_count
        /\ Stored' = Stored
      BY <1>8 DEF RebuildDone, Stored
  <2>4. FlagsOnlyOnStored' /\ RebuildShape'
      BY <2>2, <2>3 DEF FlagsOnlyOnStored, RebuildShape, Idle
  <2>5. Marks'
      BY <2>3, <2>4, <1>0 DEF Marks, Idle
  <2> QED
      BY <2>1, <2>5, IInvParts, PTL
<1>9. ASSUME TakeSavepoint \/ DropSavepoint
      PROVE  IInv'
  <2>1. Core'
      BY <1>0, <1>9 DEF TakeSavepoint, DropSavepoint, Core, DedupIsInverse
  <2>2. Marks'
      BY <1>0, <1>1, <1>9
      DEF TakeSavepoint, DropSavepoint, Marks, FlagsOnlyOnStored, RebuildShape, Pending,
          Stored, NoSavepoint
  <2> QED
      BY <2>1, <2>2, IInvParts, PTL
<1>10. CASE UNCHANGED vars
  <2>1. Core'
      BY <1>0, <1>10 DEF vars, Core, DedupIsInverse
  <2>2. Marks'
      BY <1>0, <1>10 DEF vars, Marks, FlagsOnlyOnStored, RebuildShape, Pending, Stored
  <2> QED
      BY <2>1, <2>2, IInvParts, PTL
<1> QED
    BY <1>2, <1>3, <1>4, <1>5, <1>6, <1>7, <1>8, <1>9, <1>10 DEF Next

\* The empty table satisfies the invariant.
LEMMA InitIInv == Init => IInv
<1> SUFFICES ASSUME Init
             PROVE  IInv
    OBVIOUS
<1>1. Core /\ Stored = {}
    BY EmptyCore DEF Init, new, Empty
<1>2. Marks
    BY <1>1 DEF Init, new, Marks, FlagsOnlyOnStored, RebuildShape, Pending, Idle, NoSavepoint
<1> QED
    BY <1>1, <1>2, IInvParts

\* The invariant holds of every behaviour.
THEOREM IInvInvariant == Spec => []IInv
BY InitIInv, StepKeepsIInv, PTL DEF Spec

\* quad_count, the vector and the maps have their types throughout.
THEOREM TypeCorrect == Spec => []TypeOK
<1>1. IInv => TypeOK
    BY DEF IInv
<1> QED
    BY <1>1, IInvInvariant, PTL

\* remove_quad's swap-removal, truncate_to's and remove_graph's rebuilds and every
\* insertion leave all four secondary indexes exact, whatever the order of operations.
THEOREM IndexesStayExact == Spec => []IndexesExact
<1>1. IInv => IndexesExact
    BY DEF IInv
<1> QED
    BY <1>1, IInvInvariant, PTL

\* The dedup map always inverts the vector: no quad is stored twice, and each is
\* found at its own slot.
THEOREM DedupStaysInverse == Spec => []DedupIsInverse
<1>1. IInv => DedupIsInverse
    BY DEF IInv
<1> QED
    BY <1>1, IInvInvariant, PTL

\* No quad that left the store leaves its derived-mark behind.
THEOREM FlagsStayOnStored == Spec => []FlagsOnlyOnStored
<1>1. IInv => FlagsOnlyOnStored
    BY DEF IInv
<1> QED
    BY <1>1, IInvInvariant, PTL

------------------------------------------------------------------------------
(* The table implements the set.                                           *)

\* What the abstract variables stand for when no rebuild is under way.
AbsPresent == Stored \cup Pending

AbsIntensional == IF rebuild.running THEN rebuild.flags ELSE intensional_quads

AbsSaved ==
    IF savepoint = NoSavepoint THEN << >>
    ELSE LET kept == {quad_list[k] : k \in 1..savepoint}
         IN  <<kept, kept \cap intensional_quads>>

\* An insertion leaves the quads before the savepoint, and their marks, alone.
LEMMA InsertKeepsSaved ==
    ASSUME IInv, NEW q \in Quads, Insert(q), savepoint' = savepoint,
           \/ intensional_quads' = intensional_quads
           \/ ~is_extensional(q) /\ intensional_quads' = intensional_quads \cup {q}
    PROVE  AbsSaved' = AbsSaved
<1> DEFINE kept == {quad_list[k] : k \in 1..savepoint}
<1>0. Core /\ Marks
    BY IInvParts
<1>1. quad_count \in Nat /\ savepoint \in -1..quad_count
    BY <1>0 DEF Core, Marks
<1>2. \A j \in 1..savepoint : j \in 1..quad_count /\ quad_list'[j] = quad_list[j]
    BY <1>0, <1>1, InsertKeepsCore
<1>3. {quad_list'[k] : k \in 1..savepoint'} = kept
    BY <1>2
<1>4. kept \subseteq Stored
    BY <1>2 DEF Stored
<1>5. ~is_extensional(q) => q \notin Stored \/ q \in intensional_quads
    BY <1>0 DEF is_extensional, contains, Core, DedupIsInverse, Stored
<1>6. kept \cap intensional_quads' = kept \cap intensional_quads
    BY <1>4, <1>5
<1> QED
    BY <1>3, <1>6 DEF AbsSaved

\* Every step of the table is a step of the set, or leaves the set alone.
LEMMA StepRefines == IInv /\ IInv' /\ [Next]_vars => [Abs!Next]_(Abs!vars)
<1> SUFFICES ASSUME IInv, IInv', [Next]_vars
             PROVE  Abs!Next \/ (AbsPresent' = AbsPresent /\ AbsIntensional' = AbsIntensional
                                  /\ AbsSaved' = AbsSaved)
    BY DEF Abs!vars, AbsPresent, AbsIntensional, AbsSaved
<1>0. Core /\ Marks
    BY IInvParts
<1>1. quad_count \in Nat
    BY <1>0 DEF Core
<1>i. ~rebuild.running => rebuild = Idle /\ Pending = {}
    BY <1>0 DEF Marks, RebuildShape, Idle, Pending
<1>2. ASSUME NEW q \in Quads, add_quad(q)
      PROVE  Abs!Add(q)
  <2>1. Stored' = Stored \cup {q} /\ Pending' = Pending
      BY <1>0, <1>2, InsertKeepsCore DEF add_quad, Pending
  <2>2. AbsSaved' = AbsSaved
      BY <1>2, InsertKeepsSaved DEF add_quad
  <2> QED
      BY <2>1, <2>2, <1>2 DEF add_quad, Abs!Add, AbsSaved
<1>3. ASSUME NEW q \in Quads, add_intensional_quad(q)
      PROVE  Abs!AddIntensional(q)
  <2>1. Stored' = Stored \cup {q} /\ Pending' = Pending /\ Pending = {} /\ ~rebuild.running /\ rebuild' = rebuild
      BY <1>0, <1>3, <1>i, InsertKeepsCore DEF add_intensional_quad, Pending
  <2>2. AbsSaved' = AbsSaved
      BY <1>3, InsertKeepsSaved DEF add_intensional_quad
  <2>3. is_extensional(q) <=> q \in Stored \ intensional_quads
      BY <1>0 DEF is_extensional, contains, Core, DedupIsInverse, Stored
  <2>4. intensional_quads' = IF q \in (Stored \cup Pending) \ intensional_quads
                             THEN intensional_quads ELSE intensional_quads \cup {q}
      BY <2>1, <2>3, <1>3 DEF add_intensional_quad
  <2> QED
      BY <2>1, <2>2, <2>4 DEF Abs!AddIntensional, AbsSaved
<1>4. ASSUME NEW q \in Quads, remove_quad(q)
      PROVE  Abs!RemoveAll({q})
  <2>1. Stored' = Stored \ {q}
      BY <1>0, <1>4, RemoveKeepsCore
  <2>2. Pending = {} /\ Pending' = {} /\ ~rebuild.running /\ ~rebuild'.running
      BY <1>4, <1>i DEF remove_quad, Pending
  <2> QED
      BY <2>1, <2>2, <1>4 DEF remove_quad, Abs!RemoveAll
<1>5. ASSUME NEW g \in Ids, remove_graph(g)
      PROVE  \E q \in Quads : Abs!RemoveAll({r \in Quads : GraphOf(r) = GraphOf(q)})
  <2>1. PICK j \in 1..quad_count : Key("triple_id", quad_list[j]) = <<g>>
      BY <1>0, <1>5 DEF remove_graph, graph_exists, Core, Filed, IndexNames
  <2>2. quad_list[j] \in Quads /\ quad_list[j].triple_id = g
      BY <2>1, <1>0 DEF Key, Core
  <2>3. /\ Stored' = {}
        /\ Pending' = {q \in Stored : q.triple_id # g}
        /\ rebuild'.running
        /\ rebuild'.flags = Pending' \cap intensional_quads
        /\ savepoint' = NoSavepoint
      BY <1>0, <1>5, ResetKeepsIInv DEF remove_graph, Core, Stored, Reset
  <2>4. Stored \subseteq Quads /\ intensional_quads \subseteq Stored
      BY <1>0 DEF Core, Marks, Stored, FlagsOnlyOnStored
  <2>5. Pending = {} /\ ~rebuild.running
      BY <1>5, <1>i DEF remove_graph
  <2>6. Abs!RemoveAll({r \in Quads : r.triple_id = g})
      BY <2>3, <2>4, <2>5 DEF Abs!RemoveAll
  <2> QED
      BY <2>2, <2>6 DEF GraphOf
<1>6. ASSUME truncate_to
      PROVE  Abs!Restore
  <2> DEFINE kept == {quad_list[k] : k \in 1..savepoint}
  <2>1. Pending = {} /\ ~rebuild.running
      BY <1>6, <1>i DEF truncate_to
  <2>2. savepoint \in Nat /\ savepoint <= Len(quad_list) /\ savepoint # NoSavepoint
      BY <1>0, <1>1, <1>6 DEF truncate_to, Core, Marks, NoSavepoint
  <2>3. AbsSaved = <<kept, kept \cap intensional_quads>>
      BY <2>2 DEF AbsSaved
  <2>4. CASE savepoint >= Len(quad_list)
    <3>1. savepoint = quad_count
        BY <2>2, <2>4, <1>0 DEF Core
    <3>2. kept = Stored /\ intensional_quads \subseteq Stored
        BY <3>1, <1>0 DEF Stored, Marks, FlagsOnlyOnStored
    <3>3. UNCHANGED <<quad_list, quad_count, intensional_quads, rebuild>> /\ savepoint' = NoSavepoint
        BY <1>6, <2>4 DEF truncate_to
    <3>4. Stored' = kept /\ Pending' = {} /\ ~rebuild'.running
          /\ intensional_quads' = kept \cap intensional_quads
        BY <3>2, <3>3, <2>1 DEF Stored, Pending
    <3> QED
        BY <3>3, <3>4, <2>1, <2>2 DEF Abs!Restore
  <2>5. CASE ~(savepoint >= Len(quad_list))
    <3> DEFINE pre == SubSeq(quad_list, 1, savepoint)
    <3>1. /\ pre \in Seq(Quads)
          /\ Len(pre) = savepoint
          /\ \A k \in 1..savepoint : pre[k] = quad_list[k]
        BY <2>2, <1>0, Prefix
    <3>2. Reset(pre, Absent)
        BY <1>6, <2>5 DEF truncate_to
    <3>3. /\ Stored' = {}
          /\ Pending' = {q \in {pre[k] : k \in 1..Len(pre)} : q.triple_id # Absent}
          /\ rebuild'.running
          /\ rebuild'.flags = Pending' \cap intensional_quads
          /\ savepoint' = NoSavepoint
      <4> HIDE DEF pre
      <4> QED
          BY <3>1, <3>2, ResetKeepsIInv DEF Reset
    <3>4. \A q \in Quads : q.triple_id # Absent
        BY QuadsAssumption, AbsentAssumption
    <3>5. \A k \in 1..Len(pre) : pre[k] \in Quads
      <4> HIDE DEF pre
      <4> QED
          BY <3>1
    <3>6. {pre[k] : k \in 1..Len(pre)} = kept
        BY <3>1
    <3>7. Pending' = kept
        BY <3>3, <3>4, <3>5, <3>6
    <3> QED
        BY <3>3, <3>7, <2>1, <2>2 DEF Abs!Restore
  <2> QED
      BY <2>4, <2>5
<1>7. ASSUME RebuildStep
      PROVE  AbsPresent' = AbsPresent /\ AbsIntensional' = AbsIntensional /\ AbsSaved' = AbsSaved
  <2>1. Stored' \cup Pending' = Stored \cup Pending
      BY <1>7, RebuildStepKeeps
  <2>2. rebuild.running /\ rebuild'.running /\ rebuild'.flags = rebuild.flags
      BY <1>0, <1>7 DEF RebuildStep, Marks
  <2>3. savepoint = NoSavepoint /\ savepoint' = NoSavepoint
      BY <2>2, <1>0, <1>7 DEF RebuildStep, Marks, RebuildShape
  <2> QED
      BY <2>1, <2>2, <2>3 DEF AbsPresent, AbsIntensional, AbsSaved
<1>8. ASSUME RebuildDone
      PROVE  AbsPresent' = AbsPresent /\ AbsIntensional' = AbsIntensional /\ AbsSaved' = AbsSaved
  <2>1. Stored' = Stored /\ Pending' = {} /\ Pending = {}
      BY <1>8 DEF RebuildDone, Stored, Pending, Idle
  <2>2. rebuild.running /\ ~rebuild'.running /\ intensional_quads' = rebuild.flags
      BY <1>8 DEF RebuildDone, Idle
  <2>3. savepoint = NoSavepoint /\ savepoint' = NoSavepoint
      BY <2>2, <1>0, <1>8 DEF RebuildDone, Marks, RebuildShape
  <2> QED
      BY <2>1, <2>2, <2>3 DEF AbsPresent, AbsIntensional, AbsSaved
<1>9. ASSUME TakeSavepoint
      PROVE  Abs!Save
  <2>1. /\ Stored' = Stored /\ Pending' = Pending /\ Pending = {}
        /\ ~rebuild.running /\ rebuild' = rebuild
        /\ intensional_quads' = intensional_quads /\ savepoint' = quad_count
        /\ quad_list' = quad_list
      BY <1>9, <1>i DEF TakeSavepoint, Stored, Pending
  <2>2. savepoint' # NoSavepoint
      BY <2>1, <1>1 DEF NoSavepoint
  <2>3. {quad_list'[k] : k \in 1..savepoint'} = Stored
      BY <2>1 DEF Stored
  <2>4. intensional_quads \subseteq Stored
      BY <1>0 DEF Marks, FlagsOnlyOnStored
  <2> QED
      BY <2>1, <2>2, <2>3, <2>4 DEF Abs!Save
<1>10. ASSUME DropSavepoint
       PROVE  Abs!Forget
    BY <1>10 DEF DropSavepoint, Abs!Forget, Stored, Pending
<1>11. CASE UNCHANGED vars
    BY <1>11 DEF vars, AbsPresent, AbsIntensional, AbsSaved, Stored, Pending
<1> QED
    BY <1>2, <1>3, <1>4, <1>5, <1>6, <1>7, <1>8, <1>9, <1>10, <1>11 DEF Next, Abs!Next

\* The multi-index table implements the abstract set of quads with derived-marks and
\* a savepoint: in particular truncate_to restores the state of the savepoint exactly.
THEOREM TableImplementsQuadSet == Spec => ImplementsQuadSet
<1>1. Init => Abs!Init
    BY DEF Init, new, Idle, Abs!Init, Stored, Pending, NoSavepoint
<1>2. IInv /\ IInv' /\ [Next]_vars => [Abs!Next]_(Abs!vars)
    BY StepRefines
<1> QED
    BY <1>1, <1>2, IInvInvariant, PTL DEF Spec, ImplementsQuadSet, Abs!Spec

------------------------------------------------------------------------------
(* Lookups.                                                                *)

\* Reading an index under a set of keys gives exactly the stored quads with such a key.
LEMMA EntriesExact ==
    ASSUME IInv, NEW n \in IndexNames, NEW K
    PROVE  Entries(n, K) = {q \in Stored : Key(n, q) \in K}
<1> DEFINE m == index[n]
           P(k) == {j \in 1..quad_count : Key(n, quad_list[j]) = k}
           Read(k) == {m[k][a] : a \in 1..Len(m[k])}
<1>1. Filed(m, n, quad_list, 1..quad_count)
    BY IInvParts DEF Core
<1>2. DOMAIN m = {Key(n, quad_list[j]) : j \in 1..quad_count}
    BY <1>1 DEF Filed
<1>3. \A k \in DOMAIN m : Read(k) = P(k)
    BY <1>1 DEF Filed, Lists
<1>4. Entries(n, K) = {quad_list[i] : i \in UNION {Read(k) : k \in K \cap DOMAIN m}}
    BY DEF Entries
<1>5. ASSUME NEW q \in Entries(n, K)
      PROVE  q \in {r \in Stored : Key(n, r) \in K}
  <2>1. PICK k \in K \cap DOMAIN m : \E i \in Read(k) : q = quad_list[i]
      BY <1>4
  <2>2. PICK i \in P(k) : q = quad_list[i]
      BY <1>3, <2>1
  <2> QED
      BY <2>1, <2>2 DEF Stored
<1>6. ASSUME NEW q \in Stored, Key(n, q) \in K
      PROVE  q \in Entries(n, K)
  <2>1. PICK i \in 1..quad_count : q = quad_list[i]
      BY DEF Stored
  <2>2. Key(n, q) \in K \cap DOMAIN m /\ i \in Read(Key(n, q))
      BY <1>2, <1>3, <1>6, <2>1
  <2> QED
      BY <2>1, <2>2, <1>4
<1> QED
    BY <1>5, <1>6

\* Each getter returns exactly the stored quads it is asked for.
LEMMA GettersExact ==
    ASSUME IInv, NEW g, NEW s, NEW p, NEW o
    PROVE  /\ get_quads_with_subject(s) = {q \in Stored : q.subject = s}
           /\ get_quads_with_object(o) = {q \in Stored : q.obj = o}
           /\ get_quads_with_predicate(p) = {q \in Stored : q.predicate = p}
           /\ get_graph(g) = {q \in Stored : q.triple_id = g}
           /\ get_quads_with_subject_predicate(s, p)
                = {q \in Stored : q.subject = s /\ q.predicate = p}
           /\ get_quads_with_object_predicate(o, p)
                = {q \in Stored : q.obj = o /\ q.predicate = p}
           /\ get_all_quads = Stored
<1> DEFINE SP == {k \in DOMAIN index["subject_predicate"] : k[1] = s}
           OP == {k \in DOMAIN index["object_predicate"] : k[1] = o}
<1>1. ASSUME NEW q
      PROVE  /\ Key("subject_predicate", q) = <<q.subject, q.predicate>>
             /\ Key("object_predicate", q) = <<q.obj, q.predicate>>
             /\ Key("predicate", q) = <<q.predicate>>
             /\ Key("triple_id", q) = <<q.triple_id>>
             /\ Key("subject_predicate", q)[1] = q.subject
             /\ Key("object_predicate", q)[1] = q.obj
             /\ Key("predicate", q) = <<p>> <=> q.predicate = p
             /\ Key("triple_id", q) = <<g>> <=> q.triple_id = g
             /\ Key("subject_predicate", q) = <<s, p>> <=> q.subject = s /\ q.predicate = p
             /\ Key("object_predicate", q) = <<o, p>> <=> q.obj = o /\ q.predicate = p
    BY DEF Key
<1>2. \A n \in IndexNames : DOMAIN index[n] = {Key(n, q) : q \in Stored}
    BY DEF IInv, IndexesExact
<1>3. get_quads_with_subject(s) = {q \in Stored : q.subject = s}
  <2>1. get_quads_with_subject(s) = {q \in Stored : Key("subject_predicate", q) \in SP}
      BY EntriesExact DEF get_quads_with_subject, IndexNames
  <2>2. \A q \in Stored : Key("subject_predicate", q) \in SP <=> q.subject = s
      BY <1>1, <1>2 DEF IndexNames
  <2> QED
      BY <2>1, <2>2
<1>4. get_quads_with_object(o) = {q \in Stored : q.obj = o}
  <2>1. get_quads_with_object(o) = {q \in Stored : Key("object_predicate", q) \in OP}
      BY EntriesExact DEF get_quads_with_object, IndexNames
  <2>2. \A q \in Stored : Key("object_predicate", q) \in OP <=> q.obj = o
      BY <1>1, <1>2 DEF IndexNames
  <2> QED
      BY <2>1, <2>2
<1>5. get_quads_with_predicate(p) = {q \in Stored : q.predicate = p}
  <2>1. get_quads_with_predicate(p) = {q \in Stored : Key("predicate", q) \in {<<p>>}}
      BY EntriesExact DEF get_quads_with_predicate, IndexNames
  <2> QED
      BY <2>1, <1>1
<1>6. get_graph(g) = {q \in Stored : q.triple_id = g}
  <2>1. get_graph(g) = {q \in Stored : Key("triple_id", q) \in {<<g>>}}
      BY EntriesExact DEF get_graph, IndexNames
  <2> QED
      BY <2>1, <1>1
<1>7. get_quads_with_subject_predicate(s, p) = {q \in Stored : q.subject = s /\ q.predicate = p}
  <2>1. get_quads_with_subject_predicate(s, p)
          = {q \in Stored : Key("subject_predicate", q) \in {<<s, p>>}}
      BY EntriesExact DEF get_quads_with_subject_predicate, IndexNames
  <2> QED
      BY <2>1, <1>1
<1>8. get_quads_with_object_predicate(o, p) = {q \in Stored : q.obj = o /\ q.predicate = p}
  <2>1. get_quads_with_object_predicate(o, p)
          = {q \in Stored : Key("object_predicate", q) \in {<<o, p>>}}
      BY EntriesExact DEF get_quads_with_object_predicate, IndexNames
  <2> QED
      BY <2>1, <1>1
<1>9. get_all_quads = Stored
    BY DEF get_all_quads, Stored, IInv, TypeOK
<1> QED
    BY <1>3, <1>4, <1>5, <1>6, <1>7, <1>8, <1>9

\* The dispatchers lose no match and read nothing that is not stored.
LEMMA ScanCovers ==
    ASSUME IInv, NEW pat \in Patterns, NEW spo,
           spo \subseteq Stored,
           \A q \in Stored : q.subject = pat.subject /\ q.predicate = pat.predicate
                                /\ q.obj = pat.obj => q \in spo
    PROVE  /\ Scan(pat, spo) \subseteq Stored
           /\ \A q \in Stored : Matches(q, pat) => q \in Scan(pat, spo)
<1> DEFINE g == pat.triple_id # Absent
           s == pat.subject # Absent
           p == pat.predicate # Absent
           o == pat.obj # Absent
<1>1. ASSUME NEW q
      PROVE  Matches(q, pat) <=> ( /\ g => q.triple_id = pat.triple_id
                                   /\ s => q.subject = pat.subject
                                   /\ p => q.predicate = pat.predicate
                                   /\ o => q.obj = pat.obj )
    BY DEF Matches, QuadFields
<1>2. CASE g /\ s /\ p /\ o
  <2>1. Scan(pat, spo) = {q \in {pat} : contains(q)}
      BY <1>2 DEF Scan
  <2>2. \A q \in Stored : contains(q) /\ q \in Quads
      BY IInvParts DEF Core, DedupIsInverse, contains, Stored
  <2>3. \A q \in Stored : Matches(q, pat) => q = pat
      BY <1>1, <1>2, <2>2, QuadsAssumption DEF Patterns
  <2>4. contains(pat) => pat \in Stored
      BY IInvParts DEF Core, DedupIsInverse, contains, Stored
  <2> QED
      BY <2>1, <2>2, <2>3, <2>4
<1>3. CASE ~g /\ s /\ p /\ o
    BY <1>1, <1>3 DEF Scan
<1>4. CASE s /\ p /\ ~o
    BY <1>1, <1>4, GettersExact DEF Scan
<1>5. CASE ~s /\ p /\ o
    BY SMTT(30), <1>1, <1>5, GettersExact DEF Scan
<1>6. CASE s /\ ~p
    BY <1>1, <1>6, GettersExact DEF Scan
<1>7. CASE ~s /\ p /\ ~o
    BY ZenonT(30), <1>1, <1>7, GettersExact DEF Scan
<1>8. CASE ~s /\ ~p /\ o
    BY <1>1, <1>8, GettersExact DEF Scan
<1>9. CASE g /\ ~s /\ ~p /\ ~o
    BY <1>1, <1>9, GettersExact DEF Scan
<1>10. CASE ~g /\ ~s /\ ~p /\ ~o
    BY <1>10, GettersExact DEF Scan
<1> QED
    BY <1>2, <1>3, <1>4, <1>5, <1>6, <1>7, <1>8, <1>9, <1>10

\* Every lookup of quads_matching and evaluate_pattern, for every combination of
\* bound and unbound positions, returns exactly the matching stored quads.
THEOREM LookupsStayExact == Spec => []LookupsExact
<1>1. IInv => LookupsExact
  <2> SUFFICES ASSUME IInv, NEW pat \in Patterns
               PROVE  /\ quads_matching(pat) = {q \in Stored : Matches(q, pat)}
                      /\ evaluate_pattern(pat) = {q \in Stored : Matches(q, pat)}
      BY DEF LookupsExact
  <2> DEFINE sp == get_quads_with_subject_predicate(pat.subject, pat.predicate)
  <2>1. get_all_quads = Stored
      BY GettersExact
  <2>2. sp = {q \in Stored : q.subject = pat.subject /\ q.predicate = pat.predicate}
      BY GettersExact
  <2>3. /\ Scan(pat, get_all_quads) \subseteq Stored
        /\ \A q \in Stored : Matches(q, pat) => q \in Scan(pat, get_all_quads)
      BY <2>1, ScanCovers
  <2>4. /\ Scan(pat, sp) \subseteq Stored
        /\ \A q \in Stored : Matches(q, pat) => q \in Scan(pat, sp)
    <3> HIDE DEF sp
    <3> QED
        BY <2>2, ScanCovers
  <2> QED
      BY <2>3, <2>4 DEF quads_matching, evaluate_pattern
<1> QED
    BY <1>1, IInvInvariant, PTL
=============================================================================
