------------------------ MODULE Persistence_proofs ------------------------
(* Theorems about the durable changelog, for any quads, datasets, rulesets   *)
(* and requests: after any sequence of requests, crashes, restarts and       *)
(* compactions, what a restart would rebuild from the log is what the server *)
(* holds in memory.                                                          *)
EXTENDS Persistence, SparqlUpdate_proofs

-----------------------------------------------------------------------------
(* Replaying some of the entries                                             *)

\* g[n] is what those of the first n entries that are at positions of K make
\* of S.
ReplaysAt(g, S, l, K) ==
    /\ g[0] = S
    /\ \A n \in 1..Len(l) :
          g[n] = IF n \in K THEN apply_entry(g[n - 1], l[n]) ELSE g[n - 1]

LEMMA ReplayAtSteps ==
    ASSUME NEW S, NEW X, NEW l \in Seq(X), NEW K
    PROVE  \E g : ReplaysAt(g, S, l, K) /\ replay_at(S, l, K) = g[Len(l)]
<1> DEFINE N == Len(l)
           p == [i \in DOMAIN l |-> i]
           U == SUBSET (S \cup {l[i].quad : i \in 1..N})
           F == [i \in 1..N |-> [T \in U |-> IF i \in K THEN apply_entry(T, l[i]) ELSE T]]
           Eq(f) == f = [s \in SUBSET DOMAIN p |->
                            IF s = {} THEN S
                            ELSE IF p[Max(s)] \in K
                                 THEN apply_entry(f[s \ {Max(s)}], l[p[Max(s)]])
                                 ELSE f[s \ {Max(s)}]]
<1>1. N \in Nat /\ DOMAIN l = 1..N /\ DOMAIN p = 1..N /\ \A i \in 1..N : p[i] = i
  OBVIOUS
<1>2. S \in U
  OBVIOUS
<1>3. \A i \in 1..N, T \in U : apply_entry(T, l[i]) \in U
  BY DEF apply_entry
<1>4. F \in [1..N -> [U -> U]]
  BY <1>3
<1>5. replay_at(S, l, K) = (CHOOSE f : Eq(f))[DOMAIN p]
  BY DEF replay_at, FoldLeftDomain, FoldLeft, MapThenFoldSet
<1>6. \A s \in SUBSET (1..N) : s # {} =>
          Max(s) \in 1..N /\ s \ {Max(s)} \in SUBSET (1..N) /\ p[Max(s)] = Max(s)
  BY <1>1, WithoutMax
<1> HIDE DEF N, U, p
<1>7. \A s \in SUBSET (1..N), T \in U : s # {} =>
          F[Max(s)][T] = IF Max(s) \in K THEN apply_entry(T, l[Max(s)]) ELSE T
  BY <1>6
<1> HIDE DEF F
<1>8. PICK f \in [SUBSET (1..N) -> U] : IsFold(f, S, F, N)
  BY <1>1, <1>2, <1>4, FoldExists
<1>9. Eq(f)
  <2>1. ASSUME NEW s \in SUBSET (1..N), s # {}
        PROVE  f[s] = IF p[Max(s)] \in K
                      THEN apply_entry(f[s \ {Max(s)}], l[p[Max(s)]]) ELSE f[s \ {Max(s)}]
    BY <1>6, <1>7, <1>8, <2>1 DEF IsFold
  <2>2. f[{}] = S
    BY <1>8 DEF IsFold
  <2>3. QED
    BY <1>1, <1>8, <2>1, <2>2
<1> DEFINE h == CHOOSE k : Eq(k)
<1>10. Eq(h)
  BY <1>9
<1>11. FoldsIn(h, S, F, N, U)
  <2>1. h[{}] = S
    BY <1>10
  <2>2. ASSUME NEW s \in SUBSET (1..N), s # {}, h[s \ {Max(s)}] \in U
        PROVE  h[s] = F[Max(s)][h[s \ {Max(s)}]]
    <3>1. h[s] = IF p[Max(s)] \in K
                 THEN apply_entry(h[s \ {Max(s)}], l[p[Max(s)]]) ELSE h[s \ {Max(s)}]
      BY <1>1, <1>10, <2>2
    <3> HIDE DEF h
    <3>2. QED
      BY <1>6, <1>7, <2>2, <3>1
  <2>3. QED
    BY <2>1, <2>2 DEF FoldsIn
<1> HIDE DEF h, Eq
<1>12. PICK g \in [0..N -> U] : Steps(g, S, F, N) /\ g[N] = h[1..N]
  BY <1>1, <1>2, <1>4, <1>11, FoldSteps
<1>13. ReplaysAt(g, S, l, K)
  <2>1. \A n \in 1..N : g[n - 1] \in U /\ g[n] = F[n][g[n - 1]]
    BY <1>1, <1>12 DEF Steps
  <2>2. \A n \in 1..N, T \in U : F[n][T] = IF n \in K THEN apply_entry(T, l[n]) ELSE T
    BY DEF F
  <2>3. QED
    BY <1>12, <2>1, <2>2 DEF ReplaysAt, Steps, N
<1>14. QED
  BY <1>1, <1>5, <1>12, <1>13 DEF h, N

LEMMA ReplayAtUnique ==
    ASSUME NEW S, NEW X, NEW l \in Seq(X), NEW K, NEW f, ReplaysAt(f, S, l, K)
    PROVE  replay_at(S, l, K) = f[Len(l)]
<1>1. PICK g : ReplaysAt(g, S, l, K) /\ replay_at(S, l, K) = g[Len(l)]
  BY ReplayAtSteps
<1> DEFINE N == Len(l)
           P == {n \in 0..N : f[n] = g[n]}
<1>2. N \in Nat
  OBVIOUS
<1>3. 0 \in P
  BY <1>1, <1>2 DEF ReplaysAt
<1>4. ASSUME NEW n \in 1..N, n - 1 \in P PROVE n \in P
  <2>1. /\ f[n] = IF n \in K THEN apply_entry(f[n - 1], l[n]) ELSE f[n - 1]
        /\ g[n] = IF n \in K THEN apply_entry(g[n - 1], l[n]) ELSE g[n - 1]
        /\ f[n - 1] = g[n - 1]
    BY <1>1, <1>4 DEF ReplaysAt
  <2>2. QED
    BY <2>1
<1> HIDE DEF N, P
<1>5. \A n \in 0..N : n \in P
  BY <1>2, <1>3, <1>4, BoundedInduction
<1>6. N \in 0..N
  BY <1>2
<1>7. QED
  BY <1>1, <1>5, <1>6 DEF P, N

\* e does nothing to a set of quads.
Inert(e) == e.op \notin {"ClearGraph", "InsertQuad", "DeleteQuad"}

\* The entries of es, appended to l, are all at positions of K; those that
\* are do nothing.
AllIn(l, es, K) == \A i \in 1..Len(es) : Len(l) + i \in K
NoneIn(l, es, K) == \A i \in 1..Len(es) : Len(l) + i \notin K \/ Inert(es[i])

\* K2 picks the same positions of l as K.
SamePicks(l, K, K2) == \A i \in 1..Len(l) : i \in K2 <=> i \in K

\* Entries that are appended go on from where the first ones led, if they are
\* all at positions of the set, and change nothing if those that are at
\* positions of the set are inert.
LEMMA ReplayAtMore ==
    ASSUME NEW S, NEW X, NEW l \in Seq(X), NEW Y, NEW es \in Seq(Y), NEW K, NEW K2,
           SamePicks(l, K, K2)
    PROVE  /\ AllIn(l, es, K2)
                => replay_at(S, l \o es, K2) = Replay(replay_at(S, l, K), es)
           /\ NoneIn(l, es, K2)
                => replay_at(S, l \o es, K2) = replay_at(S, l, K)
<1> DEFINE M == Len(l)
           N == Len(es)
           T == replay_at(S, l, K)
<1>1. PICK f : ReplaysAt(f, S, l, K) /\ T = f[M]
  BY ReplayAtSteps
<1>2. PICK g : Replays(g, T, es) /\ Replay(T, es) = g[N]
  BY ReplaySteps
<1>3. M \in Nat /\ N \in Nat
  OBVIOUS
<1>4. /\ l \o es \in Seq(X \cup Y)
      /\ Len(l \o es) = M + N
      /\ \A n \in 1..(M + N) : (l \o es)[n] = IF n <= M THEN l[n] ELSE es[n - M]
  OBVIOUS
<1>5. /\ f[0] = S
      /\ \A n \in 1..M : f[n] = IF n \in K2 THEN apply_entry(f[n - 1], l[n]) ELSE f[n - 1]
  BY <1>1 DEF ReplaysAt, SamePicks
<1> HIDE DEF M, N, T
<1>6. ASSUME \A i \in 1..N : M + i \in K2
      PROVE  replay_at(S, l \o es, K2) = Replay(T, es)
  <2> DEFINE h == [n \in 0..(M + N) |-> IF n <= M THEN f[n] ELSE g[n - M]]
  <2>1. h[0] = S
    BY <1>3, <1>5
  <2>2. ASSUME NEW n \in 1..(M + N)
        PROVE  h[n] = IF n \in K2 THEN apply_entry(h[n - 1], (l \o es)[n]) ELSE h[n - 1]
    <3>1. n \in 0..(M + N) /\ n - 1 \in 0..(M + N)
      BY <1>3
    <3>2. CASE n <= M
      <4>1. n \in 1..M /\ n - 1 <= M
        BY <1>3, <3>2
      <4>2. h[n] = f[n] /\ h[n - 1] = f[n - 1] /\ (l \o es)[n] = l[n]
        BY <1>4, <3>1, <3>2, <4>1
      <4> HIDE DEF h
      <4>3. QED
        BY <1>5, <4>1, <4>2
    <3>3. CASE n > M
      <4>1. n - M \in 1..N /\ (n - 1) - M = (n - M) - 1 /\ M + (n - M) = n /\ ~(n <= M)
        BY <1>3, <3>3
      <4>2. n \in K2
        BY <1>6, <4>1
      <4>3. h[n] = g[n - M] /\ (l \o es)[n] = es[n - M]
        BY <1>4, <3>1, <4>1
      <4>4. h[n - 1] = g[(n - M) - 1]
        <5>1. CASE n - 1 <= M
          <6>1. n - 1 = M /\ (n - M) - 1 = 0
            BY <1>3, <3>3, <5>1
          <6>2. h[n - 1] = f[M] /\ g[0] = T
            BY <1>2, <3>1, <6>1 DEF Replays
          <6>3. QED
            BY <1>1, <6>1, <6>2
        <5>2. CASE ~(n - 1 <= M)
          BY <3>1, <4>1, <5>2
        <5>3. QED
          BY <5>1, <5>2
      <4>5. g[n - M] = apply_entry(g[(n - M) - 1], es[n - M])
        BY <1>2, <4>1 DEF Replays, N
      <4> HIDE DEF h
      <4>6. QED
        BY <4>2, <4>3, <4>4, <4>5
    <3>4. n <= M \/ n > M
      BY <1>3
    <3> HIDE DEF h
    <3>5. QED
      BY <3>2, <3>3, <3>4
  <2>3. h[M + N] = g[N]
    <3>1. CASE N = 0
      <4>1. h[M + N] = f[M] /\ g[0] = T
        BY <1>2, <1>3, <3>1 DEF Replays
      <4>2. QED
        BY <1>1, <3>1, <4>1
    <3>2. CASE N # 0
      <4>1. ~(M + N <= M) /\ (M + N) - M = N /\ M + N \in 0..(M + N)
        BY <1>3, <3>2
      <4>2. QED
        BY <4>1
    <3>3. QED
      BY <3>1, <3>2
  <2> HIDE DEF h
  <2>4. ReplaysAt(h, S, l \o es, K2)
    BY <1>4, <2>1, <2>2 DEF ReplaysAt
  <2>5. replay_at(S, l \o es, K2) = h[M + N]
    BY <1>4, <2>4, ReplayAtUnique
  <2>6. QED
    BY <1>2, <2>3, <2>5
<1>7. ASSUME \A i \in 1..N : M + i \notin K2 \/ Inert(es[i])
      PROVE  replay_at(S, l \o es, K2) = T
  <2> DEFINE h == [n \in 0..(M + N) |-> IF n <= M THEN f[n] ELSE T]
  <2>1. h[0] = S
    BY <1>3, <1>5
  <2>2. ASSUME NEW n \in 1..(M + N)
        PROVE  h[n] = IF n \in K2 THEN apply_entry(h[n - 1], (l \o es)[n]) ELSE h[n - 1]
    <3>1. n \in 0..(M + N) /\ n - 1 \in 0..(M + N)
      BY <1>3
    <3>2. CASE n <= M
      <4>1. n \in 1..M /\ n - 1 <= M
        BY <1>3, <3>2
      <4>2. h[n] = f[n] /\ h[n - 1] = f[n - 1] /\ (l \o es)[n] = l[n]
        BY <1>4, <3>1, <3>2, <4>1
      <4> HIDE DEF h
      <4>3. QED
        BY <1>5, <4>1, <4>2
    <3>3. CASE n > M
      <4>1. n - M \in 1..N /\ M + (n - M) = n /\ ~(n <= M)
        BY <1>3, <3>3
      <4>2. n \in K2 => apply_entry(T, (l \o es)[n]) = T
        <5>1. n \in K2 => Inert(es[n - M]) /\ (l \o es)[n] = es[n - M]
          BY <1>4, <1>7, <4>1
        <5>2. QED
          BY <5>1 DEF Inert, apply_entry
      <4>3. h[n] = T
        BY <3>1, <4>1
      <4>4. h[n - 1] = T
        <5>1. CASE n - 1 <= M
          <6>1. n - 1 = M
            BY <1>3, <3>3, <5>1
          <6>2. h[n - 1] = f[M]
            BY <3>1, <6>1
          <6>3. QED
            BY <1>1, <6>2
        <5>2. CASE ~(n - 1 <= M)
          BY <3>1, <5>2
        <5>3. QED
          BY <5>1, <5>2
      <4> HIDE DEF h
      <4>5. QED
        BY <4>2, <4>3, <4>4
    <3>4. n <= M \/ n > M
      BY <1>3
    <3> HIDE DEF h
    <3>5. QED
      BY <3>2, <3>3, <3>4
  <2>3. h[M + N] = T
    <3>1. CASE M + N <= M
      <4>1. M + N = M /\ M + N \in 0..(M + N)
        BY <1>3, <3>1
      <4>2. QED
        BY <1>1, <4>1
    <3>2. CASE ~(M + N <= M)
      <4>1. M + N \in 0..(M + N)
        BY <1>3
      <4>2. QED
        BY <3>2, <4>1
    <3>3. QED
      BY <3>1, <3>2
  <2> HIDE DEF h
  <2>4. ReplaysAt(h, S, l \o es, K2)
    BY <1>4, <2>1, <2>2 DEF ReplaysAt
  <2>5. replay_at(S, l \o es, K2) = h[M + N]
    BY <1>4, <2>4, ReplayAtUnique
  <2>6. QED
    BY <2>3, <2>5
<1>8. QED
  BY <1>6, <1>7 DEF AllIn, NoneIn, M, N, T

LEMMA ReplayAtNothing ==
    ASSUME NEW S, NEW X, NEW l \in Seq(X), NEW K, \A i \in 1..Len(l) : i \notin K
    PROVE  replay_at(S, l, K) = S
<1> DEFINE f == [n \in 0..Len(l) |-> S]
<1>1. Len(l) \in Nat /\ \A n \in 1..Len(l) : n \in 0..Len(l) /\ n - 1 \in 0..Len(l)
  OBVIOUS
<1>2. ReplaysAt(f, S, l, K)
  BY <1>1 DEF ReplaysAt
<1>3. f[Len(l)] = S
  BY <1>1
<1> HIDE DEF f
<1>4. QED
  BY <1>2, <1>3, ReplayAtUnique

-----------------------------------------------------------------------------
(* Registrations                                                             *)

\* l registers d (or deletes it) at position i.
Creates(l, i, d) == l[i].op = "CreateDataset" /\ l[i].name = d
Deletes(l, i, d) == l[i].op = "DeleteDataset" /\ l[i].name = d

LEMMA MaxOrZero ==
    ASSUME NEW N \in Nat, NEW K, K \subseteq 1..N
    PROVE  /\ Max({0} \cup K) \in {0} \cup K
           /\ \A k \in K : k <= Max({0} \cup K)
<1> DEFINE HasMax(x) == x \in {0} \cup K /\ \A y \in {0} \cup K : x >= y
<1>1. \E x : HasMax(x)
  <2>1. CASE K = {}
    <3>1. HasMax(0)
      BY <2>1
    <3>2. QED
      BY <3>1
  <2>2. CASE K # {}
    <3>1. Max(K) \in K /\ \A y \in K : y <= Max(K)
      BY <2>2, MaxOfSet
    <3> DEFINE m == Max(K)
    <3> HIDE DEF m
    <3>2. m \in K /\ m \in 1..N /\ \A y \in K : y <= m
      BY <3>1 DEF m
    <3>3. m >= 0 /\ \A y \in K : m >= y
      BY <3>2
    <3>4. HasMax(m)
      BY <3>2, <3>3
    <3>5. QED
      BY <3>4
  <2>3. QED
    BY <2>1, <2>2
<1>2. Max({0} \cup K) = CHOOSE x \in {0} \cup K : \A y \in {0} \cup K : x >= y
  BY DEF Max
<1> DEFINE c == CHOOSE x \in {0} \cup K : \A y \in {0} \cup K : x >= y
<1>3. c \in {0} \cup K /\ \A y \in {0} \cup K : c >= y
  BY <1>1
<1> HIDE DEF c
<1>4. \A y \in K : y <= c
  <2> SUFFICES ASSUME NEW y \in K PROVE y <= c
    OBVIOUS
  <2>1. c >= y /\ c \in Int /\ y \in Int
    BY <1>3
  <2>2. QED
    BY <2>1
<1>5. QED
  BY <1>2, <1>3, <1>4 DEF c

\* The cutoff is the latest creation, if there is one.
LEMMA CutoffIs ==
    ASSUME NEW X, NEW l \in Seq(X), NEW d
    PROVE  /\ Cutoff(l, d) \in 0..Len(l)
           /\ Cutoff(l, d) # 0 => Creates(l, Cutoff(l, d), d)
           /\ \A i \in 1..Len(l) : Creates(l, i, d) => i <= Cutoff(l, d)
<1> DEFINE K == Registrations(l, d, {"CreateDataset"})
<1>1. Len(l) \in Nat /\ DOMAIN l = 1..Len(l)
  OBVIOUS
<1>2. K \subseteq 1..Len(l) /\ \A i \in 1..Len(l) : i \in K <=> Creates(l, i, d)
  BY <1>1 DEF Registrations, Creates
<1>3. Cutoff(l, d) = Max({0} \cup K)
  BY DEF Cutoff
<1> DEFINE c == Cutoff(l, d)
<1> HIDE DEF K, c
<1>4. c \in {0} \cup K /\ \A k \in K : k <= c
  BY <1>1, <1>2, <1>3, MaxOrZero DEF c
<1>5. c \in 0..Len(l) /\ (c # 0 => Creates(l, c, d))
  BY <1>1, <1>2, <1>4
<1>6. \A i \in 1..Len(l) : Creates(l, i, d) => i <= c
  BY <1>2, <1>4
<1>7. QED
  BY <1>5, <1>6 DEF c

\* A dataset is found if it was created and not deleted afterwards.
LEMMA DiscoveredIs ==
    ASSUME NEW X, NEW l \in Seq(X), NEW d
    PROVE  d \in discover_dataset_names(l) <=>
              \E i \in 1..Len(l) :
                 /\ Creates(l, i, d)
                 /\ \A j \in 1..Len(l) : j > i => ~Deletes(l, j, d)
<1> DEFINE K == Registrations(l, d, {"DeleteDataset"})
           c == Cutoff(l, d)
           m == Max({0} \cup K)
<1>1. Len(l) \in Nat /\ DOMAIN l = 1..Len(l)
  OBVIOUS
<1>2. K \subseteq 1..Len(l) /\ \A i \in 1..Len(l) : i \in K <=> Deletes(l, i, d)
  BY <1>1 DEF Registrations, Deletes
<1>3. d \in discover_dataset_names(l)
          <=> (\E i \in 1..Len(l) : Creates(l, i, d)) /\ c > m
  BY <1>1 DEF discover_dataset_names, Creates
<1> HIDE DEF K
<1>4. m \in {0} \cup K /\ \A k \in K : k <= m
  BY <1>1, <1>2, MaxOrZero
<1>5. /\ c \in 0..Len(l)
      /\ c # 0 => Creates(l, c, d)
      /\ \A i \in 1..Len(l) : Creates(l, i, d) => i <= c
  BY CutoffIs
<1> HIDE DEF c, m
<1>6. \A i \in 1..Len(l) : ~(Creates(l, i, d) /\ Deletes(l, i, d))
  BY DEF Creates, Deletes
<1>7. m \in 0..Len(l) /\ (m # 0 => m \in 1..Len(l) /\ Deletes(l, m, d))
  BY <1>1, <1>2, <1>4
<1>8. ASSUME c > m
      PROVE  /\ c \in 1..Len(l) /\ Creates(l, c, d)
             /\ \A j \in 1..Len(l) : j > c => ~Deletes(l, j, d)
  BY <1>1, <1>2, <1>4, <1>5, <1>7, <1>8
<1>9. ASSUME NEW i \in 1..Len(l), Creates(l, i, d),
             \A j \in 1..Len(l) : j > i => ~Deletes(l, j, d)
      PROVE  c > m
  <2>1. i <= c /\ i > 0
    BY <1>5, <1>9
  <2>2. CASE m = 0
    BY <1>5, <2>1, <2>2
  <2>3. CASE m # 0
    <3>1. m \in 1..Len(l) /\ Deletes(l, m, d)
      BY <1>7, <2>3
    <3>2. ~(m > i) /\ m # i
      BY <1>6, <1>9, <3>1
    <3>3. QED
      BY <1>1, <1>5, <2>1, <3>1, <3>2
  <2>4. QED
    BY <2>2, <2>3
<1>10. QED
  BY <1>3, <1>8, <1>9

\* es neither creates nor deletes d.
Plain(es, d) == \A i \in 1..Len(es) : ~Creates(es, i, d) /\ ~Deletes(es, i, d)

\* L is l followed by es.
Joins(L, l, es) ==
    /\ Len(l) \in Nat /\ Len(es) \in Nat /\ Len(L) = Len(l) + Len(es)
    /\ DOMAIN l = 1..Len(l) /\ DOMAIN L = 1..(Len(l) + Len(es))
    /\ \A i \in 1..Len(l) : i \in 1..(Len(l) + Len(es)) /\ L[i] = l[i]
    /\ \A i \in 1..Len(es) :
          Len(l) + i \in 1..(Len(l) + Len(es)) /\ L[Len(l) + i] = es[i]
    /\ \A i \in 1..(Len(l) + Len(es)) :
          i \in 1..Len(l) \/ \E k \in 1..Len(es) : i = Len(l) + k

LEMMA Appended ==
    ASSUME NEW X, NEW l \in Seq(X), NEW Y, NEW es \in Seq(Y)
    PROVE  l \o es \in Seq(X \cup Y) /\ Joins(l \o es, l, es)
<1>1. Len(l) \in Nat /\ Len(es) \in Nat
  OBVIOUS
<1>2. l \o es \in Seq(X \cup Y) /\ Len(l \o es) = Len(l) + Len(es)
  OBVIOUS
<1>3. \A i \in 1..Len(l) : i \in 1..(Len(l) + Len(es)) /\ (l \o es)[i] = l[i]
  BY <1>1
<1>4. \A i \in 1..Len(es) :
          Len(l) + i \in 1..(Len(l) + Len(es)) /\ (l \o es)[Len(l) + i] = es[i]
  BY <1>1
<1>5. ASSUME NEW i \in 1..(Len(l) + Len(es))
      PROVE  i \in 1..Len(l) \/ \E k \in 1..Len(es) : i = Len(l) + k
  <2>1. CASE i <= Len(l)
    BY <1>1, <2>1
  <2>2. CASE ~(i <= Len(l))
    <3>1. i - Len(l) \in 1..Len(es) /\ i = Len(l) + (i - Len(l))
      BY <1>1, <2>2
    <3>2. QED
      BY <3>1
  <2>3. QED
    BY <2>1, <2>2
<1>6. DOMAIN l = 1..Len(l) /\ DOMAIN (l \o es) = 1..(Len(l) + Len(es))
  BY <1>1, <1>2
<1>7. QED
  BY <1>1, <1>2, <1>3, <1>4, <1>5, <1>6 DEF Joins

\* Such entries leave the cutoff alone, and whether d is found.
LEMMA PlainKeeps ==
    ASSUME NEW X, NEW l \in Seq(X), NEW Y, NEW es \in Seq(Y), NEW d, Plain(es, d)
    PROVE  /\ Cutoff(l \o es, d) = Cutoff(l, d)
           /\ d \in discover_dataset_names(l \o es) <=> d \in discover_dataset_names(l)
<1> DEFINE M == Len(l)
           N == Len(es)
           L == l \o es
<1>0. L \in Seq(X \cup Y) /\ Joins(L, l, es)
  BY Appended
<1>1. /\ L \in Seq(X \cup Y)
      /\ M \in Nat /\ N \in Nat /\ Len(L) = M + N
      /\ \A i \in 1..M : i \in 1..(M + N) /\ L[i] = l[i]
      /\ \A i \in 1..N : M + i \in 1..(M + N) /\ L[M + i] = es[i]
      /\ \A i \in 1..(M + N) : i \in 1..M \/ \E k \in 1..N : i = M + k
  BY <1>0 DEF Joins
<1>2. \A i \in 1..M : /\ Creates(L, i, d) <=> Creates(l, i, d)
                      /\ Deletes(L, i, d) <=> Deletes(l, i, d)
  BY <1>1 DEF Creates, Deletes
<1>3. \A i \in 1..(M + N) : Creates(L, i, d) \/ Deletes(L, i, d) => i \in 1..M
  <2> SUFFICES ASSUME NEW i \in 1..(M + N), i \notin 1..M
               PROVE  ~Creates(L, i, d) /\ ~Deletes(L, i, d)
    OBVIOUS
  <2>1. PICK k \in 1..N : i = M + k
    BY <1>1
  <2>2. L[i] = es[k]
    BY <1>1, <2>1
  <2>3. QED
    BY <2>2 DEF Plain, Creates, Deletes
<1>4. /\ Cutoff(l, d) \in 0..M
      /\ Cutoff(l, d) # 0 => Creates(l, Cutoff(l, d), d)
      /\ \A i \in 1..M : Creates(l, i, d) => i <= Cutoff(l, d)
  BY CutoffIs
<1>5. /\ Cutoff(L, d) \in 0..(M + N)
      /\ Cutoff(L, d) # 0 => Creates(L, Cutoff(L, d), d)
      /\ \A i \in 1..(M + N) : Creates(L, i, d) => i <= Cutoff(L, d)
  BY <1>1, CutoffIs
<1>6. d \in discover_dataset_names(l) <=>
          \E i \in 1..M : /\ Creates(l, i, d)
                          /\ \A j \in 1..M : j > i => ~Deletes(l, j, d)
  BY DiscoveredIs
<1>7. d \in discover_dataset_names(L) <=>
          \E i \in 1..(M + N) : /\ Creates(L, i, d)
                                /\ \A j \in 1..(M + N) : j > i => ~Deletes(L, j, d)
  BY <1>1, DiscoveredIs
<1> DEFINE a == Cutoff(l, d)
           b == Cutoff(L, d)
<1> HIDE DEF a, b, L, M, N
<1>8. Cutoff(L, d) = Cutoff(l, d)
  <2>1. a # 0 => a \in 1..M /\ a \in 1..(M + N) /\ Creates(L, a, d) /\ a <= b
    BY <1>1, <1>2, <1>4, <1>5 DEF a, b
  <2>2. b # 0 => b \in 1..M /\ Creates(l, b, d) /\ b <= a
    BY <1>1, <1>2, <1>3, <1>4, <1>5 DEF a, b
  <2>3. a \in Nat /\ b \in Nat
    BY <1>1, <1>4, <1>5 DEF a, b
  <2>4. a = b
    BY <2>1, <2>2, <2>3
  <2>5. QED
    BY <2>4 DEF a, b
<1>9. d \in discover_dataset_names(l) => d \in discover_dataset_names(L)
  <2> SUFFICES ASSUME d \in discover_dataset_names(l)
               PROVE  d \in discover_dataset_names(L)
    OBVIOUS
  <2>1. PICK i \in 1..M : /\ Creates(l, i, d)
                          /\ \A j \in 1..M : j > i => ~Deletes(l, j, d)
    BY <1>6
  <2>2. i \in 1..(M + N) /\ Creates(L, i, d)
    BY <1>1, <1>2, <2>1
  <2>3. \A j \in 1..(M + N) : j > i => ~Deletes(L, j, d)
    BY <1>2, <1>3, <2>1
  <2>4. QED
    BY <1>7, <2>2, <2>3
<1>10. d \in discover_dataset_names(L) => d \in discover_dataset_names(l)
  <2> SUFFICES ASSUME d \in discover_dataset_names(L)
               PROVE  d \in discover_dataset_names(l)
    OBVIOUS
  <2>1. PICK i \in 1..(M + N) : /\ Creates(L, i, d)
                                /\ \A j \in 1..(M + N) : j > i => ~Deletes(L, j, d)
    BY <1>7
  <2>2. i \in 1..M /\ Creates(l, i, d)
    BY <1>2, <1>3, <2>1
  <2>3. \A j \in 1..M : j > i => ~Deletes(l, j, d)
    BY <1>1, <1>2, <2>1
  <2>4. QED
    BY <1>6, <2>2, <2>3
<1>11. QED
  BY <1>8, <1>9, <1>10 DEF L

-----------------------------------------------------------------------------
(* What the log makes of a dataset                                           *)

\* The quads a restart would give d, B being those of the data files.
Rebuilt(l, d, B) ==
    IF d \in discover_dataset_names(l) THEN replay_dataset(l, d) ELSE replay_into(l, B)

AllOf(es, d) == \A i \in 1..Len(es) : d \in entry_dataset(es[i])
NoneOf(es, d) == \A i \in 1..Len(es) : d \notin entry_dataset(es[i]) \/ Inert(es[i])

\* The entries of l from a position on, and those of es behind it.
LEMMA SinceMore ==
    ASSUME NEW X, NEW l \in Seq(X), NEW Y, NEW es \in Seq(Y), NEW d, NEW from \in 0..Len(l),
           NEW S
    PROVE  /\ AllOf(es, d) => replay_at(S, l \o es, Since(l \o es, d, from))
                                = Replay(replay_at(S, l, Since(l, d, from)), es)
           /\ NoneOf(es, d) => replay_at(S, l \o es, Since(l \o es, d, from))
                                = replay_at(S, l, Since(l, d, from))
<1> DEFINE L == l \o es
           K == Since(l, d, from)
           K2 == Since(L, d, from)
<1>1. L \in Seq(X \cup Y) /\ Joins(L, l, es) /\ L = l \o es
  BY Appended
<1> HIDE DEF L
<1>2. SamePicks(l, K, K2)
  BY <1>1 DEF Joins, Since, SamePicks
<1>3. \A i \in 1..Len(es) : Len(l) + i \in K2 <=> d \in entry_dataset(es[i])
  <2> SUFFICES ASSUME NEW i \in 1..Len(es)
               PROVE  Len(l) + i \in K2 <=> d \in entry_dataset(es[i])
    OBVIOUS
  <2>1. Len(l) + i \in DOMAIN L /\ L[Len(l) + i] = es[i]
    BY <1>1 DEF Joins
  <2>2. Len(l) + i >= from
    BY <1>1 DEF Joins
  <2>3. QED
    BY <2>1, <2>2 DEF Since
<1> HIDE DEF K, K2
<1>4. /\ AllIn(l, es, K2)
            => replay_at(S, l \o es, K2) = Replay(replay_at(S, l, K), es)
      /\ NoneIn(l, es, K2)
            => replay_at(S, l \o es, K2) = replay_at(S, l, K)
  BY <1>2, ReplayAtMore
<1>5. ASSUME AllOf(es, d)
      PROVE  replay_at(S, L, K2) = Replay(replay_at(S, l, K), es)
  <2>1. AllIn(l, es, K2)
    BY <1>3, <1>5 DEF AllOf, AllIn
  <2>2. QED
    BY <1>1, <1>4, <2>1
<1>6. ASSUME NoneOf(es, d)
      PROVE  replay_at(S, L, K2) = replay_at(S, l, K)
  <2>1. NoneIn(l, es, K2)
    BY <1>3, <1>6 DEF NoneOf, NoneIn
  <2>2. QED
    BY <1>1, <1>4, <2>1
<1>7. QED
  BY <1>5, <1>6 DEF L, K, K2

\* Entries of d continue what the log makes of d; those of other datasets do
\* not touch it.
LEMMA RebuiltMore ==
    ASSUME NEW X, NEW l \in Seq(X), NEW Y, NEW es \in Seq(Y), NEW d, Plain(es, d), NEW B,
           d = MainDataset \/ d \in discover_dataset_names(l)
    PROVE  /\ AllOf(es, d) => Rebuilt(l \o es, d, B) = Replay(Rebuilt(l, d, B), es)
           /\ NoneOf(es, d) => Rebuilt(l \o es, d, B) = Rebuilt(l, d, B)
<1>1. /\ Cutoff(l \o es, d) = Cutoff(l, d)
      /\ d \in discover_dataset_names(l \o es) <=> d \in discover_dataset_names(l)
  BY PlainKeeps
<1>2. Cutoff(l, d) \in 0..Len(l) /\ 0 \in 0..Len(l)
  BY CutoffIs
<1>3. CASE d \in discover_dataset_names(l)
  <2>1. /\ Rebuilt(l \o es, d, B) = replay_at({}, l \o es, Since(l \o es, d, Cutoff(l, d)))
        /\ Rebuilt(l, d, B) = replay_at({}, l, Since(l, d, Cutoff(l, d)))
    BY <1>1, <1>3 DEF Rebuilt, replay_dataset
  <2>2. QED
    BY <1>2, <2>1, SinceMore
<1>4. CASE d \notin discover_dataset_names(l)
  <2>1. /\ Rebuilt(l \o es, d, B) = replay_at(B, l \o es, Since(l \o es, d, 0))
        /\ Rebuilt(l, d, B) = replay_at(B, l, Since(l, d, 0))
    BY <1>1, <1>4 DEF Rebuilt, replay_into
  <2>2. QED
    BY <1>2, <2>1, SinceMore
<1>5. QED
  BY <1>3, <1>4

\* A dataset that is created is found, and empty.
LEMMA Created ==
    ASSUME NEW X, NEW l \in Seq(X), NEW e, NEW d, e.op = "CreateDataset", e.name = d, NEW B
    PROVE  /\ d \in discover_dataset_names(Append(l, e))
           /\ Cutoff(Append(l, e), d) = Len(l) + 1
           /\ Rebuilt(Append(l, e), d, B) = {}
<1> DEFINE L == Append(l, e)
           n == Len(l) + 1
<1>1. L \in Seq(X \cup {e}) /\ Len(L) = n /\ n \in 1..n /\ DOMAIN L = 1..n /\ L[n] = e
  OBVIOUS
<1> HIDE DEF L
<1>2. Creates(L, n, d)
  BY <1>1 DEF Creates
<1>3. d \in discover_dataset_names(L)
  <2>1. \A j \in 1..Len(L) : j > n => ~Deletes(L, j, d)
    BY <1>1
  <2>2. QED
    BY <1>1, <1>2, <2>1, DiscoveredIs
<1>4. Cutoff(L, d) = n
  <2>1. Cutoff(L, d) \in 0..Len(L) /\ n <= Cutoff(L, d)
    BY <1>1, <1>2, CutoffIs
  <2>2. QED
    BY <1>1, <2>1
<1>5. replay_dataset(L, d) = {}
  <2>1. \A i \in 1..Len(L) : i \notin Since(L, d, n)
    BY <1>1 DEF Since, entry_dataset
  <2>2. replay_at({}, L, Since(L, d, n)) = {}
    BY <1>1, <2>1, ReplayAtNothing
  <2>3. QED
    BY <1>4, <2>2 DEF replay_dataset
<1>6. QED
  BY <1>3, <1>4, <1>5 DEF Rebuilt, L

\* A dataset that is deleted is not found.
LEMMA Deleted ==
    ASSUME NEW X, NEW l \in Seq(X), NEW e, NEW d, e.op = "DeleteDataset", e.name = d
    PROVE  d \notin discover_dataset_names(Append(l, e))
<1> DEFINE L == Append(l, e)
           n == Len(l) + 1
<1>1. L \in Seq(X \cup {e}) /\ Len(L) = n /\ n \in 1..n /\ DOMAIN L = 1..n /\ L[n] = e
  OBVIOUS
<1> HIDE DEF L
<1>2. Deletes(L, n, d) /\ ~Creates(L, n, d)
  BY <1>1 DEF Creates, Deletes
<1>3. \A i \in 1..Len(L) : Creates(L, i, d) => n > i
  BY <1>1, <1>2
<1>4. QED
  BY <1>1, <1>2, <1>3, DiscoveredIs DEF L

\* A log without registrations of d does not create it.
LEMMA NotCreated ==
    ASSUME NEW X, NEW l \in Seq(X), NEW d, Plain(l, d)
    PROVE  d \notin discover_dataset_names(l) /\ Cutoff(l, d) = 0
<1>1. d \notin discover_dataset_names(l)
  BY DiscoveredIs DEF Plain
<1>2. Cutoff(l, d) = 0
  <2>1. Cutoff(l, d) \in 0..Len(l) /\ (Cutoff(l, d) # 0 => Creates(l, Cutoff(l, d), d))
    BY CutoffIs
  <2>2. QED
    BY <2>1 DEF Plain
<1>3. QED
  BY <1>1, <1>2

-----------------------------------------------------------------------------
(* Compaction                                                                *)

\* The snapshot of one dataset.
LEMMA SnapshotIs ==
    ASSUME NEW X, NEW l \in Seq(X), NEW d, NEW Q, IsFiniteSet(Q)
    PROVE  /\ \E Y : Snapshot(d, Q) \in Seq(Y)
           /\ \A i \in 1..Len(Snapshot(d, Q)) :
                 \/ Snapshot(d, Q)[i] \in InsertEntries(d, Q)
                 \/ d # MainDataset /\ Snapshot(d, Q)[i] = [op |-> "CreateDataset", name |-> d]
           /\ d = MainDataset => l \o Snapshot(d, Q) = l \o SetToSeq(InsertEntries(d, Q))
           /\ d # MainDataset =>
                 l \o Snapshot(d, Q) = Append(l, [op |-> "CreateDataset", name |-> d])
                                         \o SetToSeq(InsertEntries(d, Q))
<1> DEFINE E == InsertEntries(d, Q)
           ins == SetToSeq(E)
           e == [op |-> "CreateDataset", name |-> d]
           one == <<e>>
           s == Snapshot(d, Q)
<1>1. IsFiniteSet(E)
  BY EntriesFinite
<1> HIDE DEF E
<1>2. ins \in Seq(E)
  BY <1>1, Listed
<1>3. s = IF d = MainDataset THEN << >> \o ins ELSE one \o ins
  BY DEF Snapshot, E
<1>4. one \in Seq({e}) /\ Len(one) = 1 /\ one[1] = e /\ Append(l, e) = l \o one
  OBVIOUS
<1> HIDE DEF ins, e, one, s
<1>5. CASE d = MainDataset
  <2>1. s = ins
    BY <1>2, <1>3, <1>5
  <2>2. \A i \in 1..Len(s) : s[i] \in E
    BY <1>2, <2>1
  <2>3. QED
    BY <1>2, <1>5, <2>1, <2>2 DEF s, E, ins
<1>6. CASE d # MainDataset
  <2>1. s = one \o ins
    BY <1>3, <1>6
  <2>2. s \in Seq(E \cup {e})
    BY <1>2, <1>4, <2>1
  <2>3. \A i \in 1..Len(s) : s[i] \in E \/ s[i] = e
    BY <2>2
  <2>4. l \o s = Append(l, e) \o ins
    BY <1>2, <1>4, <2>1
  <2>5. QED
    BY <1>6, <2>2, <2>3, <2>4 DEF s, e, E, ins
<1>7. QED
  BY <1>5, <1>6

\* Entries that insert into d belong to d.
LEMMA InsertsOf ==
    ASSUME NEW d, NEW Q, IsFiniteSet(Q)
    PROVE  /\ SetToSeq(InsertEntries(d, Q)) \in Seq(InsertEntries(d, Q))
           /\ AllOf(SetToSeq(InsertEntries(d, Q)), d)
           /\ \A c : Plain(SetToSeq(InsertEntries(d, Q)), c)
           /\ \A c : c # d => NoneOf(SetToSeq(InsertEntries(d, Q)), c)
           /\ \A S : Replay(S, SetToSeq(InsertEntries(d, Q))) = S \cup Reprs(Q)
<1> DEFINE E == InsertEntries(d, Q)
           es == SetToSeq(E)
<1>1. IsFiniteSet(E)
  BY EntriesFinite
<1>2. \A e \in E : e.op = "InsertQuad" /\ e.dataset = d
  <2> DEFINE ins(q) == [op |-> "InsertQuad", dataset |-> d, quad |-> Repr[q]]
  <2>1. \A q : ins(q).op = "InsertQuad" /\ ins(q).dataset = d
    OBVIOUS
  <2>2. E = {ins(q) : q \in Q}
    BY DEF InsertEntries
  <2> HIDE DEF ins, E
  <2>3. QED
    BY <2>1, <2>2
<1>3. {e.quad : e \in E} = Reprs(Q)
  BY EntryFields
<1> HIDE DEF E
<1>4. es \in Seq(E)
  BY <1>1, Listed
<1>5. \A S : Replay(S, es) = S \cup Reprs(Q)
  BY <1>1, <1>2, <1>3, ReplayInserts
<1> HIDE DEF es
<1>6. \A i \in 1..Len(es) : es[i].op = "InsertQuad" /\ entry_dataset(es[i]) = {d}
  <2> SUFFICES ASSUME NEW i \in 1..Len(es)
               PROVE  es[i].op = "InsertQuad" /\ entry_dataset(es[i]) = {d}
    OBVIOUS
  <2>1. es[i] \in E
    BY <1>4
  <2>2. QED
    BY <1>2, <2>1 DEF entry_dataset
<1>7. AllOf(es, d)
  BY <1>6 DEF AllOf
<1>8. \A c : Plain(es, c)
  BY <1>6 DEF Plain, Creates, Deletes
<1>9. \A c : c # d => NoneOf(es, c)
  BY <1>6 DEF NoneOf
<1>10. QED
  BY <1>4, <1>5, <1>7, <1>8, <1>9 DEF es, E

LEMMA InsertsRebuilt ==
    ASSUME NEW X, NEW l \in Seq(X), NEW d, NEW Q, IsFiniteSet(Q), NEW B,
           d = MainDataset \/ d \in discover_dataset_names(l)
    PROVE  /\ d \in discover_dataset_names(l \o SetToSeq(InsertEntries(d, Q)))
                 <=> d \in discover_dataset_names(l)
           /\ Rebuilt(l \o SetToSeq(InsertEntries(d, Q)), d, B)
                 = Rebuilt(l, d, B) \cup Reprs(Q)
<1> DEFINE es == SetToSeq(InsertEntries(d, Q))
           Y == InsertEntries(d, Q)
<1>1. /\ es \in Seq(Y) /\ AllOf(es, d) /\ Plain(es, d)
      /\ \A S : Replay(S, es) = S \cup Reprs(Q)
  BY InsertsOf
<1> HIDE DEF es, Y
<1>2. d \in discover_dataset_names(l \o es) <=> d \in discover_dataset_names(l)
  BY <1>1, PlainKeeps
<1>3. Rebuilt(l \o es, d, B) = Replay(Rebuilt(l, d, B), es)
  BY <1>1, RebuiltMore
<1>4. QED
  BY <1>1, <1>2, <1>3 DEF es

\* What the snapshot of d adds to a log.
LEMMA SnapshotRebuilt ==
    ASSUME NEW X, NEW l \in Seq(X), NEW d, NEW Q, IsFiniteSet(Q), NEW B
    PROVE  /\ d # MainDataset =>
                 /\ d \in discover_dataset_names(l \o Snapshot(d, Q))
                 /\ Rebuilt(l \o Snapshot(d, Q), d, B) = Reprs(Q)
           /\ d = MainDataset =>
                 /\ d \in discover_dataset_names(l \o Snapshot(d, Q))
                       <=> d \in discover_dataset_names(l)
                 /\ Rebuilt(l \o Snapshot(d, Q), d, B) = Rebuilt(l, d, B) \cup Reprs(Q)
           /\ \A c : c # d => Plain(Snapshot(d, Q), c) /\ NoneOf(Snapshot(d, Q), c)
<1> DEFINE es == SetToSeq(InsertEntries(d, Q))
           Y == InsertEntries(d, Q)
           e == [op |-> "CreateDataset", name |-> d]
           s == Snapshot(d, Q)
<1>1. \A Z, L : L \in Seq(Z) /\ (d = MainDataset \/ d \in discover_dataset_names(L))
          => /\ d \in discover_dataset_names(L \o es) <=> d \in discover_dataset_names(L)
             /\ Rebuilt(L \o es, d, B) = Rebuilt(L, d, B) \cup Reprs(Q)
  BY InsertsRebuilt
<1>2. \A y \in Y : y.op = "InsertQuad" /\ entry_dataset(y) = {d}
  <2> DEFINE ins(q) == [op |-> "InsertQuad", dataset |-> d, quad |-> Repr[q]]
  <2>1. \A q : ins(q).op = "InsertQuad" /\ ins(q).dataset = d
    OBVIOUS
  <2>2. Y = {ins(q) : q \in Q}
    BY DEF InsertEntries
  <2> HIDE DEF ins, Y
  <2>3. QED
    BY <2>1, <2>2 DEF entry_dataset
<1>3. e.op = "CreateDataset" /\ e.name = d /\ entry_dataset(e) = {}
  BY DEF entry_dataset
<1>4. /\ \A i \in 1..Len(s) : s[i] \in Y \/ s[i] = e
      /\ d = MainDataset => l \o s = l \o es
      /\ d # MainDataset => l \o s = Append(l, e) \o es
  BY SnapshotIs
<1> HIDE DEF es, Y, e, s
<1>5. ASSUME NEW c, c # d PROVE Plain(s, c) /\ NoneOf(s, c)
  <2>1. ASSUME NEW i \in 1..Len(s)
        PROVE  ~Creates(s, i, c) /\ ~Deletes(s, i, c) /\ c \notin entry_dataset(s[i])
    <3>1. CASE s[i] \in Y
      BY <1>2, <1>5, <3>1 DEF Creates, Deletes
    <3>2. CASE s[i] = e
      BY <1>3, <1>5, <3>2 DEF Creates, Deletes
    <3>3. QED
      BY <1>4, <3>1, <3>2
  <2>2. QED
    BY <2>1 DEF Plain, NoneOf
<1>6. ASSUME d # MainDataset
      PROVE  d \in discover_dataset_names(l \o s) /\ Rebuilt(l \o s, d, B) = Reprs(Q)
  <2> DEFINE L == Append(l, e)
           Z == X \cup {e}
  <2>1. L \in Seq(Z)
    OBVIOUS
  <2>2. d \in discover_dataset_names(L) /\ Rebuilt(L, d, B) = {}
    BY <1>3, Created
  <2>3. l \o s = L \o es
    BY <1>4, <1>6
  <2> HIDE DEF L, Z
  <2>4. d \in discover_dataset_names(L \o es) /\ Rebuilt(L \o es, d, B) = {} \cup Reprs(Q)
    BY <1>1, <2>1, <2>2
  <2>5. QED
    BY <2>3, <2>4
<1>7. ASSUME d = MainDataset
      PROVE  /\ d \in discover_dataset_names(l \o s) <=> d \in discover_dataset_names(l)
             /\ Rebuilt(l \o s, d, B) = Rebuilt(l, d, B) \cup Reprs(Q)
  BY <1>1, <1>4, <1>7
<1>8. QED
  BY <1>5, <1>6, <1>7 DEF s

\* p[n] holds the snapshots of the first n of the listed datasets.
SnapshotSteps(p, st) ==
    /\ p[0] = << >>
    /\ \A n \in 1..Len(SetToSeq(DOMAIN st)) :
          p[n] = p[n - 1] \o Snapshot(SetToSeq(DOMAIN st)[n], st[SetToSeq(DOMAIN st)[n]])

LEMMA SnapshotsSteps ==
    ASSUME NEW st, IsFiniteSet(DOMAIN st), \A d \in DOMAIN st : IsFiniteSet(st[d])
    PROVE  \E X, p : /\ p \in [0..Len(SetToSeq(DOMAIN st)) -> Seq(X)]
                     /\ SnapshotSteps(p, st)
                     /\ Snapshots(st) = p[Len(SetToSeq(DOMAIN st))]
<1> DEFINE names == SetToSeq(DOMAIN st)
           N == Len(names)
           snap(d) == Snapshot(d, st[d])
           X == UNION {{snap(d)[i] : i \in 1..Len(snap(d))} : d \in DOMAIN st}
           U == Seq(X)
           F == [i \in 1..N |-> [l \in U |-> l \o snap(names[i])]]
           Eq(f) == f = [s \in SUBSET (1..N) |->
                            IF s = {} THEN << >>
                            ELSE f[s \ {Max(s)}] \o snap(names[Max(s)])]
<1>1. names \in Seq(DOMAIN st) /\ N \in Nat /\ DOMAIN names = 1..N
  BY Listed
<1>2. \A d \in DOMAIN st : snap(d) \in U
  <2> SUFFICES ASSUME NEW d \in DOMAIN st PROVE snap(d) \in U
    OBVIOUS
  <2> DEFINE s == snap(d)
  <2>1. << >> \in Seq({})
    OBVIOUS
  <2>2. \E Y : s \in Seq(Y)
    BY <2>1, SnapshotIs
  <2> HIDE DEF s
  <2>3. s \in Seq({s[i] : i \in 1..Len(s)})
    BY <2>2
  <2>4. {s[i] : i \in 1..Len(s)} \subseteq X
    BY DEF s
  <2> HIDE DEF X
  <2>5. s \in Seq(X)
    BY <2>3, <2>4
  <2>6. QED
    BY <2>5 DEF s
<1> HIDE DEF X, snap
<1>3. << >> \in U
  OBVIOUS
<1>4. \A i \in 1..N : names[i] \in DOMAIN st
  BY <1>1
<1>5. F \in [1..N -> [U -> U]]
  <2>1. \A i \in 1..N, l \in U : l \o snap(names[i]) \in U
    BY <1>2, <1>4
  <2>2. QED
    BY <2>1
<1>6. Snapshots(st) = (CHOOSE f : Eq(f))[1..N]
  BY <1>1 DEF Snapshots, FoldLeft, MapThenFoldSet, snap
<1> HIDE DEF N, U, names
<1>7. PICK f \in [SUBSET (1..N) -> U] : IsFold(f, << >>, F, N)
  BY <1>1, <1>3, <1>5, FoldExists
<1>8. \A s \in SUBSET (1..N) : s # {} =>
          Max(s) \in 1..N /\ s \ {Max(s)} \in SUBSET (1..N)
  BY <1>1, WithoutMax
<1>9. \A n \in 1..N, l \in U : F[n][l] = l \o snap(names[n])
  OBVIOUS
<1> HIDE DEF F
<1>10. Eq(f)
  <2>1. ASSUME NEW s \in SUBSET (1..N), s # {}
        PROVE  f[s] = f[s \ {Max(s)}] \o snap(names[Max(s)])
    BY <1>7, <1>8, <1>9, <2>1 DEF IsFold
  <2>2. f[{}] = << >>
    BY <1>7 DEF IsFold
  <2>3. QED
    BY <1>7, <2>1, <2>2
<1> DEFINE h == CHOOSE k : Eq(k)
<1>11. Eq(h)
  BY <1>10
<1>12. FoldsIn(h, << >>, F, N, U)
  <2>1. h[{}] = << >>
    BY <1>11
  <2>2. ASSUME NEW s \in SUBSET (1..N), s # {}, h[s \ {Max(s)}] \in U
        PROVE  h[s] = F[Max(s)][h[s \ {Max(s)}]]
    <3>1. h[s] = h[s \ {Max(s)}] \o snap(names[Max(s)])
      BY <1>11, <2>2
    <3> HIDE DEF h
    <3>2. QED
      BY <1>8, <1>9, <2>2, <3>1
  <2>3. QED
    BY <2>1, <2>2 DEF FoldsIn
<1> HIDE DEF h, Eq
<1>13. PICK p \in [0..N -> U] : Steps(p, << >>, F, N) /\ p[N] = h[1..N]
  BY <1>1, <1>3, <1>5, <1>12, FoldSteps
<1>14. SnapshotSteps(p, st)
  <2>1. \A n \in 1..N : p[n - 1] \in U /\ p[n] = F[n][p[n - 1]]
    BY <1>1, <1>13 DEF Steps
  <2>2. \A n \in 1..N : p[n] = p[n - 1] \o snap(names[n])
    BY <1>9, <2>1
  <2>3. QED
    BY <1>13, <2>2 DEF SnapshotSteps, Steps, N, names, snap
<1>15. p \in [0..N -> Seq(X)]
  BY <1>13 DEF U
<1>16. Snapshots(st) = p[N]
  BY <1>6, <1>13 DEF h
<1>17. QED
  BY <1>14, <1>15, <1>16 DEF N, names

\* What the snapshots make of one dataset.
LEMMA SnapshotsRebuilt ==
    ASSUME NEW st, IsFiniteSet(DOMAIN st), \A c \in DOMAIN st : IsFiniteSet(st[c]),
           NEW d, NEW B
    PROVE  /\ \E X : Snapshots(st) \in Seq(X)
           /\ d \in discover_dataset_names(Snapshots(st))
                 <=> d # MainDataset /\ d \in DOMAIN st
           /\ d \in DOMAIN st \ {MainDataset} =>
                 Rebuilt(Snapshots(st), d, B) = Reprs(st[d])
           /\ d = MainDataset /\ d \in DOMAIN st =>
                 Rebuilt(Snapshots(st), d, B) = B \cup Reprs(st[d])
<1> DEFINE D == DOMAIN st
           names == SetToSeq(D)
           N == Len(names)
<1> HIDE DEF D
<1>1. /\ names \in Seq(D) /\ N \in Nat
      /\ D = {names[i] : i \in 1..N}
      /\ \A i, j \in 1..N : names[i] = names[j] => i = j
  <2>1. IsFiniteSet(D)
    BY DEF D
  <2>2. names \in Seq(D) /\ D = {names[i] : i \in 1..N}
    BY <2>1, Listed
  <2>3. \A i, j \in 1..N : names[i] = names[j] => i = j
    BY <2>1, Listed
  <2>4. QED
    BY <2>2, <2>3
<1>2. PICK X, p : /\ p \in [0..N -> Seq(X)]
                  /\ SnapshotSteps(p, st)
                  /\ Snapshots(st) = p[N]
  BY SnapshotsSteps DEF D
<1>3. /\ p[0] = << >>
      /\ \A n \in 1..N : p[n] = p[n - 1] \o Snapshot(names[n], st[names[n]])
  BY <1>2 DEF SnapshotSteps, D
<1> HIDE DEF names
<1> DEFINE done(n) == \E i \in 1..n : names[i] = d
           Found1(n) == d \in discover_dataset_names(p[n]) <=> d # MainDataset /\ done(n)
           Found2(n) == d # MainDataset /\ done(n) => Rebuilt(p[n], d, B) = Reprs(st[d])
           Found3(n) == d = MainDataset =>
                           Rebuilt(p[n], d, B) = IF done(n) THEN B \cup Reprs(st[d]) ELSE B
           P == {n \in 0..N : Found1(n) /\ Found2(n) /\ Found3(n)}
<1>4. 0 \in P
  <2>1. ~done(0)
    OBVIOUS
  <2>2. << >> \in Seq({}) /\ Len(<< >>) = 0
    OBVIOUS
  <2>3. d \notin discover_dataset_names(p[0])
    <3>1. Plain(<< >>, d)
      BY <2>2 DEF Plain
    <3>2. QED
      BY <1>3, <2>2, <3>1, NotCreated
  <2>4. replay_into(p[0], B) = B
    <3> DEFINE K == Since(<< >>, MainDataset, 0)
    <3>1. \A i \in 1..Len(<< >>) : i \notin K
      BY <2>2
    <3> HIDE DEF K
    <3>2. replay_at(B, << >>, K) = B
      BY <2>2, <3>1, ReplayAtNothing
    <3>3. QED
      BY <1>3, <3>2 DEF replay_into, K
  <2>5. Rebuilt(p[0], d, B) = B
    BY <2>3, <2>4 DEF Rebuilt
  <2>6. QED
    BY <1>1, <2>1, <2>3, <2>5
<1>5. ASSUME NEW n \in 1..N, n - 1 \in P PROVE n \in P
  <2> DEFINE c == names[n]
             l == p[n - 1]
             L == p[n]
             s == Snapshot(c, st[c])
  <2>1. /\ n \in 0..N /\ n - 1 \in 0..N /\ l \in Seq(X) /\ L = l \o s
        /\ c \in DOMAIN st /\ IsFiniteSet(st[c])
    <3>1. n \in 0..N /\ n - 1 \in 0..N
      BY <1>1
    <3>2. c \in D
      BY <1>1
    <3>3. l \in Seq(X) /\ L = l \o s
      BY <1>2, <1>3, <3>1
    <3>4. QED
      BY <3>1, <3>2, <3>3 DEF D
  <2>2. /\ Found1(n - 1) /\ Found2(n - 1) /\ Found3(n - 1)
    BY <1>5
  <2>3. done(n) <=> done(n - 1) \/ c = d
    <3>1. \A i \in 1..n : i \in 1..(n - 1) \/ i = n
      BY <1>1
    <3>2. \A i \in 1..(n - 1) : i \in 1..n
      BY <1>1
    <3>3. n \in 1..n
      BY <1>1
    <3>4. QED
      BY <3>1, <3>2, <3>3
  <2>4. c = d => ~done(n - 1)
    BY <1>1
  <2>5. /\ c # MainDataset =>
              /\ c \in discover_dataset_names(l \o s)
              /\ Rebuilt(l \o s, c, B) = Reprs(st[c])
        /\ c = MainDataset =>
              /\ c \in discover_dataset_names(l \o s) <=> c \in discover_dataset_names(l)
              /\ Rebuilt(l \o s, c, B) = Rebuilt(l, c, B) \cup Reprs(st[c])
        /\ \A x : x # c => Plain(s, x) /\ NoneOf(s, x)
    BY <2>1, SnapshotRebuilt
  <2>6. \E Y : s \in Seq(Y)
    BY <2>1, SnapshotIs
  <2> HIDE DEF done, c, l, L, s
  <2>7. CASE c = d
    <3>1. CASE d # MainDataset
      <4>1. d \in discover_dataset_names(L) /\ Rebuilt(L, d, B) = Reprs(st[d])
        BY <2>1, <2>5, <2>7, <3>1
      <4>2. QED
        BY <2>1, <2>3, <2>7, <3>1, <4>1 DEF L
    <3>2. CASE d = MainDataset
      <4>1. Rebuilt(l, d, B) = B /\ d \notin discover_dataset_names(l)
        BY <2>2, <2>4, <2>7, <3>2 DEF l
      <4>2. d \notin discover_dataset_names(L) /\ Rebuilt(L, d, B) = B \cup Reprs(st[d])
        BY <2>1, <2>5, <2>7, <3>2, <4>1
      <4>3. QED
        BY <2>1, <2>3, <2>7, <3>2, <4>2 DEF L
    <3>3. QED
      BY <3>1, <3>2
  <2>8. CASE c # d
    <3>1. PICK Y : s \in Seq(Y)
      BY <2>6
    <3>2. Plain(s, d) /\ NoneOf(s, d)
      BY <2>5, <2>8
    <3>3. d \in discover_dataset_names(L) <=> d \in discover_dataset_names(l)
      BY <2>1, <3>1, <3>2, PlainKeeps
    <3>4. d = MainDataset \/ d \in discover_dataset_names(l) =>
              Rebuilt(L, d, B) = Rebuilt(l, d, B)
      BY <2>1, <3>1, <3>2, RebuiltMore
    <3>5. done(n) <=> done(n - 1)
      BY <2>3, <2>8
    <3>6. QED
      BY <2>1, <2>2, <3>3, <3>4, <3>5 DEF L, l
  <2>9. QED
    BY <2>7, <2>8
<1>6. N \in P
  <2> HIDE DEF P
  <2>1. \A n \in 0..N : n \in P
    BY <1>1, <1>4, <1>5, BoundedInduction
  <2>2. QED
    BY <1>1, <2>1
<1>7. done(N) <=> d \in DOMAIN st
  BY <1>1 DEF D
<1>8. \E Y : Snapshots(st) \in Seq(Y)
  <2>1. N \in 0..N
    BY <1>1
  <2>2. QED
    BY <1>2, <2>1
<1>9. Found1(N) /\ Found2(N) /\ Found3(N)
  BY <1>6
<1> HIDE DEF done
<1>10. QED
  BY <1>2, <1>7, <1>8, <1>9

\* The snapshots hold creations and inserts only.
SnapshotEntry(e, st) ==
    \E d \in DOMAIN st : \/ e \in InsertEntries(d, st[d])
                         \/ d # MainDataset /\ e = [op |-> "CreateDataset", name |-> d]

LEMMA SnapshotsEntries ==
    ASSUME NEW st, IsFiniteSet(DOMAIN st), \A c \in DOMAIN st : IsFiniteSet(st[c])
    PROVE  \A i \in 1..Len(Snapshots(st)) : SnapshotEntry(Snapshots(st)[i], st)
<1> DEFINE D == DOMAIN st
           names == SetToSeq(D)
           N == Len(names)
<1> HIDE DEF D
<1>1. names \in Seq(D) /\ N \in Nat
  <2>1. IsFiniteSet(D)
    BY DEF D
  <2>2. QED
    BY <2>1, Listed
<1>2. PICK X, p : /\ p \in [0..N -> Seq(X)]
                  /\ SnapshotSteps(p, st)
                  /\ Snapshots(st) = p[N]
  BY SnapshotsSteps DEF D
<1>3. /\ p[0] = << >>
      /\ \A n \in 1..N : p[n] = p[n - 1] \o Snapshot(names[n], st[names[n]])
  BY <1>2 DEF SnapshotSteps, D
<1> HIDE DEF names
<1> DEFINE Good(n) == \A i \in 1..Len(p[n]) : SnapshotEntry(p[n][i], st)
           P == {n \in 0..N : Good(n)}
<1>4. 0 \in P
  BY <1>1, <1>3
<1>5. ASSUME NEW n \in 1..N, n - 1 \in P PROVE n \in P
  <2> DEFINE c == names[n]
             l == p[n - 1]
             s == Snapshot(c, st[c])
  <2>1. n \in 0..N /\ n - 1 \in 0..N /\ c \in D /\ l \in Seq(X) /\ p[n] = l \o s
    <3>1. n \in 0..N /\ n - 1 \in 0..N
      BY <1>1
    <3>2. c \in D
      BY <1>1
    <3>3. l \in Seq(X) /\ p[n] = l \o s
      BY <1>2, <1>3, <3>1
    <3>4. QED
      BY <3>1, <3>2, <3>3
  <2>2. c \in DOMAIN st /\ IsFiniteSet(st[c])
    BY <2>1 DEF D
  <2>3. /\ \E Y : s \in Seq(Y)
        /\ \A i \in 1..Len(s) :
              \/ s[i] \in InsertEntries(c, st[c])
              \/ c # MainDataset /\ s[i] = [op |-> "CreateDataset", name |-> c]
    BY <2>1, <2>2, SnapshotIs
  <2>4. \A i \in 1..Len(s) : SnapshotEntry(s[i], st)
    BY <2>2, <2>3 DEF SnapshotEntry
  <2>5. Good(n - 1)
    BY <1>5
  <2> HIDE DEF s, c
  <2>6. Joins(l \o s, l, s)
    BY <2>1, <2>3, Appended
  <2>7. Good(n)
    <3> SUFFICES ASSUME NEW i \in 1..(Len(l) + Len(s)) PROVE SnapshotEntry((l \o s)[i], st)
      BY <2>1, <2>6 DEF Joins
    <3>1. CASE i \in 1..Len(l)
      BY <2>5, <2>6, <3>1 DEF Joins
    <3>2. CASE \E k \in 1..Len(s) : i = Len(l) + k
      BY <2>4, <2>6, <3>2 DEF Joins
    <3>3. QED
      BY <2>6, <3>1, <3>2 DEF Joins
  <2>8. QED
    BY <2>1, <2>7
<1>6. N \in P
  <2> HIDE DEF P
  <2>1. \A n \in 0..N : n \in P
    BY <1>1, <1>4, <1>5, BoundedInduction
  <2>2. QED
    BY <1>1, <2>1
<1>7. QED
  BY <1>2, <1>6

\* t[n] holds those of the first n entries that are at positions of K.
AtStep(t, l, K) ==
    /\ t[0] = << >>
    /\ \A n \in 1..Len(l) : t[n] = IF n \in K THEN Append(t[n - 1], l[n]) ELSE t[n - 1]

LEMMA AtSteps ==
    ASSUME NEW X, NEW l \in Seq(X), NEW K
    PROVE  \E t : t \in [0..Len(l) -> Seq(X)] /\ AtStep(t, l, K) /\ At(l, K) = t[Len(l)]
<1> DEFINE N == Len(l)
           p == [i \in DOMAIN l |-> i]
           U == Seq(X)
           F == [i \in 1..N |-> [es \in U |-> IF i \in K THEN Append(es, l[i]) ELSE es]]
           Eq(f) == f = [s \in SUBSET DOMAIN p |->
                            IF s = {} THEN << >>
                            ELSE IF p[Max(s)] \in K
                                 THEN Append(f[s \ {Max(s)}], l[p[Max(s)]])
                                 ELSE f[s \ {Max(s)}]]
<1>1. N \in Nat /\ DOMAIN l = 1..N /\ DOMAIN p = 1..N /\ \A i \in 1..N : p[i] = i
  OBVIOUS
<1>2. << >> \in U
  OBVIOUS
<1>3. F \in [1..N -> [U -> U]]
  <2>1. \A i \in 1..N, es \in U : Append(es, l[i]) \in U
    OBVIOUS
  <2>2. QED
    BY <2>1
<1>4. At(l, K) = (CHOOSE f : Eq(f))[DOMAIN p]
  BY DEF At, FoldLeftDomain, FoldLeft, MapThenFoldSet
<1>5. \A s \in SUBSET (1..N) : s # {} =>
          Max(s) \in 1..N /\ s \ {Max(s)} \in SUBSET (1..N) /\ p[Max(s)] = Max(s)
  BY <1>1, WithoutMax
<1> HIDE DEF N, U, p
<1>6. \A i \in 1..N, es \in U : F[i][es] = IF i \in K THEN Append(es, l[i]) ELSE es
  OBVIOUS
<1> HIDE DEF F
<1>7. PICK f \in [SUBSET (1..N) -> U] : IsFold(f, << >>, F, N)
  BY <1>1, <1>2, <1>3, FoldExists
<1>8. Eq(f)
  <2>1. ASSUME NEW s \in SUBSET (1..N), s # {}
        PROVE  f[s] = IF p[Max(s)] \in K
                      THEN Append(f[s \ {Max(s)}], l[p[Max(s)]]) ELSE f[s \ {Max(s)}]
    BY <1>5, <1>6, <1>7, <2>1 DEF IsFold
  <2>2. f[{}] = << >>
    BY <1>7 DEF IsFold
  <2>3. QED
    BY <1>1, <1>7, <2>1, <2>2
<1> DEFINE h == CHOOSE k : Eq(k)
<1>9. Eq(h)
  BY <1>8
<1>10. FoldsIn(h, << >>, F, N, U)
  <2>1. h[{}] = << >>
    BY <1>9
  <2>2. ASSUME NEW s \in SUBSET (1..N), s # {}, h[s \ {Max(s)}] \in U
        PROVE  h[s] = F[Max(s)][h[s \ {Max(s)}]]
    <3>1. h[s] = IF p[Max(s)] \in K
                 THEN Append(h[s \ {Max(s)}], l[p[Max(s)]]) ELSE h[s \ {Max(s)}]
      BY <1>1, <1>9, <2>2
    <3> HIDE DEF h
    <3>2. QED
      BY <1>5, <1>6, <2>2, <3>1
  <2>3. QED
    BY <2>1, <2>2 DEF FoldsIn
<1> HIDE DEF h, Eq
<1>11. PICK t \in [0..N -> U] : Steps(t, << >>, F, N) /\ t[N] = h[1..N]
  BY <1>1, <1>2, <1>3, <1>10, FoldSteps
<1>12. AtStep(t, l, K)
  <2>1. \A n \in 1..N : t[n - 1] \in U /\ t[n] = F[n][t[n - 1]]
    BY <1>1, <1>11 DEF Steps
  <2>2. \A n \in 1..N : t[n] = IF n \in K THEN Append(t[n - 1], l[n]) ELSE t[n - 1]
    BY <1>6, <2>1
  <2>3. QED
    BY <1>11, <2>2 DEF AtStep, Steps, N
<1>13. t \in [0..Len(l) -> Seq(X)]
  BY <1>11 DEF U, N
<1>14. At(l, K) = t[Len(l)]
  BY <1>1, <1>4, <1>11 DEF h, N
<1>15. QED
  BY <1>12, <1>13, <1>14

\* Every entry that is kept is one at a position of K.
LEMMA AtEntries ==
    ASSUME NEW X, NEW l \in Seq(X), NEW K
    PROVE  /\ At(l, K) \in Seq(X)
           /\ \A i \in 1..Len(At(l, K)) : \E k \in K \cap (1..Len(l)) : At(l, K)[i] = l[k]
<1>1. PICK t : t \in [0..Len(l) -> Seq(X)] /\ AtStep(t, l, K) /\ At(l, K) = t[Len(l)]
  BY AtSteps
<1> DEFINE N == Len(l)
           From1(e) == \E k \in K \cap (1..N) : e = l[k]
           P == {n \in 0..N : \A i \in 1..Len(t[n]) : From1(t[n][i])}
<1>2. N \in Nat
  OBVIOUS
<1>3. 0 \in P
  BY <1>1, <1>2 DEF AtStep
<1>4. ASSUME NEW n \in 1..N, n - 1 \in P PROVE n \in P
  <2>1. /\ n \in 0..N /\ n - 1 \in 0..N /\ t[n - 1] \in Seq(X) /\ t[n] \in Seq(X)
        /\ t[n] = IF n \in K THEN Append(t[n - 1], l[n]) ELSE t[n - 1]
    BY <1>1, <1>2 DEF AtStep
  <2>2. \A i \in 1..Len(t[n - 1]) : From1(t[n - 1][i])
    BY <1>4
  <2>3. CASE n \notin K
    BY <2>1, <2>2, <2>3
  <2>4. CASE n \in K
    <3>1. From1(l[n])
      BY <2>4
    <3> HIDE DEF From1
    <3> DEFINE a == t[n - 1]
               b == t[n]
               e == l[n]
    <3>2. b = Append(a, e) /\ a \in Seq(X)
      BY <2>1, <2>4
    <3> HIDE DEF a, b, e
    <3>3. /\ Len(b) = Len(a) + 1
          /\ \A i \in 1..Len(b) : (i \in 1..Len(a) /\ b[i] = a[i]) \/ b[i] = e
      BY <3>2
    <3>4. \A i \in 1..Len(b) : From1(b[i])
      BY <2>2, <3>1, <3>3 DEF a, e
    <3>5. QED
      BY <2>1, <3>4 DEF b
  <2>5. QED
    BY <2>3, <2>4
<1>5. N \in P
  <2> HIDE DEF P
  <2>1. \A n \in 0..N : n \in P
    BY <1>2, <1>3, <1>4, BoundedInduction
  <2>2. QED
    BY <1>2, <2>1
<1>6. t[N] \in Seq(X)
  BY <1>1, <1>2
<1>7. QED
  BY <1>1, <1>5, <1>6

\* What a compacted log L, made of l and the snapshots of st, says.
CompactIs(L, l, st, d, B) ==
    /\ \E Y : L \in Seq(Y)
    /\ \A i \in 1..Len(L) :
          \/ SnapshotEntry(L[i], st)
          \/ \E k \in 1..Len(l) : L[i] = l[k] /\ is_ruleset_entry(l[k])
    /\ d \in discover_dataset_names(L) <=> d # MainDataset /\ d \in DOMAIN st
    /\ d \in DOMAIN st \ {MainDataset} => Rebuilt(L, d, B) = Reprs(st[d])
    /\ d = MainDataset /\ d \in DOMAIN st => Rebuilt(L, d, B) = B \cup Reprs(st[d])

\* A compacted log finds the registered datasets, and makes of each what its
\* snapshot holds.
LEMMA CompactRebuilt ==
    ASSUME NEW X, NEW l \in Seq(X), NEW st, IsFiniteSet(DOMAIN st),
           \A c \in DOMAIN st : IsFiniteSet(st[c]), NEW d, NEW B
    PROVE  CompactIs(compact_multi(l, st), l, st, d, B)
<1> DEFINE S == Snapshots(st)
           K == ruleset_entries(l, DOMAIN st)
           T == At(l, K)
           C == compact_multi(l, st)
<1>1. C = S \o T
  BY DEF compact_multi
<1>2. /\ \E Y : S \in Seq(Y)
      /\ d \in discover_dataset_names(S) <=> d # MainDataset /\ d \in DOMAIN st
      /\ d \in DOMAIN st \ {MainDataset} => Rebuilt(S, d, B) = Reprs(st[d])
      /\ d = MainDataset /\ d \in DOMAIN st => Rebuilt(S, d, B) = B \cup Reprs(st[d])
  BY SnapshotsRebuilt
<1>3. \A i \in 1..Len(S) : SnapshotEntry(S[i], st)
  BY SnapshotsEntries
<1>4. /\ T \in Seq(X)
      /\ \A i \in 1..Len(T) : \E k \in K \cap (1..Len(l)) : T[i] = l[k]
  BY AtEntries
<1>5. \A k \in K : is_ruleset_entry(l[k])
  BY DEF ruleset_entries
<1> HIDE DEF S, K, T, C
<1>6. \A i \in 1..Len(T) : is_ruleset_entry(T[i])
  BY <1>4, <1>5
<1>7. Plain(T, d) /\ NoneOf(T, d)
  BY <1>6 DEF is_ruleset_entry, Plain, NoneOf, Inert, Creates, Deletes
<1>8. PICK Y : S \in Seq(Y)
  BY <1>2
<1>9. d \in discover_dataset_names(C) <=> d \in discover_dataset_names(S)
  BY <1>1, <1>4, <1>7, <1>8, PlainKeeps
<1>10. d = MainDataset \/ d \in discover_dataset_names(S) =>
           Rebuilt(C, d, B) = Rebuilt(S, d, B)
  BY <1>1, <1>4, <1>7, <1>8, RebuiltMore
<1>11. C \in Seq(Y \cup X) /\ Joins(C, S, T)
  BY <1>1, <1>4, <1>8, Appended
<1>12. ASSUME NEW i \in 1..Len(C)
       PROVE  \/ SnapshotEntry(C[i], st)
              \/ \E k \in 1..Len(l) : C[i] = l[k] /\ is_ruleset_entry(l[k])
  <2>1. CASE i \in 1..Len(S)
    BY <1>3, <1>11, <2>1 DEF Joins
  <2>2. CASE \E k \in 1..Len(T) : i = Len(S) + k
    <3>1. PICK k \in 1..Len(T) : i = Len(S) + k
      BY <2>2
    <3>2. C[i] = T[k]
      BY <1>11, <3>1 DEF Joins
    <3>3. QED
      BY <1>4, <1>5, <3>2
  <2>3. QED
    BY <1>11, <2>1, <2>2 DEF Joins
<1>13. QED
  BY <1>2, <1>9, <1>10, <1>11, <1>12 DEF C, CompactIs

-----------------------------------------------------------------------------
(* The entries of an update request                                          *)

\* The entries of one operation, in no order.
OpEntries(ds, op, st) ==
    CASE op.kind = "InsertData" -> InsertEntries(ds, op.quads)
      [] op.kind = "DeleteData" -> DeleteEntries(ds, op.quads)
      [] op.kind = "Clear"      -> ClearLog(ds, op, st)
      [] OTHER                  -> {}

LEMMA PreparedEntries ==
    ASSUME NEW ds, NEW op, NEW st, IsFiniteSet(st.quads),
           op.kind \in {"InsertData", "DeleteData"} => IsFiniteSet(op.quads)
    PROVE  /\ \E Y : prepare_op(ds, op, st) \in Seq(Y)
           /\ OpEntries(ds, op, st) =
                 {prepare_op(ds, op, st)[i] : i \in 1..Len(prepare_op(ds, op, st))}
<1> DEFINE E == OpEntries(ds, op, st)
<1>1. CASE op.kind \in {"InsertData", "DeleteData", "Clear"}
  <2>1. IsFiniteSet(E)
    <3>1. CASE op.kind = "InsertData"
      BY <3>1, EntriesFinite DEF OpEntries
    <3>2. CASE op.kind = "DeleteData"
      BY <3>2, EntriesFinite DEF OpEntries
    <3>3. CASE op.kind = "Clear"
      <4>1. /\ IsFiniteSet(NamedGraphs(st)) /\ IsFiniteSet({Default})
            /\ IsFiniteSet({op.target}) /\ IsFiniteSet({Default} \cup NamedGraphs(st))
        <5>1. IsFiniteSet(NamedGraphs(st))
          BY GraphsFinite
        <5>2. {Default} \cup NamedGraphs(st) = NamedGraphs(st) \cup {Default}
          OBVIOUS
        <5>3. QED
          BY <5>1, <5>2, FS_Singleton, FS_AddElement
      <4>2. /\ IsFiniteSet(ClearEntries(ds, NamedGraphs(st)))
            /\ IsFiniteSet(ClearEntries(ds, {Default}))
            /\ IsFiniteSet(ClearEntries(ds, {op.target}))
            /\ IsFiniteSet(ClearEntries(ds, {Default} \cup NamedGraphs(st)))
        BY <4>1, EntriesFinite
      <4>3. E = ClearLog(ds, op, st)
        BY <3>3 DEF OpEntries
      <4> HIDE DEF E
      <4>4. QED
        BY <4>2, <4>3 DEF ClearLog
    <3>4. QED
      BY <1>1, <3>1, <3>2, <3>3
  <2>2. prepare_op(ds, op, st) = SetToSeq(E)
    BY <1>1 DEF prepare_op, OpEntries
  <2> HIDE DEF E
  <2>3. SetToSeq(E) \in Seq(E) /\ E = {SetToSeq(E)[i] : i \in 1..Len(SetToSeq(E))}
    BY <2>1, Listed
  <2>4. QED
    BY <2>2, <2>3 DEF E
<1>2. CASE op.kind \notin {"InsertData", "DeleteData", "Clear"}
  <2>1. prepare_op(ds, op, st) = << >> /\ E = {}
    BY <1>2 DEF prepare_op, OpEntries
  <2>2. << >> \in Seq({}) /\ Len(<< >>) = 0
    OBVIOUS
  <2> HIDE DEF E
  <2>3. {prepare_op(ds, op, st)[i] : i \in 1..Len(prepare_op(ds, op, st))} = {}
    BY <2>1, <2>2
  <2>4. QED
    BY <2>1, <2>2, <2>3 DEF E
<1>3. QED
  BY <1>1, <1>2

\* ops is a request on quads of Q.
RequestOf(ops, Q) ==
    /\ Len(ops) \in Nat /\ DOMAIN ops = 1..Len(ops)
    /\ \A i \in DOMAIN ops : WellFormed(ops[i], Q)

\* p[n] holds the entries of the first n operations.
PreparedStep(p, ds, ops, st) ==
    /\ p[0] = << >>
    /\ \A n \in 1..Len(ops) : p[n] = p[n - 1] \o prepare_op(ds, ops[n], st)

LEMMA PreparedSteps ==
    ASSUME NEW ds, NEW ops, NEW Q, IsFiniteSet(Q), RequestOf(ops, Q), NEW st,
           st.quads \subseteq Q
    PROVE  \E X, p : /\ p \in [0..Len(ops) -> Seq(X)]
                     /\ PreparedStep(p, ds, ops, st)
                     /\ prepare_update(ds, ops, st) = p[Len(ops)]
                     /\ \A n \in 1..Len(ops) : prepare_op(ds, ops[n], st) \in Seq(X)
<1> DEFINE N == Len(ops)
           es(op) == prepare_op(ds, op, st)
           X == UNION {OpEntries(ds, ops[i], st) : i \in 1..N}
           U == Seq(X)
           F == [i \in 1..N |-> [l \in U |-> l \o es(ops[i])]]
           Eq(f) == f = [s \in SUBSET (1..N) |->
                            IF s = {} THEN << >>
                            ELSE f[s \ {Max(s)}] \o es(ops[Max(s)])]
<1>1. N \in Nat /\ DOMAIN ops = 1..N
  BY DEF RequestOf
<1>2. IsFiniteSet(st.quads)
  BY FS_Subset
<1>3. \A i \in 1..N : ops[i].kind \in {"InsertData", "DeleteData"} => IsFiniteSet(ops[i].quads)
  <2> SUFFICES ASSUME NEW i \in 1..N, ops[i].kind \in {"InsertData", "DeleteData"}
               PROVE  IsFiniteSet(ops[i].quads)
    OBVIOUS
  <2>1. ops[i].quads \subseteq Q
    BY DEF RequestOf, WellFormed
  <2>2. QED
    BY <2>1, FS_Subset
<1>4. \A i \in 1..N : es(ops[i]) \in U
  <2> SUFFICES ASSUME NEW i \in 1..N PROVE es(ops[i]) \in U
    OBVIOUS
  <2> DEFINE s == es(ops[i])
  <2>1. /\ \E Y : s \in Seq(Y)
        /\ OpEntries(ds, ops[i], st) = {s[k] : k \in 1..Len(s)}
    BY <1>2, <1>3, PreparedEntries
  <2>2. OpEntries(ds, ops[i], st) \subseteq X
    OBVIOUS
  <2> HIDE DEF s, X
  <2>3. s \in Seq(X)
    BY <2>1, <2>2
  <2>4. QED
    BY <2>3 DEF s
<1> HIDE DEF X, es
<1>5. << >> \in U
  OBVIOUS
<1>6. F \in [1..N -> [U -> U]]
  <2>1. \A i \in 1..N, l \in U : l \o es(ops[i]) \in U
    BY <1>4
  <2>2. QED
    BY <2>1
<1>7. prepare_update(ds, ops, st) = (CHOOSE f : Eq(f))[1..N]
  BY <1>1 DEF prepare_update, FoldLeft, MapThenFoldSet, es
<1> HIDE DEF N, U
<1>8. PICK f \in [SUBSET (1..N) -> U] : IsFold(f, << >>, F, N)
  BY <1>1, <1>5, <1>6, FoldExists
<1>9. \A s \in SUBSET (1..N) : s # {} =>
          Max(s) \in 1..N /\ s \ {Max(s)} \in SUBSET (1..N)
  BY <1>1, WithoutMax
<1>10. \A n \in 1..N, l \in U : F[n][l] = l \o es(ops[n])
  OBVIOUS
<1> HIDE DEF F
<1>11. Eq(f)
  <2>1. ASSUME NEW s \in SUBSET (1..N), s # {}
        PROVE  f[s] = f[s \ {Max(s)}] \o es(ops[Max(s)])
    BY <1>8, <1>9, <1>10, <2>1 DEF IsFold
  <2>2. f[{}] = << >>
    BY <1>8 DEF IsFold
  <2>3. QED
    BY <1>8, <2>1, <2>2
<1> DEFINE h == CHOOSE k : Eq(k)
<1>12. Eq(h)
  BY <1>11
<1>13. FoldsIn(h, << >>, F, N, U)
  <2>1. h[{}] = << >>
    BY <1>12
  <2>2. ASSUME NEW s \in SUBSET (1..N), s # {}, h[s \ {Max(s)}] \in U
        PROVE  h[s] = F[Max(s)][h[s \ {Max(s)}]]
    <3>1. h[s] = h[s \ {Max(s)}] \o es(ops[Max(s)])
      BY <1>12, <2>2
    <3> HIDE DEF h
    <3>2. QED
      BY <1>9, <1>10, <2>2, <3>1
  <2>3. QED
    BY <2>1, <2>2 DEF FoldsIn
<1> HIDE DEF h, Eq
<1>14. PICK p \in [0..N -> U] : Steps(p, << >>, F, N) /\ p[N] = h[1..N]
  BY <1>1, <1>5, <1>6, <1>13, FoldSteps
<1>15. PreparedStep(p, ds, ops, st)
  <2>1. \A n \in 1..N : p[n - 1] \in U /\ p[n] = F[n][p[n - 1]]
    BY <1>1, <1>14 DEF Steps
  <2>2. \A n \in 1..N : p[n] = p[n - 1] \o es(ops[n])
    BY <1>10, <2>1
  <2>3. QED
    BY <1>14, <2>2 DEF PreparedStep, Steps, N, es
<1>16. p \in [0..N -> Seq(X)] /\ \A n \in 1..N : prepare_op(ds, ops[n], st) \in Seq(X)
  BY <1>4, <1>14 DEF U, es
<1>17. prepare_update(ds, ops, st) = p[N]
  BY <1>7, <1>14 DEF h
<1>18. QED
  BY <1>15, <1>16, <1>17 DEF N

\* The entries of a request are those of its operations.
LEMMA UpdateEntries ==
    ASSUME NEW ds, NEW ops, NEW Q, IsFiniteSet(Q), RequestOf(ops, Q), NEW st,
           st.quads \subseteq Q
    PROVE  /\ \E X : prepare_update(ds, ops, st) \in Seq(X)
           /\ \A e : (\E i \in 1..Len(prepare_update(ds, ops, st)) :
                         e = prepare_update(ds, ops, st)[i])
                     <=> \E k \in 1..Len(ops) : e \in OpEntries(ds, ops[k], st)
<1> DEFINE N == Len(ops)
           es(n) == prepare_op(ds, ops[n], st)
           E(n) == OpEntries(ds, ops[n], st)
<1>1. N \in Nat
  BY DEF RequestOf
<1>2. PICK X, p : /\ p \in [0..N -> Seq(X)]
                  /\ PreparedStep(p, ds, ops, st)
                  /\ prepare_update(ds, ops, st) = p[N]
                  /\ \A n \in 1..N : es(n) \in Seq(X)
  BY PreparedSteps
<1>3. /\ p[0] = << >>
      /\ \A n \in 1..N : p[n] = p[n - 1] \o es(n)
  BY <1>2 DEF PreparedStep
<1>4. \A n \in 1..N : E(n) = {es(n)[i] : i \in 1..Len(es(n))}
  <2> SUFFICES ASSUME NEW n \in 1..N PROVE E(n) = {es(n)[i] : i \in 1..Len(es(n))}
    OBVIOUS
  <2>1. IsFiniteSet(st.quads)
    BY FS_Subset
  <2>2. ops[n].kind \in {"InsertData", "DeleteData"} => ops[n].quads \subseteq Q
    BY DEF RequestOf, WellFormed
  <2>3. ops[n].kind \in {"InsertData", "DeleteData"} => IsFiniteSet(ops[n].quads)
    BY <2>2, FS_Subset
  <2>4. QED
    BY <2>1, <2>3, PreparedEntries
<1> HIDE DEF E, es
<1> DEFINE Holds(n, e) == \E i \in 1..Len(p[n]) : e = p[n][i]
           Says(n, e) == \E k \in 1..n : e \in E(k)
           P == {n \in 0..N : \A e : Holds(n, e) <=> Says(n, e)}
<1>5. 0 \in P
  BY <1>1, <1>3
<1>6. ASSUME NEW n \in 1..N, n - 1 \in P PROVE n \in P
  <2> DEFINE l == p[n - 1]
             s == es(n)
  <2>1. n \in 0..N /\ n - 1 \in 0..N /\ l \in Seq(X) /\ s \in Seq(X) /\ p[n] = l \o s
    <3>1. n \in 0..N /\ n - 1 \in 0..N
      BY <1>1
    <3>2. QED
      BY <1>2, <1>3, <3>1
  <2>2. \A e : Holds(n - 1, e) <=> Says(n - 1, e)
    BY <1>6
  <2>3. \A e : Says(n, e) <=> Says(n - 1, e) \/ e \in E(n)
    <3>1. \A k \in 1..n : k \in 1..(n - 1) \/ k = n
      BY <1>1
    <3>2. \A k \in 1..(n - 1) : k \in 1..n
      BY <1>1
    <3>3. n \in 1..n
      BY <1>1
    <3>4. QED
      BY <3>1, <3>2, <3>3
  <2>4. \A e : e \in E(n) <=> \E i \in 1..Len(s) : e = s[i]
    BY <1>4
  <2>5. Joins(l \o s, l, s)
    BY <2>1, Appended
  <2> HIDE DEF Says, l, s
  <2>6. \A e : (\E i \in 1..Len(l \o s) : e = (l \o s)[i])
                  <=> (\E i \in 1..Len(l) : e = l[i]) \/ (\E i \in 1..Len(s) : e = s[i])
    <3> DEFINE L == l \o s
    <3> HIDE DEF L
    <3>1. Joins(L, l, s)
      BY <2>5 DEF L
    <3>2. \A i \in 1..Len(L) : (\E k \in 1..Len(l) : L[i] = l[k]) \/ \E k \in 1..Len(s) : L[i] = s[k]
      <4> SUFFICES ASSUME NEW i \in 1..Len(L)
                   PROVE  (\E k \in 1..Len(l) : L[i] = l[k]) \/ \E k \in 1..Len(s) : L[i] = s[k]
        OBVIOUS
      <4>1. i \in 1..Len(l) \/ \E k \in 1..Len(s) : i = Len(l) + k
        BY <3>1 DEF Joins
      <4>2. QED
        BY <3>1, <4>1 DEF Joins
    <3>3. \A k \in 1..Len(l) : \E i \in 1..Len(L) : L[i] = l[k]
      BY <3>1 DEF Joins
    <3>4. \A k \in 1..Len(s) : \E i \in 1..Len(L) : L[i] = s[k]
      BY <3>1 DEF Joins
    <3>5. ASSUME NEW e
          PROVE  (\E i \in 1..Len(L) : e = L[i])
                    <=> (\E i \in 1..Len(l) : e = l[i]) \/ (\E i \in 1..Len(s) : e = s[i])
      <4>1. ASSUME NEW i \in 1..Len(L), e = L[i]
            PROVE  (\E k \in 1..Len(l) : e = l[k]) \/ \E k \in 1..Len(s) : e = s[k]
        BY <3>2, <4>1
      <4>2. ASSUME NEW k \in 1..Len(l), e = l[k] PROVE \E i \in 1..Len(L) : e = L[i]
        BY <3>3, <4>2
      <4>3. ASSUME NEW k \in 1..Len(s), e = s[k] PROVE \E i \in 1..Len(L) : e = L[i]
        BY <3>4, <4>3
      <4>4. QED
        BY <4>1, <4>2, <4>3
    <3>6. QED
      BY <3>5 DEF L
  <2>7. \A e : Holds(n, e) <=> Holds(n - 1, e) \/ \E i \in 1..Len(s) : e = s[i]
    BY <2>1, <2>6 DEF l
  <2> HIDE DEF Holds
  <2>8. \A e : Holds(n, e) <=> Says(n, e)
    BY <2>2, <2>3, <2>4, <2>7
  <2>9. QED
    BY <2>1, <2>8
<1>7. N \in P
  <2> HIDE DEF P
  <2>1. \A n \in 0..N : n \in P
    BY <1>1, <1>5, <1>6, BoundedInduction
  <2>2. QED
    BY <1>1, <2>1
<1>8. p[N] \in Seq(X)
  BY <1>1, <1>2
<1>9. QED
  BY <1>2, <1>7, <1>8 DEF E

-----------------------------------------------------------------------------
(* Which quads an update request inserts and removes                         *)

Inserting(op, q) == op.kind = "InsertData" /\ q \in op.quads
Removing(op, q, st) ==
    \/ op.kind = "DeleteData" /\ q \in op.quads
    \/ op.kind = "Clear" /\ q.graph \in LoggedGraphs(op, st)

\* The request does q only one of the two.
OnlyInserts(ops, q, st) ==
    /\ \E i \in 1..Len(ops) : Inserting(ops[i], q)
    /\ \A i \in 1..Len(ops) : ~Removing(ops[i], q, st)
OnlyRemoves(ops, q, st) ==
    /\ \E i \in 1..Len(ops) : Removing(ops[i], q, st)
    /\ \A i \in 1..Len(ops) : ~Inserting(ops[i], q)

\* The entries of an operation decide the quads the operation is about.
LEMMA OpDecides ==
    ASSUME NEW ds, NEW op, WellFormed(op, Quads), NEW st, NEW q \in Faithful(Quads)
    PROVE  /\ (\E e \in OpEntries(ds, op, st) : q \in Decides(e) /\ e.op = "InsertQuad")
                 <=> Inserting(op, q)
           /\ (\E e \in OpEntries(ds, op, st) : q \in Decides(e) /\ e.op # "InsertQuad")
                 <=> Removing(op, q, st)
<1> DEFINE E == OpEntries(ds, op, st)
<1>1. q \in Quads /\ \A p \in Quads : Repr[p] = q <=> p = q
  BY DEF Faithful
<1>2. CASE op.kind = "InsertData"
  <2> DEFINE ins(p) == [op |-> "InsertQuad", dataset |-> ds, quad |-> Repr[p]]
  <2>1. \A p : ins(p).op = "InsertQuad" /\ Decides(ins(p)) = {Repr[p]}
    BY DEF Decides
  <2>2. E = {ins(p) : p \in op.quads}
    BY <1>2 DEF OpEntries, InsertEntries
  <2> HIDE DEF ins, E
  <2>3. \A e \in E : e.op = "InsertQuad"
    BY <2>1, <2>2
  <2>4. op.quads \subseteq Quads
    BY <1>2 DEF WellFormed
  <2>5. (\E e \in E : q \in Decides(e)) <=> q \in op.quads
    <3>1. ASSUME NEW e \in E, q \in Decides(e) PROVE q \in op.quads
      <4>1. PICK p \in op.quads : e = ins(p)
        BY <2>2
      <4>2. Repr[p] = q
        BY <2>1, <3>1, <4>1
      <4>3. QED
        BY <1>1, <2>4, <4>2
    <3>2. ASSUME q \in op.quads PROVE \E e \in E : q \in Decides(e)
      <4>1. Decides(ins(q)) = {q}
        BY <1>1, <2>1
      <4>2. QED
        BY <2>2, <3>2, <4>1
    <3>3. QED
      BY <3>1, <3>2
  <2>6. QED
    BY <1>2, <2>3, <2>5 DEF Inserting, Removing, E
<1>3. CASE op.kind = "DeleteData"
  <2> DEFINE del(p) == [op |-> "DeleteQuad", dataset |-> ds, quad |-> Repr[p]]
  <2>1. \A p : del(p).op = "DeleteQuad" /\ Decides(del(p)) = {Repr[p]}
    BY DEF Decides
  <2>2. E = {del(p) : p \in op.quads}
    BY <1>3 DEF OpEntries, DeleteEntries
  <2> HIDE DEF del, E
  <2>3. \A e \in E : e.op # "InsertQuad"
    BY <2>1, <2>2
  <2>4. op.quads \subseteq Quads
    BY <1>3 DEF WellFormed
  <2>5. (\E e \in E : q \in Decides(e)) <=> q \in op.quads
    <3>1. ASSUME NEW e \in E, q \in Decides(e) PROVE q \in op.quads
      <4>1. PICK p \in op.quads : e = del(p)
        BY <2>2
      <4>2. Repr[p] = q
        BY <2>1, <3>1, <4>1
      <4>3. QED
        BY <1>1, <2>4, <4>2
    <3>2. ASSUME q \in op.quads PROVE \E e \in E : q \in Decides(e)
      <4>1. Decides(del(q)) = {q}
        BY <1>1, <2>1
      <4>2. QED
        BY <2>2, <3>2, <4>1
    <3>3. QED
      BY <3>1, <3>2
  <2>6. QED
    BY <1>3, <2>3, <2>5 DEF Inserting, Removing, E
<1>4. CASE op.kind = "Clear"
  <2> DEFINE clear(g) == [op |-> "ClearGraph", dataset |-> ds, graph |-> g]
             G == LoggedGraphs(op, st)
  <2>1. \A g : clear(g).op = "ClearGraph" /\ Decides(clear(g)) = {p \in Quads : p.graph = g}
    BY DEF Decides
  <2>2. E = {clear(g) : g \in G}
    BY <1>4 DEF OpEntries, ClearLog, LoggedGraphs, ClearEntries
  <2> HIDE DEF clear, E, G
  <2>3. \A e \in E : e.op # "InsertQuad"
    BY <2>1, <2>2
  <2>4. (\E e \in E : q \in Decides(e)) <=> q.graph \in G
    BY <1>1, <2>1, <2>2
  <2>5. QED
    BY <1>4, <2>3, <2>4 DEF Inserting, Removing, E, G
<1>5. CASE op.kind \notin {"InsertData", "DeleteData", "Clear"}
  BY <1>5 DEF OpEntries, Inserting, Removing
<1>6. QED
  BY <1>2, <1>3, <1>4, <1>5

\* A quad that is settled is one the request only inserts or only removes.
LEMMA SettledOneWay ==
    ASSUME NEW ds, NEW ops, IsFiniteSet(Quads), RequestOf(ops, Quads), NEW st,
           st.quads \subseteq Quads, NEW q \in Faithful(Quads),
           q \in Mentioned(prepare_update(ds, ops, st)) \ Clash(prepare_update(ds, ops, st))
    PROVE  OnlyInserts(ops, q, st) \/ OnlyRemoves(ops, q, st)
<1> DEFINE es == prepare_update(ds, ops, st)
           N == Len(ops)
           E(k) == OpEntries(ds, ops[k], st)
<1>1. /\ \E X : es \in Seq(X)
      /\ \A e : (\E i \in 1..Len(es) : e = es[i]) <=> \E k \in 1..N : e \in E(k)
  BY UpdateEntries
<1>2. \A k \in 1..N :
          /\ (\E e \in E(k) : q \in Decides(e) /\ e.op = "InsertQuad") <=> Inserting(ops[k], q)
          /\ (\E e \in E(k) : q \in Decides(e) /\ e.op # "InsertQuad") <=> Removing(ops[k], q, st)
  <2> SUFFICES ASSUME NEW k \in 1..N
               PROVE  /\ (\E e \in E(k) : q \in Decides(e) /\ e.op = "InsertQuad")
                            <=> Inserting(ops[k], q)
                      /\ (\E e \in E(k) : q \in Decides(e) /\ e.op # "InsertQuad")
                            <=> Removing(ops[k], q, st)
    OBVIOUS
  <2>1. WellFormed(ops[k], Quads)
    BY DEF RequestOf
  <2>2. QED
    BY <2>1, OpDecides
<1>3. q \in Mentioned(es) /\ q \notin Clash(es)
  OBVIOUS
<1> HIDE DEF es, E
<1>4. DOMAIN es = 1..Len(es)
  BY <1>1
<1>5. PICK i \in 1..Len(es) : q \in Decides(es[i])
  BY <1>3, <1>4 DEF Mentioned
<1>6. PICK k \in 1..N : es[i] \in E(k)
  BY <1>1
<1>7. ASSUME NEW m \in 1..N, NEW n \in 1..N, Inserting(ops[m], q), Removing(ops[n], q, st)
      PROVE  FALSE
  <2>1. PICK a \in E(m) : q \in Decides(a) /\ a.op = "InsertQuad"
    BY <1>2, <1>7
  <2>2. PICK b \in E(n) : q \in Decides(b) /\ b.op # "InsertQuad"
    BY <1>2, <1>7
  <2>3. PICK x \in 1..Len(es) : a = es[x]
    BY <1>1, <2>1
  <2>4. PICK y \in 1..Len(es) : b = es[y]
    BY <1>1, <2>2
  <2>5. q \in Quads
    BY DEF Faithful
  <2>6. QED
    BY <1>3, <1>4, <2>1, <2>2, <2>3, <2>4, <2>5 DEF Clash
<1>8. Inserting(ops[k], q) \/ Removing(ops[k], q, st)
  BY <1>2, <1>5, <1>6
<1>9. QED
  BY <1>7, <1>8 DEF OnlyInserts, OnlyRemoves

\* A request without LOAD does not fail and only takes away from the live store.
LEMMA CollectShrinks ==
    ASSUME NEW ops, IsFiniteSet(Quads), RequestOf(ops, Quads), NEW S \in SUBSET Quads,
           \A i \in 1..Len(ops) : ops[i].kind # "LoadGraph"
    PROVE  /\ ~Collect([quads |-> S, generation |-> 0], ops).failed
           /\ Collect([quads |-> S, generation |-> 0], ops).store.quads \subseteq S
<1> DEFINE st == [quads |-> S, generation |-> 0]
           N == Len(ops)
<1>1. N \in Nat /\ DOMAIN ops = 1..N /\ \A i \in DOMAIN ops : WellFormed(ops[i], Quads)
  BY DEF RequestOf
<1>2. st \in From(Quads, 0) /\ st.quads = S
  BY DEF From, Store
<1>3. PICK u \in [0..N -> Progressing(Quads, 0)] :
          CollectStep(u, st, ops) /\ Collect(st, ops) = u[N]
  <2> HIDE DEF st
  <2>1. 0 \in Nat
    OBVIOUS
  <2>2. QED
    BY <1>1, <1>2, <2>1, CollectSteps
<1> HIDE DEF st
<1> DEFINE P == {n \in 0..N : ~u[n].failed /\ u[n].store.quads \subseteq S}
<1>4. 0 \in P
  BY <1>1, <1>2, <1>3 DEF CollectStep, Start
<1>5. ASSUME NEW n \in 1..N, n - 1 \in P PROVE n \in P
  <2> DEFINE op == ops[n]
  <2>0. n \in 0..N /\ n - 1 \in 0..N
    BY <1>1
  <2>1. /\ u[n - 1] \in Progressing(Quads, 0) /\ u[n] = ApplyOp(u[n - 1], op)
        /\ ~u[n - 1].failed /\ u[n - 1].store.quads \subseteq S
    BY <1>3, <1>5, <2>0 DEF CollectStep
  <2>2. PICK v \in Progressing(Quads, 0) : v = u[n - 1]
    BY <2>1
  <2>3. ~v.failed /\ v.store.quads \subseteq S /\ u[n] = ApplyOp(v, op) /\ op.kind # "LoadGraph"
    BY <2>1, <2>2
  <2> HIDE DEF op
  <2>4. \/ ApplyOp(v, op) = v
        \/ ApplyOp(v, op) = ApplyInsertData(v, op)
        \/ ApplyOp(v, op) = ApplyDeleteData(v, op)
        \/ ApplyOp(v, op) = ApplyClear(v, op)
        \/ ApplyOp(v, op) = ApplyPatternUpdate(v, op)
    BY <2>3 DEF ApplyOp
  <2>5. /\ ApplyInsertData(v, op).store = v.store
        /\ ApplyDeleteData(v, op).store = v.store
        /\ ApplyPatternUpdate(v, op).store = v.store
        /\ ApplyClear(v, op).store = RemoveGraphs(v.store, ClearTargets(op, v.store))
        /\ ApplyInsertData(v, op).failed = v.failed
        /\ ApplyDeleteData(v, op).failed = v.failed
        /\ ApplyPatternUpdate(v, op).failed = v.failed
        /\ ApplyClear(v, op).failed = v.failed
    BY <2>2 DEF ApplyInsertData, ApplyDeleteData, ApplyPatternUpdate, ApplyClear, Progressing
  <2>6. RemoveGraphs(v.store, ClearTargets(op, v.store)).quads \subseteq v.store.quads
    BY DEF RemoveGraphs
  <2>7. ~u[n].failed /\ u[n].store.quads \subseteq S
    BY <2>3, <2>4, <2>5, <2>6
  <2>8. QED
    BY <2>0, <2>7
<1>6. N \in P
  <2> HIDE DEF P
  <2>1. \A n \in 0..N : n \in P
    BY <1>1, <1>4, <1>5, BoundedInduction
  <2>2. QED
    BY <1>1, <2>1
<1>7. QED
  BY <1>3, <1>6 DEF st

\* What the request does to a quad in memory.
LEMMA CollectSettles ==
    ASSUME NEW ops, IsFiniteSet(Quads), RequestOf(ops, Quads), NEW S \in SUBSET Quads,
           \A i \in 1..Len(ops) : ops[i].kind \notin {"PatternUpdate", "LoadGraph"},
           NEW q
    PROVE  LET st == [quads |-> S, generation |-> 0]
               d == Collect(st, ops)
           IN  /\ OnlyInserts(ops, q, st) => q \in d.pending_inserts \ d.pending_deletes
               /\ OnlyRemoves(ops, q, st) =>
                     /\ q \notin d.pending_inserts
                     /\ q \in d.store.quads => q \in d.pending_deletes
<1> DEFINE st == [quads |-> S, generation |-> 0]
           N == Len(ops)
<1>1. N \in Nat /\ DOMAIN ops = 1..N /\ \A i \in DOMAIN ops : WellFormed(ops[i], Quads)
  BY DEF RequestOf
<1>2. st \in From(Quads, 0) /\ st.quads = S
  BY DEF From, Store
<1>3. PICK u \in [0..N -> Progressing(Quads, 0)] :
          CollectStep(u, st, ops) /\ Collect(st, ops) = u[N]
  <2> HIDE DEF st
  <2>1. 0 \in Nat
    OBVIOUS
  <2>2. QED
    BY <1>1, <1>2, <2>1, CollectSteps
<1> HIDE DEF st
<1> DEFINE Ins(n) == \E i \in 1..n : Inserting(ops[i], q)
           Rem(n) == \E i \in 1..n : Removing(ops[i], q, st)
           P == {n \in 0..N :
                   /\ ~u[n].failed
                   /\ u[n].store.quads \subseteq S
                   /\ q \in u[n].pending_inserts <=> Ins(n)
                   /\ q \in u[n].pending_deletes => Rem(n)
                   /\ Rem(n) /\ ~Ins(n) /\ q \in u[n].store.quads
                        => q \in u[n].pending_deletes}
<1>4. 0 \in P
  BY <1>1, <1>2, <1>3 DEF CollectStep, Start
<1>5. ASSUME NEW n \in 1..N, n - 1 \in P PROVE n \in P
  <2> DEFINE op == ops[n]
  <2>0. n \in 0..N /\ n - 1 \in 0..N
    BY <1>1
  <2>1. PICK v \in Progressing(Quads, 0) : v = u[n - 1]
    BY <1>3, <2>0
  <2>2. u[n] = ApplyOp(v, op)
    BY <1>3, <2>0, <2>1 DEF CollectStep
  <2>3. /\ ~v.failed /\ v.store.quads \subseteq S
        /\ q \in v.pending_inserts <=> Ins(n - 1)
        /\ q \in v.pending_deletes => Rem(n - 1)
        /\ Rem(n - 1) /\ ~Ins(n - 1) /\ q \in v.store.quads => q \in v.pending_deletes
    BY <1>5, <2>1
  <2>4. /\ Ins(n) <=> Ins(n - 1) \/ Inserting(op, q)
        /\ Rem(n) <=> Rem(n - 1) \/ Removing(op, q, st)
    <3>1. \A k \in 1..n : k \in 1..(n - 1) \/ k = n
      BY <1>1
    <3>2. \A k \in 1..(n - 1) : k \in 1..n
      BY <1>1
    <3>3. n \in 1..n
      BY <1>1
    <3>4. QED
      BY <3>1, <3>2, <3>3
  <2>5. op.kind \notin {"PatternUpdate", "LoadGraph"}
    OBVIOUS
  <2> HIDE DEF op, Ins, Rem
  <2>6. CASE op.kind = "InsertData"
    <3>1. u[n] = ApplyInsertData(v, op)
      BY <2>2, <2>3, <2>6 DEF ApplyOp
    <3>2. /\ ~u[n].failed /\ u[n].store = v.store /\ u[n].pending_deletes = v.pending_deletes
          /\ u[n].pending_inserts = v.pending_inserts \cup op.quads
      BY <2>1, <2>3, <3>1 DEF ApplyInsertData, Progressing
    <3>3. (Inserting(op, q) <=> q \in op.quads) /\ ~Removing(op, q, st)
      BY <2>6 DEF Inserting, Removing
    <3>4. QED
      BY <2>0, <2>3, <2>4, <3>2, <3>3
  <2>7. CASE op.kind = "DeleteData"
    <3>1. u[n] = ApplyDeleteData(v, op)
      BY <2>2, <2>3, <2>7 DEF ApplyOp
    <3>2. /\ ~u[n].failed /\ u[n].store = v.store /\ u[n].pending_inserts = v.pending_inserts
          /\ u[n].pending_deletes = v.pending_deletes
                 \cup (op.quads \cap (v.store.quads \cup v.pending_inserts))
      BY <2>1, <2>3, <3>1 DEF ApplyDeleteData, Progressing
    <3>3. (Removing(op, q, st) <=> q \in op.quads) /\ ~Inserting(op, q)
      BY <2>7 DEF Inserting, Removing
    <3>4. QED
      BY <2>0, <2>3, <2>4, <3>2, <3>3
  <2>8. CASE op.kind = "Clear"
    <3>1. u[n] = ApplyClear(v, op)
      BY <2>2, <2>3, <2>8 DEF ApplyOp
    <3>2. /\ ~u[n].failed /\ u[n].pending_inserts = v.pending_inserts
          /\ u[n].pending_deletes = v.pending_deletes
          /\ u[n].store = RemoveGraphs(v.store, ClearTargets(op, v.store))
      BY <2>1, <2>3, <3>1 DEF ApplyClear, Progressing
    <3>3. u[n].store.quads = {p \in v.store.quads : p.graph \notin ClearTargets(op, v.store)}
      BY <3>2 DEF RemoveGraphs
    <3>4. (Removing(op, q, st) <=> q.graph \in LoggedGraphs(op, st)) /\ ~Inserting(op, q)
      BY <2>8 DEF Inserting, Removing
    <3>5. q \in v.store.quads => q.graph \in GraphsOf(v.store)
      BY DEF GraphsOf
    <3>6. q \in v.store.quads /\ q.graph \in LoggedGraphs(op, st)
              => q.graph \in ClearTargets(op, v.store)
      BY <3>5 DEF LoggedGraphs, ClearTargets, NamedGraphs
    <3>7. QED
      BY <2>0, <2>3, <2>4, <3>2, <3>3, <3>4, <3>6
  <2>9. CASE op.kind \notin {"InsertData", "DeleteData", "Clear"}
    <3>1. u[n] = v
      BY <2>2, <2>5, <2>9 DEF ApplyOp
    <3>2. ~Inserting(op, q) /\ ~Removing(op, q, st)
      BY <2>9 DEF Inserting, Removing
    <3>3. QED
      BY <2>0, <2>3, <2>4, <3>1, <3>2
  <2>10. QED
    BY <2>6, <2>7, <2>8, <2>9
<1>6. N \in P
  <2> HIDE DEF P
  <2>1. \A n \in 0..N : n \in P
    BY <1>1, <1>4, <1>5, BoundedInduction
  <2>2. QED
    BY <1>1, <2>1
<1>7. QED
  BY <1>3, <1>6 DEF st, OnlyInserts, OnlyRemoves

\* Replay decides nothing about a quad that no entry mentions.
LEMMA ReplayUnmentioned ==
    ASSUME NEW X, NEW es \in Seq(X), NEW S, NEW q \in Quads, q \notin Mentioned(es)
    PROVE  q \in Replay(S, es) <=> q \in S
<1> DEFINE N == Len(es)
<1>1. PICK g : Replays(g, S, es) /\ Replay(S, es) = g[N]
  BY ReplaySteps
<1> DEFINE P == {n \in 0..N : q \in g[n] <=> q \in S}
<1>2. N \in Nat /\ DOMAIN es = 1..N
  OBVIOUS
<1>3. 0 \in P
  BY <1>1, <1>2 DEF Replays
<1>4. ASSUME NEW n \in 1..N, n - 1 \in P PROVE n \in P
  <2> DEFINE e == es[n]
             T == g[n - 1]
  <2>1. g[n] = apply_entry(T, e) /\ n \in 0..N
    BY <1>1, <1>2 DEF Replays
  <2>2. q \notin Decides(e)
    BY <1>2 DEF Mentioned
  <2>3. q \in T <=> q \in S
    BY <1>4
  <2> HIDE DEF T, e
  <2>4. q \in apply_entry(T, e) <=> q \in T
    BY <2>2 DEF Decides, apply_entry
  <2>5. QED
    BY <2>1, <2>3, <2>4
<1>5. N \in P
  <2> HIDE DEF P
  <2>1. \A n \in 0..N : n \in P
    BY <1>2, <1>3, <1>4, BoundedInduction
  <2>2. QED
    BY <1>2, <2>1
<1>6. QED
  BY <1>1, <1>5

\* What the entries of the request do to a quad in the log.
LEMMA ReplaySettles ==
    ASSUME NEW ds, NEW ops, IsFiniteSet(Quads), RequestOf(ops, Quads), NEW st,
           st.quads \subseteq Quads, NEW q \in Faithful(Quads), NEW S
    PROVE  /\ OnlyInserts(ops, q, st) => q \in Replay(S, prepare_update(ds, ops, st))
           /\ OnlyRemoves(ops, q, st) => q \notin Replay(S, prepare_update(ds, ops, st))
<1> DEFINE N == Len(ops)
           es(n) == prepare_op(ds, ops[n], st)
<1>1. N \in Nat /\ IsFiniteSet(st.quads)
  BY FS_Subset DEF RequestOf
<1>2. PICK X, p : /\ p \in [0..N -> Seq(X)]
                  /\ PreparedStep(p, ds, ops, st)
                  /\ prepare_update(ds, ops, st) = p[N]
                  /\ \A n \in 1..N : es(n) \in Seq(X)
  BY PreparedSteps
<1>3. p[0] = << >> /\ \A n \in 1..N : p[n] = p[n - 1] \o es(n)
  BY <1>2 DEF PreparedStep
<1> DEFINE Ins(n) == \E i \in 1..n : Inserting(ops[i], q)
           Rem(n) == \E i \in 1..n : Removing(ops[i], q, st)
           R(n) == Replay(S, p[n])
           P == {n \in 0..N : /\ Ins(n) /\ ~Rem(n) => q \in R(n)
                              /\ Rem(n) /\ ~Ins(n) => q \notin R(n)}
<1>4. 0 \in P
  BY <1>1
<1>5. ASSUME NEW n \in 1..N, n - 1 \in P PROVE n \in P
  <2> DEFINE op == ops[n]
             l == p[n - 1]
             s == es(n)
             T == Replay(S, l)
  <2>1. n \in 0..N /\ n - 1 \in 0..N
    BY <1>1
  <2>2. l \in Seq(X) /\ s \in Seq(X) /\ p[n] = l \o s
    BY <1>2, <1>3, <2>1
  <2>3. Replay(S, l \o s) = Replay(T, s)
    BY <2>2, ReplayConcat
  <2>4. WellFormed(op, Quads)
    BY DEF RequestOf
  <2>5. op.kind \in {"InsertData", "DeleteData"} => IsFiniteSet(op.quads) /\ op.quads \subseteq Quads
    BY <2>4, FS_Subset DEF WellFormed
  <2>6. /\ op.kind = "InsertData" => Replay(T, s) = T \cup Reprs(op.quads)
        /\ op.kind = "DeleteData" => Replay(T, s) = T \ Reprs(op.quads)
        /\ op.kind = "Clear" =>
              Replay(T, s) = {x \in T : x.graph \notin LoggedGraphs(op, st)}
        /\ op.kind \notin {"InsertData", "DeleteData", "Clear"} => Replay(T, s) = T
    BY <1>1, <2>5, PreparedEffect
  <2>7. op.kind \in {"InsertData", "DeleteData"} => (q \in Reprs(op.quads) <=> q \in op.quads)
    BY <2>5 DEF Faithful, Reprs
  <2>8. /\ Ins(n) <=> Ins(n - 1) \/ Inserting(op, q)
        /\ Rem(n) <=> Rem(n - 1) \/ Removing(op, q, st)
    <3>1. \A k \in 1..n : k \in 1..(n - 1) \/ k = n
      BY <1>1
    <3>2. \A k \in 1..(n - 1) : k \in 1..n
      BY <1>1
    <3>3. n \in 1..n
      BY <1>1
    <3>4. QED
      BY <3>1, <3>2, <3>3
  <2>9. /\ Ins(n - 1) /\ ~Rem(n - 1) => q \in T
        /\ Rem(n - 1) /\ ~Ins(n - 1) => q \notin T
    BY <1>5
  <2>10. R(n) = Replay(T, s)
    BY <2>2, <2>3
  <2> HIDE DEF op, l, s, T, Ins, Rem, R, es
  <2>11. CASE op.kind = "InsertData"
    BY <2>1, <2>6, <2>7, <2>8, <2>9, <2>10, <2>11 DEF Inserting, Removing
  <2>12. CASE op.kind = "DeleteData"
    BY <2>1, <2>6, <2>7, <2>8, <2>9, <2>10, <2>12 DEF Inserting, Removing
  <2>13. CASE op.kind = "Clear"
    BY <2>1, <2>6, <2>8, <2>9, <2>10, <2>13 DEF Inserting, Removing
  <2>14. CASE op.kind \notin {"InsertData", "DeleteData", "Clear"}
    BY <2>1, <2>6, <2>8, <2>9, <2>10, <2>14 DEF Inserting, Removing
  <2>15. QED
    BY <2>11, <2>12, <2>13, <2>14
<1>6. N \in P
  <2> HIDE DEF P
  <2>1. \A n \in 0..N : n \in P
    BY <1>1, <1>4, <1>5, BoundedInduction
  <2>2. QED
    BY <1>1, <2>1
<1>7. QED
  BY <1>2, <1>6 DEF OnlyInserts, OnlyRemoves

-----------------------------------------------------------------------------
(* What a write handler logs and leaves in the store                         *)

\* e is about the quads of d.
OwnEntry(e, d) ==
    /\ e.op \in {"InsertQuad", "DeleteQuad", "ClearGraph"}
    /\ e.dataset = d
    /\ e.op # "ClearGraph" => e.quad \in Quads

OwnEntries(es, d) ==
    /\ \E X : es \in Seq(X)
    /\ \A i \in 1..Len(es) : OwnEntry(es[i], d)

LEMMA OwnPlain ==
    ASSUME NEW es, NEW d, OwnEntries(es, d)
    PROVE  /\ AllOf(es, d)
           /\ \A c : Plain(es, c)
           /\ \A c : c # d => NoneOf(es, c)
<1>1. \A i \in 1..Len(es) : /\ es[i].op \notin {"CreateDataset", "DeleteDataset"}
                            /\ entry_dataset(es[i]) = {d}
  BY DEF OwnEntries, OwnEntry, entry_dataset
<1>2. AllOf(es, d)
  BY <1>1 DEF AllOf
<1>3. \A c : Plain(es, c)
  BY <1>1 DEF Plain, Creates, Deletes
<1>4. \A c : c # d => NoneOf(es, c)
  BY <1>1 DEF NoneOf
<1>5. QED
  BY <1>2, <1>3, <1>4

LEMMA OwnSets ==
    ASSUME PersistenceAssumption, NEW d, NEW Q
    PROVE  /\ Q \subseteq Quads => \A e \in InsertEntries(d, Q) : OwnEntry(e, d)
           /\ Q \subseteq Quads => \A e \in DeleteEntries(d, Q) : OwnEntry(e, d)
           /\ \A e \in ClearEntries(d, Q) : OwnEntry(e, d)
           /\ \A e \in InsertEntries(d, Q) : Decides(e) \subseteq Reprs(Q)
           /\ \A e \in ClearEntries(d, Q) : Decides(e) \subseteq {q \in Quads : q.graph \in Q}
<1> DEFINE ins(q) == [op |-> "InsertQuad", dataset |-> d, quad |-> Repr[q]]
           del(q) == [op |-> "DeleteQuad", dataset |-> d, quad |-> Repr[q]]
           clear(g) == [op |-> "ClearGraph", dataset |-> d, graph |-> g]
<1>1. \A q \in Quads : OwnEntry(ins(q), d) /\ OwnEntry(del(q), d)
  BY DEF OwnEntry, PersistenceAssumption
<1>2. \A g : OwnEntry(clear(g), d) /\ Decides(clear(g)) = {q \in Quads : q.graph = g}
  BY DEF OwnEntry, Decides
<1>3. \A q : Decides(ins(q)) = {Repr[q]}
  BY DEF Decides
<1>4. /\ InsertEntries(d, Q) = {ins(q) : q \in Q}
      /\ DeleteEntries(d, Q) = {del(q) : q \in Q}
      /\ ClearEntries(d, Q) = {clear(g) : g \in Q}
  BY DEF InsertEntries, DeleteEntries, ClearEntries
<1> HIDE DEF ins, del, clear
<1>5. Q \subseteq Quads => \A e \in InsertEntries(d, Q) : OwnEntry(e, d)
  BY <1>1, <1>4
<1>6. Q \subseteq Quads => \A e \in DeleteEntries(d, Q) : OwnEntry(e, d)
  BY <1>1, <1>4
<1>7. \A e \in ClearEntries(d, Q) : OwnEntry(e, d)
  BY <1>2, <1>4
<1>8. \A e \in InsertEntries(d, Q) : Decides(e) \subseteq Reprs(Q)
  BY <1>3, <1>4 DEF Reprs
<1>9. \A e \in ClearEntries(d, Q) : Decides(e) \subseteq {q \in Quads : q.graph \in Q}
  BY <1>2, <1>4
<1>10. QED
  BY <1>5, <1>6, <1>7, <1>8, <1>9

\* A set of entries, listed.
LEMMA OwnListed ==
    ASSUME NEW d, NEW E, IsFiniteSet(E), \A e \in E : OwnEntry(e, d), NEW D,
           \A e \in E : Decides(e) \subseteq D
    PROVE  OwnEntries(SetToSeq(E), d) /\ Mentioned(SetToSeq(E)) \subseteq D
<1> DEFINE es == SetToSeq(E)
<1>1. es \in Seq(E)
  BY Listed
<1> HIDE DEF es
<1>2. DOMAIN es = 1..Len(es) /\ \A i \in 1..Len(es) : es[i] \in E
  BY <1>1
<1>3. OwnEntries(es, d)
  BY <1>1, <1>2 DEF OwnEntries
<1>4. Mentioned(es) \subseteq D
  BY <1>2 DEF Mentioned
<1>5. QED
  BY <1>3, <1>4 DEF es

LEMMA OwnJoined ==
    ASSUME NEW d, NEW a, NEW b, OwnEntries(a, d), OwnEntries(b, d)
    PROVE  /\ OwnEntries(a \o b, d)
           /\ \A q \in Mentioned(a \o b) : q \in Mentioned(a) \/ q \in Mentioned(b)
<1>1. PICK X : a \in Seq(X)
  BY DEF OwnEntries
<1>2. PICK Y : b \in Seq(Y)
  BY DEF OwnEntries
<1> DEFINE L == a \o b
<1>3. L \in Seq(X \cup Y) /\ Joins(L, a, b)
  BY <1>1, <1>2, Appended
<1> HIDE DEF L
<1>4. \A i \in 1..Len(L) : (\E k \in 1..Len(a) : L[i] = a[k]) \/ \E k \in 1..Len(b) : L[i] = b[k]
  <2> SUFFICES ASSUME NEW i \in 1..Len(L)
               PROVE  (\E k \in 1..Len(a) : L[i] = a[k]) \/ \E k \in 1..Len(b) : L[i] = b[k]
    OBVIOUS
  <2>1. i \in 1..Len(a) \/ \E k \in 1..Len(b) : i = Len(a) + k
    BY <1>3 DEF Joins
  <2>2. QED
    BY <1>3, <2>1 DEF Joins
<1>5. OwnEntries(L, d)
  <2>1. ASSUME NEW i \in 1..Len(L) PROVE OwnEntry(L[i], d)
    BY <1>4 DEF OwnEntries
  <2>2. QED
    BY <1>3, <2>1 DEF OwnEntries
<1>6. DOMAIN L = 1..Len(L) /\ DOMAIN a = 1..Len(a) /\ DOMAIN b = 1..Len(b)
  BY <1>1, <1>2, <1>3
<1>7. ASSUME NEW q \in Mentioned(L) PROVE q \in Mentioned(a) \/ q \in Mentioned(b)
  <2>1. PICK i \in 1..Len(L) : q \in Decides(L[i])
    BY <1>6 DEF Mentioned
  <2>2. QED
    BY <1>4, <1>6, <2>1 DEF Mentioned
<1>8. QED
  BY <1>5, <1>7 DEF L

\* The entries of a request are all about its dataset.
LEMMA UpdateOwn ==
    ASSUME PersistenceAssumption, NEW ds, NEW ops, RequestOf(ops, Quads), NEW st,
           st.quads \subseteq Quads
    PROVE  OwnEntries(prepare_update(ds, ops, st), ds)
<1> DEFINE es == prepare_update(ds, ops, st)
           E(k) == OpEntries(ds, ops[k], st)
<1>1. IsFiniteSet(Quads)
  BY DEF PersistenceAssumption
<1>2. /\ \E X : es \in Seq(X)
      /\ \A e : (\E i \in 1..Len(es) : e = es[i]) <=> \E k \in 1..Len(ops) : e \in E(k)
  BY <1>1, UpdateEntries
<1>3. \A k \in 1..Len(ops) : \A e \in E(k) : OwnEntry(e, ds)
  <2> SUFFICES ASSUME NEW k \in 1..Len(ops), NEW e \in E(k) PROVE OwnEntry(e, ds)
    OBVIOUS
  <2> DEFINE op == ops[k]
  <2>1. op.kind \in {"InsertData", "DeleteData"} => op.quads \subseteq Quads
    BY DEF RequestOf, WellFormed
  <2>2. e \in OpEntries(ds, op, st)
    OBVIOUS
  <2> HIDE DEF op, E
  <2>3. \/ op.kind = "InsertData" /\ e \in InsertEntries(ds, op.quads)
        \/ op.kind = "DeleteData" /\ e \in DeleteEntries(ds, op.quads)
        \/ e \in ClearLog(ds, op, st)
    BY <2>2 DEF OpEntries
  <2>4. ClearLog(ds, op, st) = ClearEntries(ds, LoggedGraphs(op, st))
    BY DEF ClearLog, LoggedGraphs
  <2>5. QED
    BY <2>1, <2>3, <2>4, OwnSets
<1> HIDE DEF es, E
<1>4. \A i \in 1..Len(es) : OwnEntry(es[i], ds)
  BY <1>2, <1>3
<1>5. QED
  BY <1>2, <1>4 DEF OwnEntries, es

\* What holds of every outcome: the handler logs entries of its own dataset,
\* memory and log agree about the settled quads, and if the reasoner was asked
\* the store does not gain a contradiction.
Written(o, d, s) ==
    /\ OwnEntries(o.entries, d)
    /\ o.quads \subseteq Quads
    /\ \A S : \A q \in o.settled \cap Faithful(Quads) :
          q \in o.quads <=> q \in Replay(S, o.entries)
    /\ o.checked => o.quads \subseteq s.quads \/ ~Contradiction(s.rules.active, o.quads)

LEMMA UpdateWritten ==
    ASSUME PersistenceAssumption, NEW d, NEW ops \in Updates, NEW s, s.quads \subseteq Quads
    PROVE  Written(Update(d, ops, s), d, s)
<1> DEFINE st == [quads |-> s.quads, generation |-> 0]
           es == prepare_update(d, ops, st)
           u == Collect(st, ops)
           ND == NetDeletes(u)
           NI == NetInserts(u)
           applied == Finish(u).quads
           loads == \E i \in DOMAIN ops : ops[i].kind = "LoadGraph"
           lg == \A i \in DOMAIN ops : ops[i].kind \notin {"PatternUpdate", "LoadGraph"}
           o == Update(d, ops, s)
<1>1. IsFiniteSet(Quads) /\ RequestOf(ops, Quads)
  BY DEF PersistenceAssumption, RequestOf
<1>2. st.quads = s.quads /\ st \in From(Quads, 0)
  BY DEF From, Store
<1>3. OwnEntries(es, d)
  BY <1>1, <1>2, UpdateOwn
<1>4. u \in Progressing(Quads, 0)
  <2>1. Len(ops) \in Nat /\ DOMAIN ops = 1..Len(ops) /\ \A i \in DOMAIN ops : WellFormed(ops[i], Quads)
    BY <1>1 DEF RequestOf
  <2> HIDE DEF st
  <2>2. 0 \in Nat
    OBVIOUS
  <2>3. QED
    BY <1>1, <1>2, <2>1, <2>2, CollectType
<1>5. /\ u.store.quads \subseteq Quads /\ u.pending_inserts \subseteq Quads
      /\ u.pending_deletes \subseteq Quads
  BY <1>4 DEF Progressing, From, Store
<1>6. ~loads => ~u.failed /\ u.store.quads \subseteq s.quads
  <2>1. DOMAIN ops = 1..Len(ops)
    BY <1>1 DEF RequestOf
  <2>2. QED
    BY <1>1, <2>1, CollectShrinks
<1>7. lg => \A q : /\ OnlyInserts(ops, q, st) => q \in u.pending_inserts \ u.pending_deletes
                   /\ OnlyRemoves(ops, q, st) =>
                         /\ q \notin u.pending_inserts
                         /\ q \in u.store.quads => q \in u.pending_deletes
  <2>1. DOMAIN ops = 1..Len(ops)
    BY <1>1 DEF RequestOf
  <2>2. QED
    BY <1>1, <2>1, CollectSettles
<1>8. \A S : \A q \in Faithful(Quads) :
          /\ q \in Mentioned(es) \ Clash(es) =>
                OnlyInserts(ops, q, st) \/ OnlyRemoves(ops, q, st)
          /\ OnlyInserts(ops, q, st) => q \in Replay(S, es)
          /\ OnlyRemoves(ops, q, st) => q \notin Replay(S, es)
  BY <1>1, <1>2, SettledOneWay, ReplaySettles
<1>9. o = CASE u.failed -> Outcome(es, applied, {}, ~loads)
            [] ~u.failed /\ Contradiction(s.rules.active, applied) ->
                 Outcome(es, (applied \ NI) \cup ND, {}, ~loads)
            [] OTHER -> Outcome(es, applied, IF lg THEN Mentioned(es) \ Clash(es) ELSE {}, TRUE)
  BY DEF Update
<1>10. /\ ND = u.pending_deletes \cap u.store.quads
       /\ NI = u.pending_inserts \ u.pending_deletes
       /\ u.failed => applied = u.store.quads
       /\ ~u.failed => applied = (u.store.quads \ ND) \cup NI
  BY DEF Finish, NetDeletes, NetInserts, AddQuads, RemoveQuads
<1> HIDE DEF o, applied, ND, NI, u, es, st, loads, lg
<1>11. CASE u.failed
  <2>1. o.entries = es /\ o.quads = applied /\ o.settled = {} /\ (o.checked => ~loads)
    BY <1>9, <1>11 DEF Outcome
  <2>2. QED
    BY <1>3, <1>5, <1>6, <1>10, <1>11, <2>1 DEF Written, o
<1>12. CASE ~u.failed /\ Contradiction(s.rules.active, applied)
  <2>1. /\ o.entries = es /\ o.quads = (applied \ NI) \cup ND /\ o.settled = {}
        /\ o.checked => ~loads
    BY <1>9, <1>12 DEF Outcome
  <2>2. o.quads \subseteq u.store.quads
    BY <1>10, <1>12, <2>1
  <2>3. QED
    BY <1>3, <1>5, <1>6, <2>1, <2>2 DEF Written, o
<1>13. CASE ~u.failed /\ ~Contradiction(s.rules.active, applied)
  <2>1. /\ o.entries = es /\ o.quads = applied
        /\ o.settled = IF lg THEN Mentioned(es) \ Clash(es) ELSE {}
    BY <1>9, <1>13 DEF Outcome
  <2>2. applied \subseteq Quads
    BY <1>5, <1>10, <1>13
  <2>3. ASSUME NEW q \in o.settled \cap Faithful(Quads), NEW S
        PROVE  q \in o.quads <=> q \in Replay(S, es)
    <3>1. lg /\ q \in Mentioned(es) \ Clash(es) /\ q \in Faithful(Quads)
      BY <2>1, <2>3
    <3>2. CASE OnlyInserts(ops, q, st)
      <4>1. q \in NI
        BY <1>7, <1>10, <3>1, <3>2
      <4>2. QED
        BY <1>8, <1>10, <1>13, <2>1, <3>1, <3>2, <4>1
    <3>3. CASE OnlyRemoves(ops, q, st)
      <4>1. q \notin NI /\ q \notin u.store.quads \ ND
        BY <1>7, <1>10, <3>1, <3>3
      <4>2. QED
        BY <1>8, <1>10, <1>13, <2>1, <3>1, <3>3, <4>1
    <3>4. QED
      BY <1>8, <3>1, <3>2, <3>3
  <2>4. QED
    BY <1>3, <1>13, <2>1, <2>2, <2>3 DEF Written, o
<1>14. QED
  BY <1>11, <1>12, <1>13 DEF o

\* A transaction's update, of which nothing is logged.
LEMMA CommitWritten ==
    ASSUME PersistenceAssumption, NEW d, NEW ops \in Updates, NEW s, s.quads \subseteq Quads
    PROVE  Written(TransactionCommit(d, ops, s), d, s)
<1> DEFINE o == Update(d, ops, s)
           t == TransactionCommit(d, ops, s)
<1>1. Written(o, d, s)
  BY UpdateWritten
<1>2. t = [entries |-> << >>, quads |-> o.quads, settled |-> {}, checked |-> o.checked]
  BY DEF TransactionCommit, Outcome
<1> HIDE DEF o
<1>3. t.entries = << >> /\ t.quads = o.quads /\ t.settled = {} /\ t.checked = o.checked
  BY <1>2
<1> HIDE DEF t
<1>4. << >> \in Seq({}) /\ Len(<< >>) = 0
  OBVIOUS
<1>5. OwnEntries(<< >>, d)
  BY <1>4 DEF OwnEntries
<1>6. QED
  BY <1>1, <1>3, <1>5 DEF Written, t

\* A write that takes quads away and puts others in, if its entries say the
\* same of the quads they mention.
LEMMA ReplaceWritten ==
    ASSUME NEW d, NEW s, s.quads \subseteq Quads, NEW es, OwnEntries(es, d),
           NEW old, old \subseteq s.quads, NEW new, new \subseteq Quads,
           \A S : \A q \in Mentioned(es) \cap Faithful(Quads) :
              q \in (s.quads \ old) \cup new <=> q \in Replay(S, es)
    PROVE  Written(Replace(es, old, new, s), d, s)
<1> DEFINE applied == (s.quads \ old) \cup new
           o == Replace(es, old, new, s)
<1>1. o = IF Contradiction(s.rules.active, applied)
          THEN Outcome(es, (applied \ new) \cup old, {}, TRUE)
          ELSE Outcome(es, applied, Mentioned(es), TRUE)
  BY DEF Replace
<1>2. (applied \ new) \cup old \subseteq s.quads /\ applied \subseteq Quads
  OBVIOUS
<1>3. \A S : \A q \in Mentioned(es) \cap Faithful(Quads) : q \in applied <=> q \in Replay(S, es)
  OBVIOUS
<1> HIDE DEF o, applied
<1>4. CASE Contradiction(s.rules.active, applied)
  <2>1. o.entries = es /\ o.quads = (applied \ new) \cup old /\ o.settled = {}
    BY <1>1, <1>4 DEF Outcome
  <2>2. QED
    BY <1>2, <2>1 DEF Written, o
<1>5. CASE ~Contradiction(s.rules.active, applied)
  <2>1. o.entries = es /\ o.quads = applied /\ o.settled = Mentioned(es)
    BY <1>1, <1>5 DEF Outcome
  <2>2. QED
    BY <1>2, <1>3, <1>5, <2>1 DEF Written, o
<1>6. QED
  BY <1>4, <1>5 DEF o

\* The entries of the graph store protocol.
LEMMA InsertsWritten ==
    ASSUME PersistenceAssumption, NEW d, NEW Q \in SUBSET Quads
    PROVE  /\ OwnEntries(SetToSeq(InsertEntries(d, Q)), d)
           /\ Mentioned(SetToSeq(InsertEntries(d, Q))) \subseteq Reprs(Q)
           /\ \A S : Replay(S, SetToSeq(InsertEntries(d, Q))) = S \cup Reprs(Q)
<1>1. IsFiniteSet(Q) /\ Q \subseteq Quads
  BY FS_Subset DEF PersistenceAssumption
<1> DEFINE E == InsertEntries(d, Q)
<1>2. /\ IsFiniteSet(E) /\ \A e \in E : OwnEntry(e, d)
      /\ \A e \in E : Decides(e) \subseteq Reprs(Q)
  BY <1>1, EntriesFinite, OwnSets
<1>3. \A S : Replay(S, SetToSeq(E)) = S \cup Reprs(Q)
  BY <1>1, InsertsOf
<1> HIDE DEF E
<1>4. OwnEntries(SetToSeq(E), d) /\ Mentioned(SetToSeq(E)) \subseteq Reprs(Q)
  BY <1>2, OwnListed
<1>5. QED
  BY <1>3, <1>4 DEF E

LEMMA ClearWritten ==
    ASSUME PersistenceAssumption, NEW d, NEW g
    PROVE  /\ OwnEntries(SetToSeq(ClearEntries(d, {g})), d)
           /\ Mentioned(SetToSeq(ClearEntries(d, {g}))) \subseteq {q \in Quads : q.graph = g}
           /\ \A S : Replay(S, SetToSeq(ClearEntries(d, {g}))) = {q \in S : q.graph # g}
<1> DEFINE E == ClearEntries(d, {g})
           D == {q \in Quads : q.graph = g}
<1>1. IsFiniteSet(E)
  BY FS_Singleton, EntriesFinite
<1>2. (\A e \in E : OwnEntry(e, d)) /\ \A e \in E : Decides(e) \subseteq D
  <2>1. \A e \in E : Decides(e) \subseteq {q \in Quads : q.graph \in {g}}
    BY OwnSets
  <2>2. \A e \in E : OwnEntry(e, d)
    BY OwnSets
  <2> HIDE DEF E
  <2>3. QED
    BY <2>1, <2>2
<1>3. (\A e \in E : e.op = "ClearGraph") /\ {e.graph : e \in E} = {g}
  BY EntryFields
<1> HIDE DEF E, D
<1>4. OwnEntries(SetToSeq(E), d) /\ Mentioned(SetToSeq(E)) \subseteq D
  BY <1>1, <1>2, OwnListed
<1>5. ASSUME NEW S PROVE Replay(S, SetToSeq(E)) = {q \in S : q.graph # g}
  <2>1. Replay(S, SetToSeq(E)) = {q \in S : \A e \in E : q.graph # e.graph}
    BY <1>1, <1>3, ReplayClears
  <2>2. \A x : (\A e \in E : x # e.graph) <=> x # g
    BY <1>3
  <2>3. QED
    BY <2>1, <2>2
<1>6. QED
  BY <1>4, <1>5 DEF E, D

LEMMA GspWritten ==
    ASSUME PersistenceAssumption, NEW d, NEW s, s.quads \subseteq Quads,
           NEW g, NEW Q \in SUBSET Quads
    PROVE  /\ Written(GspPost(d, Q, s), d, s)
           /\ Written(GspPut(d, g, Q, s), d, s)
           /\ Written(GspDelete(d, g, s), d, s)
<1> DEFINE ins == SetToSeq(InsertEntries(d, Q))
           clr == SetToSeq(ClearEntries(d, {g}))
           old == Graph(s, g)
<1>1. /\ OwnEntries(ins, d) /\ Mentioned(ins) \subseteq Reprs(Q)
      /\ \A S : Replay(S, ins) = S \cup Reprs(Q)
  BY InsertsWritten
<1>2. /\ OwnEntries(clr, d) /\ Mentioned(clr) \subseteq {q \in Quads : q.graph = g}
      /\ \A S : Replay(S, clr) = {q \in S : q.graph # g}
  BY ClearWritten
<1>3. old \subseteq s.quads /\ \A q \in s.quads : q \in old <=> q.graph = g
  BY DEF Graph
<1>4. \A q \in Faithful(Quads) : q \in Quads /\ (q \in Reprs(Q) <=> q \in Q)
  BY DEF Faithful, Reprs
<1>5. /\ GspPost(d, Q, s) = Replace(ins, {}, Q, s)
      /\ GspPut(d, g, Q, s) = Replace(clr \o ins, old, Q, s)
      /\ GspDelete(d, g, s) = Replace(clr, old, {}, s)
  BY DEF GspPost, GspPut, GspDelete
<1> HIDE DEF ins, clr, old
<1>6. Written(Replace(ins, {}, Q, s), d, s)
  <2>1. \A S : \A q \in Mentioned(ins) \cap Faithful(Quads) :
            q \in (s.quads \ {}) \cup Q <=> q \in Replay(S, ins)
    BY <1>1, <1>4
  <2>2. {} \subseteq s.quads /\ Q \subseteq Quads
    OBVIOUS
  <2>3. QED
    BY <1>1, <2>1, <2>2, ReplaceWritten
<1>7. Written(Replace(clr, old, {}, s), d, s)
  <2>1. \A S : \A q \in Mentioned(clr) \cap Faithful(Quads) :
            q \in (s.quads \ old) \cup {} <=> q \in Replay(S, clr)
    BY <1>2, <1>3
  <2>2. {} \subseteq Quads
    OBVIOUS
  <2>3. QED
    BY <1>2, <1>3, <2>1, <2>2, ReplaceWritten
<1>8. Written(Replace(clr \o ins, old, Q, s), d, s)
  <2> DEFINE es == clr \o ins
  <2>1. /\ OwnEntries(es, d)
        /\ \A q \in Mentioned(es) : q \in Mentioned(clr) \/ q \in Mentioned(ins)
    <3>1. OwnEntries(clr, d) /\ OwnEntries(ins, d)
      BY <1>1, <1>2
    <3> HIDE DEF es
    <3>2. OwnEntries(clr \o ins, d)
      BY <3>1, OwnJoined
    <3>3. \A q \in Mentioned(clr \o ins) : q \in Mentioned(clr) \/ q \in Mentioned(ins)
      BY <3>1, OwnJoined
    <3>4. QED
      BY <3>2, <3>3 DEF es
  <2>2. \A S : Replay(S, es) = {q \in S : q.graph # g} \cup Reprs(Q)
    <3> SUFFICES ASSUME NEW S PROVE Replay(S, es) = {q \in S : q.graph # g} \cup Reprs(Q)
      OBVIOUS
    <3>1. (\E X : clr \in Seq(X)) /\ \E X : ins \in Seq(X)
      BY <1>1, <1>2 DEF OwnEntries
    <3>2. Replay(S, clr \o ins) = Replay(Replay(S, clr), ins)
      BY <3>1, ReplayConcat
    <3>3. QED
      BY <1>1, <1>2, <3>2
  <2> HIDE DEF es
  <2>3. \A S : \A q \in Mentioned(es) \cap Faithful(Quads) :
            q \in (s.quads \ old) \cup Q <=> q \in Replay(S, es)
    <3> SUFFICES ASSUME NEW q \in Mentioned(es) \cap Faithful(Quads), NEW S
                 PROVE  q \in (s.quads \ old) \cup Q <=> q \in Replay(S, es)
      OBVIOUS
    <3>1. q \in Reprs(Q) <=> q \in Q
      BY <1>4
    <3>2. q.graph = g \/ q \in Q
      BY <1>1, <1>2, <2>1, <3>1
    <3>3. q \in (s.quads \ old) \cup Q <=> q \in Q
      BY <1>3, <3>2
    <3>4. q \in Replay(S, es) <=> q \in Q
      BY <2>2, <3>1, <3>2
    <3>5. QED
      BY <3>3, <3>4
  <2>4. Q \subseteq Quads
    OBVIOUS
  <2>5. Written(Replace(es, old, Q, s), d, s)
    BY <1>3, <2>1, <2>3, <2>4, ReplaceWritten
  <2>6. QED
    BY <2>5 DEF es
<1>9. QED
  BY <1>5, <1>6, <1>7, <1>8

LEMMA WritesWritten ==
    ASSUME PersistenceAssumption, NEW d, NEW s, s.quads \subseteq Quads, NEW o \in Writes(d, s)
    PROVE  Written(o, d, s)
<1>1. \A Q \in Bodies : Q \in SUBSET Quads
  BY DEF PersistenceAssumption
<1>2. CASE o \in {Update(d, ops, s) : ops \in Updates}
  BY <1>2, UpdateWritten
<1>3. CASE o \in {TransactionCommit(d, ops, s) : ops \in Updates}
  BY <1>3, CommitWritten
<1>4. CASE o \in {GspPost(d, Q, s) : Q \in Bodies}
  BY <1>1, <1>4, GspWritten
<1>5. CASE o \in {GspPut(d, GraphOf(Q), Q, s) : Q \in Bodies}
  BY <1>1, <1>5, GspWritten
<1>6. CASE o \in {GspDelete(d, g, s) : g \in {GraphOf(Q) : Q \in Bodies}
                                               \cap ({Default} \cup GraphsOf(s))}
  <2>1. PICK g : o = GspDelete(d, g, s)
    BY <1>6
  <2>2. {} \in SUBSET Quads
    OBVIOUS
  <2>3. QED
    BY <2>1, <2>2, GspWritten
<1>7. QED
  BY <1>2, <1>3, <1>4, <1>5, <1>6 DEF Writes

-----------------------------------------------------------------------------
(* The log a server writes                                                   *)

EntryOK(e) ==
    \/ \E d \in Datasets : OwnEntry(e, d)
    \/ e.op \in {"CreateDataset", "DeleteDataset"} /\ e.name \in Datasets
    \/ \E d \in Datasets : e \in RulesetEntries(d)

LogOK(l) == (\E X : l \in Seq(X)) /\ \A i \in 1..Len(l) : EntryOK(l[i])

\* Only datasets of the server are found, and only quads of theirs.
LEMMA LogFinds ==
    ASSUME NEW l, LogOK(l)
    PROVE  discover_dataset_names(l) \subseteq Datasets
<1> SUFFICES ASSUME NEW d \in discover_dataset_names(l) PROVE d \in Datasets
  OBVIOUS
<1>1. PICK X : l \in Seq(X)
  BY DEF LogOK
<1>2. PICK i \in 1..Len(l) : Creates(l, i, d)
  BY <1>1, DiscoveredIs
<1>3. EntryOK(l[i]) /\ l[i].op = "CreateDataset" /\ l[i].name = d
  BY <1>2 DEF LogOK, Creates
<1>4. \A c : l[i] \notin RulesetEntries(c)
  BY <1>3 DEF RulesetEntries
<1>5. QED
  BY <1>3, <1>4 DEF EntryOK, OwnEntry

LEMMA ReplayAtType ==
    ASSUME NEW l, LogOK(l), NEW S \in SUBSET Quads, NEW K
    PROVE  replay_at(S, l, K) \in SUBSET Quads
<1> DEFINE N == Len(l)
<1>1. PICK X : l \in Seq(X)
  BY DEF LogOK
<1>2. PICK g : ReplaysAt(g, S, l, K) /\ replay_at(S, l, K) = g[N]
  BY <1>1, ReplayAtSteps
<1> DEFINE P == {n \in 0..N : g[n] \in SUBSET Quads}
<1>3. N \in Nat
  BY <1>1
<1>4. 0 \in P
  BY <1>2, <1>3 DEF ReplaysAt
<1>5. ASSUME NEW n \in 1..N, n - 1 \in P PROVE n \in P
  <2> DEFINE e == l[n]
             T == g[n - 1]
  <2>1. g[n] = (IF n \in K THEN apply_entry(T, e) ELSE T) /\ n \in 0..N /\ T \in SUBSET Quads
    BY <1>2, <1>3, <1>5 DEF ReplaysAt
  <2>2. e.op = "InsertQuad" => e.quad \in Quads
    BY DEF LogOK, EntryOK, OwnEntry, RulesetEntries
  <2> HIDE DEF T, e
  <2>3. apply_entry(T, e) \in SUBSET Quads
    BY <2>1, <2>2 DEF apply_entry
  <2>4. QED
    BY <2>1, <2>3
<1>6. N \in P
  <2> HIDE DEF P
  <2>1. \A n \in 0..N : n \in P
    BY <1>3, <1>4, <1>5, BoundedInduction
  <2>2. QED
    BY <1>3, <2>1
<1>7. QED
  BY <1>2, <1>6

LEMMA RebuiltType ==
    ASSUME NEW l, LogOK(l), NEW d, NEW B \in SUBSET Quads
    PROVE  Rebuilt(l, d, B) \in SUBSET Quads
<1>1. {} \in SUBSET Quads
  OBVIOUS
<1>2. QED
  BY <1>1, ReplayAtType DEF Rebuilt, replay_dataset, replay_into

\* d is registered by name or is the main dataset.
Stands(l, d) == d = MainDataset \/ d \in discover_dataset_names(l)

\* L makes the same as l of every dataset but c.
SameFor(L, l, c) ==
    \A d : d # c /\ Stands(l, d) => Rebuilt(L, d, FileData) = Rebuilt(l, d, FileData)

LEMMA LogOwn ==
    ASSUME NEW l, LogOK(l), NEW c \in Datasets, NEW es, OwnEntries(es, c)
    PROVE  /\ LogOK(l \o es)
           /\ discover_dataset_names(l \o es) = discover_dataset_names(l)
           /\ SameFor(l \o es, l, c)
           /\ Stands(l, c) =>
                 Rebuilt(l \o es, c, FileData) = Replay(Rebuilt(l, c, FileData), es)
<1>1. PICK X : l \in Seq(X)
  BY DEF LogOK
<1>2. PICK Y : es \in Seq(Y)
  BY DEF OwnEntries
<1>3. /\ AllOf(es, c)
      /\ \A d : Plain(es, d)
      /\ \A d : d # c => NoneOf(es, d)
  BY OwnPlain
<1> DEFINE L == l \o es
<1>4. L \in Seq(X \cup Y) /\ Joins(L, l, es)
  BY <1>1, <1>2, Appended
<1>5. \A d : d \in discover_dataset_names(L) <=> d \in discover_dataset_names(l)
  <2> SUFFICES ASSUME NEW d PROVE d \in discover_dataset_names(L) <=> d \in discover_dataset_names(l)
    OBVIOUS
  <2>1. Plain(es, d)
    BY <1>3
  <2>2. QED
    BY <1>1, <1>2, <2>1, PlainKeeps
<1>6. ASSUME NEW d, Stands(l, d)
      PROVE  /\ d # c => Rebuilt(L, d, FileData) = Rebuilt(l, d, FileData)
             /\ d = c => Rebuilt(L, d, FileData) = Replay(Rebuilt(l, d, FileData), es)
  <2>1. Plain(es, d) /\ (d # c => NoneOf(es, d)) /\ (d = c => AllOf(es, d))
    BY <1>3
  <2>2. d = MainDataset \/ d \in discover_dataset_names(l)
    BY <1>6 DEF Stands
  <2>3. /\ AllOf(es, d) => Rebuilt(l \o es, d, FileData) = Replay(Rebuilt(l, d, FileData), es)
        /\ NoneOf(es, d) => Rebuilt(l \o es, d, FileData) = Rebuilt(l, d, FileData)
    BY <1>1, <1>2, <2>1, <2>2, RebuiltMore
  <2>4. QED
    BY <2>1, <2>3
<1> HIDE DEF L
<1>7. LogOK(L)
  <2>1. \A i \in 1..Len(es) : EntryOK(es[i])
    BY DEF OwnEntries, EntryOK
  <2>2. ASSUME NEW i \in 1..Len(L) PROVE EntryOK(L[i])
    <3>1. CASE i \in 1..Len(l)
      BY <1>4, <3>1 DEF Joins, LogOK
    <3>2. CASE \E k \in 1..Len(es) : i = Len(l) + k
      BY <1>4, <2>1, <3>2 DEF Joins
    <3>3. QED
      BY <1>4, <3>1, <3>2 DEF Joins
  <2>3. QED
    BY <1>4, <2>2 DEF LogOK
<1>8. SameFor(L, l, c)
  BY <1>6 DEF SameFor
<1>9. discover_dataset_names(L) = discover_dataset_names(l)
  BY <1>5
<1>10. Stands(l, c) => Rebuilt(L, c, FileData) = Replay(Rebuilt(l, c, FileData), es)
  BY <1>6
<1>11. QED
  BY <1>7, <1>8, <1>9, <1>10 DEF L

\* One more entry, which says nothing about d.
LEMMA LogOne ==
    ASSUME NEW l, LogOK(l), NEW e, EntryOK(e), Inert(e)
    PROVE  /\ LogOK(Append(l, e))
           /\ \A d : ~(e.op \in {"CreateDataset", "DeleteDataset"} /\ e.name = d) =>
                 /\ d \in discover_dataset_names(Append(l, e)) <=> d \in discover_dataset_names(l)
                 /\ Stands(l, d) =>
                       Rebuilt(Append(l, e), d, FileData) = Rebuilt(l, d, FileData)
<1>1. PICK X : l \in Seq(X)
  BY DEF LogOK
<1> DEFINE es == <<e>>
<1>2. es \in Seq({e}) /\ Len(es) = 1 /\ es[1] = e /\ Append(l, e) = l \o es
  BY <1>1
<1> HIDE DEF es
<1>3. LogOK(l \o es)
  <2>1. l \o es \in Seq(X \cup {e}) /\ Joins(l \o es, l, es)
    BY <1>1, <1>2, Appended
  <2>2. ASSUME NEW i \in 1..Len(l \o es) PROVE EntryOK((l \o es)[i])
    <3>1. CASE i \in 1..Len(l)
      BY <2>1, <3>1 DEF Joins, LogOK
    <3>2. CASE \E k \in 1..Len(es) : i = Len(l) + k
      <4>1. (l \o es)[Len(l) + 1] = e /\ i = Len(l) + 1
        BY <1>2, <2>1, <3>2 DEF Joins
      <4>2. QED
        BY <4>1
    <3>3. QED
      BY <2>1, <3>1, <3>2 DEF Joins
  <2>3. QED
    BY <2>1, <2>2 DEF LogOK
<1>4. ASSUME NEW d, ~(e.op \in {"CreateDataset", "DeleteDataset"} /\ e.name = d)
      PROVE  /\ d \in discover_dataset_names(l \o es) <=> d \in discover_dataset_names(l)
             /\ Stands(l, d) => Rebuilt(l \o es, d, FileData) = Rebuilt(l, d, FileData)
  <2>1. Plain(es, d) /\ NoneOf(es, d)
    BY <1>2, <1>4 DEF Plain, NoneOf, Creates, Deletes
  <2>2. d \in discover_dataset_names(l \o es) <=> d \in discover_dataset_names(l)
    BY <1>1, <1>2, <2>1, PlainKeeps
  <2>3. ASSUME Stands(l, d) PROVE Rebuilt(l \o es, d, FileData) = Rebuilt(l, d, FileData)
    <3>1. d = MainDataset \/ d \in discover_dataset_names(l)
      BY <2>3 DEF Stands
    <3>2. QED
      BY <1>1, <1>2, <2>1, <3>1, RebuiltMore
  <2>4. QED
    BY <2>2, <2>3
<1>5. QED
  BY <1>2, <1>3, <1>4

\* A persisted ruleset says nothing about quads and datasets.
LEMMA LogRuleset ==
    ASSUME NEW l, LogOK(l), NEW c \in Datasets, NEW e \in RulesetEntries(c)
    PROVE  /\ LogOK(Append(l, e))
           /\ discover_dataset_names(Append(l, e)) = discover_dataset_names(l)
           /\ \A d : Stands(l, d) =>
                 Rebuilt(Append(l, e), d, FileData) = Rebuilt(l, d, FileData)
<1>1. EntryOK(e) /\ Inert(e) /\ e.op \notin {"CreateDataset", "DeleteDataset"}
  BY DEF EntryOK, Inert, RulesetEntries
<1>2. /\ LogOK(Append(l, e))
      /\ \A d : d \in discover_dataset_names(Append(l, e)) <=> d \in discover_dataset_names(l)
      /\ \A d : Stands(l, d) =>
            Rebuilt(Append(l, e), d, FileData) = Rebuilt(l, d, FileData)
  BY <1>1, LogOne
<1>3. QED
  BY <1>2

LEMMA LogCreate ==
    ASSUME NEW l, LogOK(l), NEW c \in Datasets, NEW e, e = [op |-> "CreateDataset", name |-> c]
    PROVE  /\ LogOK(Append(l, e))
           /\ discover_dataset_names(Append(l, e)) = discover_dataset_names(l) \cup {c}
           /\ SameFor(Append(l, e), l, c)
           /\ Rebuilt(Append(l, e), c, FileData) = {}
<1>1. EntryOK(e) /\ Inert(e) /\ e.op = "CreateDataset" /\ e.name = c
  BY DEF EntryOK, Inert
<1>2. PICK X : l \in Seq(X)
  BY DEF LogOK
<1>3. c \in discover_dataset_names(Append(l, e)) /\ Rebuilt(Append(l, e), c, FileData) = {}
  BY <1>1, <1>2, Created
<1>4. /\ LogOK(Append(l, e))
      /\ \A d : d # c =>
            /\ d \in discover_dataset_names(Append(l, e)) <=> d \in discover_dataset_names(l)
            /\ Stands(l, d) => Rebuilt(Append(l, e), d, FileData) = Rebuilt(l, d, FileData)
  BY <1>1, LogOne
<1>5. QED
  BY <1>3, <1>4 DEF SameFor

LEMMA LogDelete ==
    ASSUME NEW l, LogOK(l), NEW c \in Datasets, NEW e, e = [op |-> "DeleteDataset", name |-> c]
    PROVE  /\ LogOK(Append(l, e))
           /\ discover_dataset_names(Append(l, e)) = discover_dataset_names(l) \ {c}
           /\ SameFor(Append(l, e), l, c)
<1>1. EntryOK(e) /\ Inert(e) /\ e.op = "DeleteDataset" /\ e.name = c
  BY DEF EntryOK, Inert
<1>2. PICK X : l \in Seq(X)
  BY DEF LogOK
<1>3. c \notin discover_dataset_names(Append(l, e))
  BY <1>1, <1>2, Deleted
<1>4. /\ LogOK(Append(l, e))
      /\ \A d : d # c =>
            /\ d \in discover_dataset_names(Append(l, e)) <=> d \in discover_dataset_names(l)
            /\ Stands(l, d) => Rebuilt(Append(l, e), d, FileData) = Rebuilt(l, d, FileData)
  BY <1>1, LogOne
<1>5. QED
  BY <1>3, <1>4 DEF SameFor

\* A compacted log finds the datasets of st, and makes of each what st says.
LEMMA LogCompact ==
    ASSUME PersistenceAssumption, NEW l, LogOK(l), NEW st, DOMAIN st \subseteq Datasets,
           \A c \in DOMAIN st : st[c] \subseteq Quads
    PROVE  /\ LogOK(compact_multi(l, st))
           /\ discover_dataset_names(compact_multi(l, st)) = DOMAIN st \ {MainDataset}
           /\ \A d \in DOMAIN st :
                 Rebuilt(compact_multi(l, st), d, FileData)
                    = (IF d = MainDataset THEN FileData ELSE {}) \cup Reprs(st[d])
<1> DEFINE L == compact_multi(l, st)
<1>1. PICK X : l \in Seq(X)
  BY DEF LogOK
<1>2. IsFiniteSet(DOMAIN st) /\ \A c \in DOMAIN st : IsFiniteSet(st[c])
  BY FS_Subset DEF PersistenceAssumption
<1>3. \A d, B : CompactIs(L, l, st, d, B)
  BY <1>1, <1>2, CompactRebuilt
<1> HIDE DEF L
<1>4. LogOK(L)
  <2>1. \E Y : L \in Seq(Y)
    BY <1>3 DEF CompactIs
  <2>2. ASSUME NEW i \in 1..Len(L) PROVE EntryOK(L[i])
    <3>1. CASE SnapshotEntry(L[i], st)
      <4>1. PICK d \in DOMAIN st :
               L[i] \in InsertEntries(d, st[d]) \/ L[i] = [op |-> "CreateDataset", name |-> d]
        BY <3>1 DEF SnapshotEntry
      <4>2. L[i] \in InsertEntries(d, st[d]) => OwnEntry(L[i], d)
        BY OwnSets
      <4>3. QED
        BY <4>1, <4>2 DEF EntryOK
    <3>2. CASE \E k \in 1..Len(l) : L[i] = l[k] /\ is_ruleset_entry(l[k])
      BY <3>2 DEF LogOK
    <3>3. QED
      BY <1>3, <3>1, <3>2 DEF CompactIs
  <2>3. QED
    BY <2>1, <2>2 DEF LogOK
<1>5. discover_dataset_names(L) = DOMAIN st \ {MainDataset}
  BY <1>3 DEF CompactIs
<1>6. \A d \in DOMAIN st : Rebuilt(L, d, FileData)
                             = (IF d = MainDataset THEN FileData ELSE {}) \cup Reprs(st[d])
  BY <1>3 DEF CompactIs
<1>7. QED
  BY <1>4, <1>5, <1>6 DEF L

-----------------------------------------------------------------------------
(* The inductive invariant                                                   *)

StoreOK(s) == DOMAIN s = {"quads", "rules"} /\ s.quads \subseteq Quads

Req(n) ==
    {Idle}
    \cup [pc : {"resolved"}, d : Datasets, sid : 1..n]
    \cup [pc : {"logged"}, d : Datasets, sid : 1..n, quads : SUBSET Quads, raced : BOOLEAN]

Typed ==
    /\ LogOK(log) /\ Len(log) <= MaxLog
    /\ (\E X : stores \in Seq(X)) /\ \A i \in 1..Len(stores) : StoreOK(stores[i])
    /\ DOMAIN registry \subseteq Datasets
    /\ \A d \in DOMAIN registry : registry[d] \in 1..Len(stores)
    /\ req \in [Clients -> Req(Len(stores))]
    /\ up = TRUE \/ (up = FALSE /\ Len(stores) = 0)
    /\ up = TRUE => Len(stores) > 0
    /\ tainted \subseteq Datasets \X Quads
    /\ rulesTainted \subseteq Datasets
    /\ unchecked \subseteq Datasets

\* A store has one name at most, and the store of the root routes no other
\* name than the main dataset's; a request that holds a registered store holds
\* the one of its own dataset.
Owners ==
    /\ \A d, e \in DOMAIN registry : registry[d] = registry[e] => d = e
    /\ \A d \in DOMAIN registry : registry[d] = Root => d = MainDataset
    /\ \A c \in Clients : \A d \in DOMAIN registry :
          req[c] # Idle /\ registry[d] = req[c].sid => d = req[c].d

\* QuadsDurable, quad by quad.
Durable ==
    \A d \in DOMAIN registry : \A q :
        \/ q \in stores[registry[d]].quads <=> q \in Rebuilt(log, d, FileData)
        \/ <<d, q>> \in tainted

\* The quads of an upload that still waits for its store are in the log,
\* unless it lost a race; those that do not read back are marked.
Waits(r) ==
    /\ r.pc = "logged" /\ r.raced = FALSE
    /\ r.d \in DOMAIN registry /\ registry[r.d] = r.sid

Waiting ==
    \A c \in Clients : Waits(req[c]) =>
        \A q \in req[c].quads :
            /\ q \in Faithful(Quads) => q \in Rebuilt(log, req[c].d, FileData)
            /\ q \notin Faithful(Quads) => <<req[c].d, q>> \in tainted

QuadInv == Typed /\ Owners /\ DatasetsDurable /\ Durable /\ Waiting

LEMMA PairsIs ==
    ASSUME NEW d, NEW Q, NEW c, NEW q
    PROVE  <<d, q>> \in Pairs(c, Q) <=> d = c /\ q \in Q
BY DEF Pairs

LEMMA AgreeIs ==
    ASSUME NEW S, NEW T, NEW d, NEW R, \A q : (q \in S <=> q \in T) \/ <<d, q>> \in R
    PROVE  Pairs(d, Changed(S, T)) \subseteq R
<1>1. \A p \in Pairs(d, Changed(S, T)) : p = <<d, p[2]>> /\ p[2] \in Changed(S, T)
  BY DEF Pairs
<1>2. ASSUME NEW p \in Pairs(d, Changed(S, T)) PROVE p \in R
  <2> DEFINE q == p[2]
  <2>1. p = <<d, q>> /\ q \in Changed(S, T)
    BY <1>1
  <2> HIDE DEF q
  <2>2. ~(q \in S <=> q \in T)
    BY <2>1 DEF Changed
  <2>3. QED
    BY <2>1, <2>2
<1>3. QED
  BY <1>2

LEMMA DurableQuads ==
    ASSUME Durable
    PROVE  QuadsDurable
<1>1. \A d : Recovered(d) = Rebuilt(log, d, FileData)
  BY DEF Recovered, Rebuilt
<1>2. ASSUME NEW d \in DOMAIN registry
      PROVE  Pairs(d, Changed(stores[registry[d]].quads, Recovered(d))) \subseteq tainted
  <2>1. \A q : \/ q \in stores[registry[d]].quads <=> q \in Rebuilt(log, d, FileData)
               \/ <<d, q>> \in tainted
    BY DEF Durable
  <2>2. QED
    BY <1>1, <2>1, AgreeIs
<1>3. QED
  BY <1>2 DEF QuadsDurable

\* The registered datasets are found in the log.
LEMMA RegisteredStands ==
    ASSUME Typed, DatasetsDurable, NEW d \in DOMAIN registry
    PROVE  up = TRUE /\ Stands(log, d)
<1>1. up = TRUE
  BY DEF Typed
<1>2. d # MainDataset => d \in discover_dataset_names(log)
  BY <1>1 DEF DatasetsDurable, RecoveredNames
<1>3. QED
  BY <1>1, <1>2 DEF Stands

-----------------------------------------------------------------------------
(* Requests and stores that go on                                            *)

\* r2 is what became of request r: it is over, or as before, but one that
\* waits on a dataset of D lost the race.
Follows(r2, r, D) ==
    /\ r2 # Idle => r # Idle /\ r2.pc = r.pc /\ r2.d = r.d /\ r2.sid = r.sid
    /\ r2.pc = "logged" /\ r2.raced = FALSE => r2 = r /\ r.d \notin D

LEMMA FollowsIs ==
    ASSUME NEW n, NEW r \in Req(n), NEW D
    PROVE  /\ Follows(Idle, r, D)
           /\ r.pc # "logged" \/ r.d \notin D => Follows(r, r, D)
           /\ r.pc = "logged" =>
                 /\ [r EXCEPT !.raced = TRUE] \in Req(n)
                 /\ Follows([r EXCEPT !.raced = TRUE], r, D)
<1>1. Follows(Idle, r, D) /\ (r.pc # "logged" \/ r.d \notin D => Follows(r, r, D))
  BY DEF Follows, Req, Idle
<1>2. ASSUME r.pc = "logged"
      PROVE  /\ [r EXCEPT !.raced = TRUE] \in Req(n)
             /\ Follows([r EXCEPT !.raced = TRUE], r, D)
  <2>1. r \in [pc : {"logged"}, d : Datasets, sid : 1..n, quads : SUBSET Quads, raced : BOOLEAN]
    BY <1>2 DEF Req, Idle
  <2> DEFINE s == [r EXCEPT !.raced = TRUE]
  <2>2. /\ s \in [pc : {"logged"}, d : Datasets, sid : 1..n, quads : SUBSET Quads, raced : BOOLEAN]
        /\ s.pc = r.pc /\ s.d = r.d /\ s.sid = r.sid /\ s.raced = TRUE
    BY <2>1
  <2> HIDE DEF s
  <2>3. r # Idle
    BY <1>2 DEF Idle
  <2>4. s \in Req(n) /\ Follows(s, r, D)
    BY <2>2, <2>3 DEF Req, Follows
  <2>5. QED
    BY <2>4 DEF s
<1>3. QED
  BY <1>1, <1>2

LEMMA DoneFollows ==
    ASSUME NEW n, req \in [Clients -> Req(n)], NEW c \in Clients, NEW D, Done(c, D)
    PROVE  /\ req' \in [Clients -> Req(n)]
           /\ req'[c] = Idle
           /\ \A b \in Clients : Follows(req'[b], req[b], D)
<1>1. ASSUME NEW b \in Clients
      PROVE  /\ req'[b] \in Req(n) /\ Follows(req'[b], req[b], D)
             /\ b = c => req'[b] = Idle
  <2> DEFINE r == req[b]
  <2>1. r \in Req(n)
    OBVIOUS
  <2>2. req'[b] = CASE b = c -> Idle
                    [] b # c /\ r.pc = "logged" /\ r.d \in D -> [r EXCEPT !.raced = TRUE]
                    [] OTHER -> r
    BY DEF Done
  <2> HIDE DEF r
  <2>3. /\ Follows(Idle, r, D) /\ Idle \in Req(n)
        /\ r.pc # "logged" \/ r.d \notin D => Follows(r, r, D)
        /\ r.pc = "logged" =>
              [r EXCEPT !.raced = TRUE] \in Req(n) /\ Follows([r EXCEPT !.raced = TRUE], r, D)
    BY <2>1, FollowsIs DEF Req
  <2>4. CASE b = c
    BY <2>2, <2>3, <2>4 DEF r
  <2>5. CASE b # c /\ r.pc = "logged" /\ r.d \in D
    BY <2>2, <2>3, <2>5 DEF r
  <2>6. CASE b # c /\ ~(r.pc = "logged" /\ r.d \in D)
    BY <2>1, <2>2, <2>3, <2>6 DEF r
  <2>7. QED
    BY <2>4, <2>5, <2>6
<1>2. req' = [b \in Clients |-> req'[b]]
  BY DEF Done
<1>3. QED
  BY <1>1, <1>2

\* The owners stay the same when the registry does.
LEMMA OwnersKept ==
    ASSUME Owners, registry' = registry, NEW D,
           \A b \in Clients : Follows(req'[b], req[b], D)
    PROVE  Owners'
<1>1. \A c \in Clients : req'[c] # Idle => req[c] # Idle /\ req'[c].d = req[c].d
                                            /\ req'[c].sid = req[c].sid
  BY DEF Follows
<1>2. QED
  BY <1>1 DEF Owners, Root, Idle

\* Entries of one dataset that a handler appends to the log.
LEMMA LogsOwn ==
    ASSUME PersistenceAssumption, Typed, NEW ds \in Datasets, NEW es, OwnEntries(es, ds),
           NEW L, L = log \o es
    PROVE  /\ LogOK(L) /\ Len(L) = Len(log) + Len(es)
           /\ discover_dataset_names(L) = discover_dataset_names(log)
           /\ SameFor(L, log, ds)
           /\ Stands(log, ds) =>
                 /\ Rebuilt(L, ds, FileData) = Replay(Rebuilt(log, ds, FileData), es)
                 /\ \A q : q \notin Mentioned(es) =>
                       (q \in Rebuilt(L, ds, FileData) <=> q \in Rebuilt(log, ds, FileData))
           /\ Mentioned(es) \subseteq Quads
<1>1. LogOK(log) /\ FileData \subseteq Quads
  BY DEF Typed, PersistenceAssumption
<1>2. PICK X : log \in Seq(X)
  BY <1>1 DEF LogOK
<1>3. PICK Y : es \in Seq(Y)
  BY DEF OwnEntries
<1>4. /\ LogOK(L)
      /\ discover_dataset_names(L) = discover_dataset_names(log)
      /\ SameFor(L, log, ds)
      /\ Stands(log, ds) => Rebuilt(L, ds, FileData) = Replay(Rebuilt(log, ds, FileData), es)
  BY <1>1, LogOwn
<1>5. Len(L) = Len(log) + Len(es)
  BY <1>2, <1>3
<1>6. ASSUME Stands(log, ds), NEW q, q \notin Mentioned(es)
      PROVE  q \in Rebuilt(L, ds, FileData) <=> q \in Rebuilt(log, ds, FileData)
  <2>1. CASE q \in Quads
    <3> DEFINE S == Rebuilt(log, ds, FileData)
    <3>1. Rebuilt(L, ds, FileData) = Replay(S, es)
      BY <1>4, <1>6
    <3> HIDE DEF S
    <3>2. q \in Replay(S, es) <=> q \in S
      BY <1>3, <1>6, <2>1, ReplayUnmentioned
    <3>3. QED
      BY <3>1, <3>2 DEF S
  <2>2. CASE q \notin Quads
    <3>1. Rebuilt(L, ds, FileData) \in SUBSET Quads /\ Rebuilt(log, ds, FileData) \in SUBSET Quads
      BY <1>1, <1>4, RebuiltType
    <3>2. QED
      BY <2>2, <3>1
  <2>3. QED
    BY <2>1, <2>2
<1>7. Mentioned(es) \subseteq Quads
  <2>1. ASSUME NEW i \in DOMAIN es PROVE Decides(es[i]) \subseteq Quads
    <3>1. i \in 1..Len(es)
      BY <1>3, <2>1
    <3>2. QED
      BY <3>1 DEF OwnEntries, OwnEntry, Decides
  <2>2. QED
    BY <2>1 DEF Mentioned
<1>8. QED
  BY <1>4, <1>5, <1>6, <1>7

\* A request that holds a dataset's store.
LEMMA HeldIs ==
    ASSUME Typed, NEW c \in Clients, req[c].pc \in {"resolved", "logged"}
    PROVE  /\ req[c] # Idle /\ req[c].d \in Datasets /\ req[c].sid \in 1..Len(stores)
           /\ req[c].pc = "logged" => req[c].quads \subseteq Quads /\ req[c].raced \in BOOLEAN
BY DEF Typed, Req, Idle

LEMMA UploadLogStep ==
    ASSUME PersistenceAssumption, QuadInv, NEW c \in Clients, NEW Q \in Bodies, UploadLog(c, Q)
    PROVE  QuadInv'
<1> DEFINE ds == req[c].d
           sid == req[c].sid
           es == SetToSeq(InsertEntries(ds, Q))
           new == [pc |-> "logged", d |-> ds, sid |-> sid, quads |-> Q, raced |-> FALSE]
<1>1. Q \in SUBSET Quads /\ FileData \subseteq Quads /\ MaxLog \in Nat
  BY DEF PersistenceAssumption
<1>2. req[c].pc = "resolved" /\ req[c] # Idle /\ ds \in Datasets /\ sid \in 1..Len(stores)
  BY HeldIs DEF QuadInv, UploadLog
<1>3. /\ OwnEntries(es, ds)
      /\ \A S : Replay(S, es) = S \cup Reprs(Q)
  BY <1>1, InsertsWritten
<1>4. /\ log' = log \o es /\ Len(log) + Len(es) <= MaxLog
      /\ req' = [req EXCEPT ![c] = new]
      /\ tainted' = tainted \cup Pairs(ds, Q \cup Mentioned(es))
      /\ UNCHANGED <<stores, registry, up, requests, rulesTainted, unchecked>>
  BY DEF UploadLog, Appendable
<1>5. /\ new.pc = "logged" /\ new.d = ds /\ new.sid = sid /\ new.quads = Q /\ new.raced = FALSE
      /\ new \in Req(Len(stores)) /\ new # Idle
  BY <1>1, <1>2 DEF Req, Idle
<1> HIDE DEF es, new
<1>6. /\ LogOK(log') /\ Len(log') = Len(log) + Len(es)
      /\ discover_dataset_names(log') = discover_dataset_names(log)
      /\ SameFor(log', log, ds)
      /\ Stands(log, ds) =>
            /\ Rebuilt(log', ds, FileData) = Replay(Rebuilt(log, ds, FileData), es)
            /\ \A q : q \notin Mentioned(es) =>
                  (q \in Rebuilt(log', ds, FileData) <=> q \in Rebuilt(log, ds, FileData))
      /\ Mentioned(es) \subseteq Quads
  BY <1>2, <1>3, <1>4, LogsOwn DEF QuadInv
<1>7. \A b \in Clients : b # c => req'[b] = req[b]
  BY <1>4 DEF QuadInv, Typed
<1>8. req'[c] = new
  BY <1>4 DEF QuadInv, Typed
<1>9. Typed'
  <2>1. Pairs(ds, Q \cup Mentioned(es)) \subseteq Datasets \X Quads
    BY <1>1, <1>2, <1>6 DEF Pairs
  <2>2. tainted' \subseteq Datasets \X Quads
    BY <1>4, <2>1 DEF QuadInv, Typed
  <2>3. req' \in [Clients -> Req(Len(stores))]
    BY <1>4, <1>5 DEF QuadInv, Typed
  <2>4. QED
    BY <1>4, <1>6, <2>2, <2>3 DEF QuadInv, Typed
<1>10. Owners'
  BY <1>2, <1>4, <1>5, <1>7, <1>8 DEF QuadInv, Owners, Root
<1>11. DatasetsDurable'
  BY <1>4, <1>6 DEF QuadInv, DatasetsDurable, RecoveredNames
<1>12. Durable'
  <2> SUFFICES ASSUME NEW d \in DOMAIN registry, NEW q
               PROVE  \/ q \in stores[registry[d]].quads <=> q \in Rebuilt(log', d, FileData)
                      \/ <<d, q>> \in tainted'
    BY <1>4 DEF Durable
  <2>1. Stands(log, d)
    BY RegisteredStands DEF QuadInv
  <2>2. \/ q \in stores[registry[d]].quads <=> q \in Rebuilt(log, d, FileData)
        \/ <<d, q>> \in tainted
    BY DEF QuadInv, Durable
  <2>3. CASE d # ds
    BY <1>4, <1>6, <2>1, <2>2, <2>3 DEF SameFor
  <2>4. CASE d = ds /\ q \in Mentioned(es)
    BY <1>4, <2>4, PairsIs
  <2>5. CASE d = ds /\ q \notin Mentioned(es)
    BY <1>4, <1>6, <2>1, <2>2, <2>5
  <2>6. QED
    BY <2>3, <2>4, <2>5
<1>13. Waiting'
  <2> SUFFICES ASSUME NEW b \in Clients, Waits(req[b])', NEW q \in req'[b].quads
               PROVE  /\ q \in Faithful(Quads) => q \in Rebuilt(log', req'[b].d, FileData)
                      /\ q \notin Faithful(Quads) => <<req'[b].d, q>> \in tainted'
    BY DEF Waiting
  <2>1. /\ req'[b].pc = "logged" /\ req'[b].raced = FALSE
        /\ req'[b].d \in DOMAIN registry /\ registry[req'[b].d] = req'[b].sid
    BY <1>4 DEF Waits
  <2>2. Stands(log, req'[b].d)
    BY <2>1, RegisteredStands DEF QuadInv
  <2>3. CASE b = c
    <3>1. q \in Q /\ req'[b].d = ds /\ Stands(log, ds)
      BY <1>5, <1>8, <2>2, <2>3
    <3>2. q \in Faithful(Quads) => q \in Reprs(Q)
      BY <3>1 DEF Faithful, Reprs
    <3>3. q \in Faithful(Quads) => q \in Rebuilt(log', ds, FileData)
      BY <1>3, <1>6, <3>1, <3>2
    <3>4. <<ds, q>> \in tainted'
      BY <1>4, <3>1, PairsIs
    <3>5. QED
      BY <3>1, <3>3, <3>4
  <2>4. CASE b # c
    <3>1. req'[b] = req[b]
      BY <1>7, <2>4
    <3>2. /\ q \in Faithful(Quads) => q \in Rebuilt(log, req[b].d, FileData)
          /\ q \notin Faithful(Quads) => <<req[b].d, q>> \in tainted
      BY <2>1, <3>1 DEF QuadInv, Waiting, Waits
    <3>3. q \in Rebuilt(log, req[b].d, FileData) => q \in Rebuilt(log', req[b].d, FileData)
      <4>1. CASE req[b].d = ds
        BY <1>3, <1>6, <2>2, <3>1, <4>1
      <4>2. CASE req[b].d # ds
        BY <1>6, <2>2, <3>1, <4>2 DEF SameFor
      <4>3. QED
        BY <4>1, <4>2
    <3>4. tainted \subseteq tainted'
      BY <1>4
    <3>5. QED
      BY <3>1, <3>2, <3>3, <3>4
  <2>5. QED
    BY <2>3, <2>4
<1>14. QED
  BY <1>9, <1>10, <1>11, <1>12, <1>13 DEF QuadInv

\* One store gets other quads, or other rules.
LEMMA QuadsChange ==
    ASSUME Typed, NEW sid \in 1..Len(stores), NEW Q \in SUBSET Quads,
           stores' = [stores EXCEPT ![sid].quads = Q]
    PROVE  /\ \E Y : stores' \in Seq(Y)
           /\ Len(stores') = Len(stores)
           /\ \A i \in 1..Len(stores) : StoreOK(stores'[i])
           /\ stores'[sid].quads = Q /\ stores'[sid].rules = stores[sid].rules
           /\ \A i \in 1..Len(stores) : i # sid => stores'[i] = stores[i]
<1> DEFINE v == [stores[sid] EXCEPT !.quads = Q]
<1>1. PICK X : stores \in Seq(X)
  BY DEF Typed
<1>2. StoreOK(stores[sid])
  BY DEF Typed
<1>3. StoreOK(v) /\ v.quads = Q /\ v.rules = stores[sid].rules
  BY <1>2 DEF StoreOK
<1>4. stores' = [stores EXCEPT ![sid] = v]
  OBVIOUS
<1> HIDE DEF v
<1>5. /\ \E Y : stores' \in Seq(Y)
      /\ Len(stores') = Len(stores)
      /\ stores'[sid] = v
      /\ \A i \in 1..Len(stores) : i # sid => stores'[i] = stores[i]
  <2>1. stores' \in Seq(X \cup {v})
    BY <1>1, <1>4
  <2>2. Len(stores') = Len(stores)
    BY <1>1, <1>4
  <2>3. DOMAIN stores = 1..Len(stores)
    BY <1>1
  <2>4. stores'[sid] = v /\ \A i \in 1..Len(stores) : i # sid => stores'[i] = stores[i]
    BY <1>4, <2>3
  <2>5. QED
    BY <2>1, <2>2, <2>4
<1>6. QED
  BY <1>3, <1>5 DEF Typed

LEMMA RulesChange ==
    ASSUME Typed, NEW sid \in 1..Len(stores), NEW R,
           stores' = [stores EXCEPT ![sid].rules = R]
    PROVE  /\ \E Y : stores' \in Seq(Y)
           /\ Len(stores') = Len(stores)
           /\ \A i \in 1..Len(stores) : StoreOK(stores'[i])
           /\ stores'[sid].rules = R
           /\ \A i \in 1..Len(stores) : /\ stores'[i].quads = stores[i].quads
                                        /\ i # sid => stores'[i] = stores[i]
<1> DEFINE v == [stores[sid] EXCEPT !.rules = R]
<1>1. PICK X : stores \in Seq(X)
  BY DEF Typed
<1>2. StoreOK(stores[sid])
  BY DEF Typed
<1>3. StoreOK(v) /\ v.rules = R /\ v.quads = stores[sid].quads
  BY <1>2 DEF StoreOK
<1>4. stores' = [stores EXCEPT ![sid] = v]
  OBVIOUS
<1> HIDE DEF v
<1>5. /\ \E Y : stores' \in Seq(Y)
      /\ Len(stores') = Len(stores)
      /\ stores'[sid] = v
      /\ \A i \in 1..Len(stores) : i # sid => stores'[i] = stores[i]
  <2>1. stores' \in Seq(X \cup {v})
    BY <1>1, <1>4
  <2>2. Len(stores') = Len(stores)
    BY <1>1, <1>4
  <2>3. DOMAIN stores = 1..Len(stores)
    BY <1>1
  <2>4. stores'[sid] = v /\ \A i \in 1..Len(stores) : i # sid => stores'[i] = stores[i]
    BY <1>4, <2>3
  <2>5. QED
    BY <2>1, <2>2, <2>4
<1>6. QED
  BY <1>3, <1>5 DEF Typed

LEMMA UploadApplyStep ==
    ASSUME PersistenceAssumption, QuadInv, NEW c \in Clients, UploadApply(c)
    PROVE  QuadInv'
<1> DEFINE ds == req[c].d
           sid == req[c].sid
           Q == req[c].quads
           fresh == Current(c) /\ req[c].raced = FALSE
<1>1. /\ req[c].pc = "logged" /\ req[c] # Idle /\ ds \in Datasets /\ sid \in 1..Len(stores)
      /\ Q \subseteq Quads /\ req[c].raced \in BOOLEAN
  BY HeldIs DEF QuadInv, UploadApply
<1>2. /\ fresh => tainted' = tainted \ Pairs(ds, Q \cap Faithful(Quads))
      /\ ~fresh => tainted' = tainted \cup Pairs(ds, Q)
  BY <1>1 DEF UploadApply
<1>3. /\ UNCHANGED <<log, registry, up, requests, rulesTainted>>
      /\ Done(c, {})
      /\ unchecked' = unchecked \cup {ds}
      /\ stores' = [stores EXCEPT ![sid].quads = stores[sid].quads \cup Q]
  BY DEF UploadApply
<1>4. StoreOK(stores[sid])
  BY <1>1 DEF QuadInv, Typed
<1>5. /\ \E Y : stores' \in Seq(Y)
      /\ Len(stores') = Len(stores)
      /\ \A i \in 1..Len(stores) : StoreOK(stores'[i])
      /\ stores'[sid].quads = stores[sid].quads \cup Q
      /\ \A i \in 1..Len(stores) : i # sid => stores'[i] = stores[i]
  <2> DEFINE T == stores[sid].quads \cup Q
  <2>1. T \in SUBSET Quads
    BY <1>1, <1>4 DEF StoreOK
  <2>2. stores' = [stores EXCEPT ![sid].quads = T]
    BY <1>3
  <2> HIDE DEF T
  <2>3. /\ \E Y : stores' \in Seq(Y)
        /\ Len(stores') = Len(stores)
        /\ \A i \in 1..Len(stores) : StoreOK(stores'[i])
        /\ stores'[sid].quads = T
        /\ \A i \in 1..Len(stores) : i # sid => stores'[i] = stores[i]
    BY <1>1, <2>1, <2>2, QuadsChange DEF QuadInv
  <2>4. QED
    BY <2>3 DEF T
<1>6. /\ req' \in [Clients -> Req(Len(stores))]
      /\ req'[c] = Idle
      /\ \A b \in Clients : Follows(req'[b], req[b], {})
  BY <1>3, DoneFollows DEF QuadInv, Typed
<1>7. fresh <=> Waits(req[c])
  BY <1>1 DEF Current, Waits
<1>8. \A d \in DOMAIN registry : registry[d] \in 1..Len(stores) /\ (registry[d] = sid => d = ds)
  BY <1>1 DEF QuadInv, Owners, Typed
<1>9. ds \in DOMAIN registry /\ registry[ds] = sid <=> Current(c)
  BY DEF Current
<1> HIDE DEF fresh
<1>10. Typed'
  <2>1. tainted' \subseteq Datasets \X Quads
    <3>1. Pairs(ds, Q) \subseteq Datasets \X Quads
      BY <1>1 DEF Pairs
    <3>2. QED
      BY <1>2, <3>1 DEF QuadInv, Typed
  <2>2. QED
    BY <1>1, <1>3, <1>5, <1>6, <2>1 DEF QuadInv, Typed
<1>11. Owners'
  BY <1>3, <1>6, OwnersKept DEF QuadInv
<1>12. DatasetsDurable'
  BY <1>3 DEF QuadInv, DatasetsDurable, RecoveredNames
<1>13. Durable'
  <2> SUFFICES ASSUME NEW d \in DOMAIN registry, NEW q
               PROVE  \/ q \in stores'[registry[d]].quads <=> q \in Rebuilt(log, d, FileData)
                      \/ <<d, q>> \in tainted'
    BY <1>3 DEF Durable
  <2>1. \/ q \in stores[registry[d]].quads <=> q \in Rebuilt(log, d, FileData)
        \/ <<d, q>> \in tainted
    BY DEF QuadInv, Durable
  <2>2. <<d, q>> \in tainted => \/ <<d, q>> \in tainted'
                                \/ fresh /\ d = ds /\ q \in Q /\ q \in Faithful(Quads)
    <3>1. CASE fresh
      BY <1>2, <3>1, PairsIs
    <3>2. CASE ~fresh
      BY <1>2, <3>2
    <3>3. QED
      BY <3>1, <3>2
  <2>3. CASE registry[d] # sid
    <3>1. stores'[registry[d]].quads = stores[registry[d]].quads
      BY <1>5, <1>8, <2>3
    <3>2. ~(fresh /\ d = ds)
      BY <1>9, <2>3 DEF fresh
    <3>3. QED
      BY <2>1, <2>2, <3>1, <3>2
  <2>4. CASE registry[d] = sid
    <3>1. d = ds /\ stores'[registry[d]].quads = stores[registry[d]].quads \cup Q
      BY <1>5, <1>8, <2>4
    <3>2. CASE q \notin Q
      BY <2>1, <2>2, <3>1, <3>2
    <3>3. CASE q \in Q /\ ~fresh
      BY <1>2, <3>1, <3>3, PairsIs
    <3>4. CASE q \in Q /\ fresh
      <4>1. /\ q \in Faithful(Quads) => q \in Rebuilt(log, ds, FileData)
            /\ q \notin Faithful(Quads) => <<ds, q>> \in tainted
        BY <1>7, <3>4 DEF QuadInv, Waiting
      <4>2. QED
        BY <2>2, <3>1, <3>4, <4>1
    <3>5. QED
      BY <3>2, <3>3, <3>4
  <2>5. QED
    BY <2>3, <2>4
<1>14. Waiting'
  <2> SUFFICES ASSUME NEW b \in Clients, Waits(req[b])', NEW q \in req'[b].quads
               PROVE  /\ q \in Faithful(Quads) => q \in Rebuilt(log, req'[b].d, FileData)
                      /\ q \notin Faithful(Quads) => <<req'[b].d, q>> \in tainted'
    BY <1>3 DEF Waiting
  <2>1. req'[b].pc = "logged" /\ req'[b].raced = FALSE
    BY DEF Waits
  <2>2. req'[b] = req[b]
    BY <1>6, <2>1 DEF Follows
  <2>3. Waits(req[b])
    BY <1>3, <2>2 DEF Waits
  <2>4. /\ q \in Faithful(Quads) => q \in Rebuilt(log, req[b].d, FileData)
        /\ q \notin Faithful(Quads) => <<req[b].d, q>> \in tainted
    BY <2>2, <2>3 DEF QuadInv, Waiting
  <2>5. q \notin Faithful(Quads) /\ <<req[b].d, q>> \in tainted => <<req[b].d, q>> \in tainted'
    BY <1>2, PairsIs
  <2>6. QED
    BY <2>2, <2>4, <2>5
<1>15. QED
  BY <1>10, <1>11, <1>12, <1>13, <1>14 DEF QuadInv

LEMMA LockedWriteStep ==
    ASSUME PersistenceAssumption, QuadInv, NEW c \in Clients, LockedWrite(c)
    PROVE  QuadInv'
<1> DEFINE ds == req[c].d
           sid == req[c].sid
           s == stores[sid]
<1>1. req[c].pc = "resolved" /\ req[c] # Idle /\ ds \in Datasets /\ sid \in 1..Len(stores)
  BY HeldIs DEF QuadInv, LockedWrite
<1>2. StoreOK(s) /\ s.quads \subseteq Quads
  BY <1>1 DEF QuadInv, Typed, StoreOK
<1>3. PICK o \in Writes(ds, s) :
        /\ log' = log \o o.entries /\ Len(log) + Len(o.entries) <= MaxLog
        /\ stores' = [stores EXCEPT ![sid].quads = o.quads]
        /\ tainted' = Settle(c, o)
        /\ unchecked' = IF o.checked THEN unchecked ELSE unchecked \cup {ds}
  BY DEF LockedWrite, Held, Appendable
<1> DEFINE es == o.entries
           T == o.quads
           both == Changed(s.quads, T) \cup Mentioned(es)
           good == o.settled \cap Faithful(Quads)
<1>4. /\ UNCHANGED <<registry, up, requests, rulesTainted>>
      /\ Done(c, {ds})
  BY DEF LockedWrite
<1>5. Written(o, ds, s)
  BY <1>2, WritesWritten
<1>6. /\ OwnEntries(es, ds) /\ T \in SUBSET Quads
      /\ \A S : \A q \in good : q \in T <=> q \in Replay(S, es)
  BY <1>5 DEF Written
<1>7. /\ Current(c) => tainted' = (tainted \cup Pairs(ds, both)) \ Pairs(ds, good)
      /\ ~Current(c) => tainted' = tainted \cup Pairs(ds, Mentioned(es))
  BY <1>3 DEF Settle, Held
<1>8. Current(c) <=> ds \in DOMAIN registry /\ registry[ds] = sid
  BY DEF Current
<1> HIDE DEF es, T, good
<1>9. /\ log' = log \o es /\ Len(log) + Len(es) <= MaxLog
      /\ stores' = [stores EXCEPT ![sid].quads = T]
      /\ unchecked' \subseteq unchecked \cup {ds}
  BY <1>3 DEF es, T
<1>10. /\ LogOK(log') /\ Len(log') = Len(log) + Len(es)
       /\ discover_dataset_names(log') = discover_dataset_names(log)
       /\ SameFor(log', log, ds)
       /\ Stands(log, ds) =>
             /\ Rebuilt(log', ds, FileData) = Replay(Rebuilt(log, ds, FileData), es)
             /\ \A q : q \notin Mentioned(es) =>
                   (q \in Rebuilt(log', ds, FileData) <=> q \in Rebuilt(log, ds, FileData))
       /\ Mentioned(es) \subseteq Quads
  BY <1>1, <1>6, <1>9, LogsOwn DEF QuadInv
<1>11. /\ \E Y : stores' \in Seq(Y)
       /\ Len(stores') = Len(stores)
       /\ \A i \in 1..Len(stores) : StoreOK(stores'[i])
       /\ stores'[sid].quads = T
       /\ \A i \in 1..Len(stores) : i # sid => stores'[i] = stores[i]
  BY <1>1, <1>6, <1>9, QuadsChange DEF QuadInv
<1>12. /\ req' \in [Clients -> Req(Len(stores))]
       /\ req'[c] = Idle
       /\ \A b \in Clients : Follows(req'[b], req[b], {ds})
  BY <1>4, DoneFollows DEF QuadInv, Typed
<1>13. \A d \in DOMAIN registry : registry[d] \in 1..Len(stores) /\ (registry[d] = sid => d = ds)
  BY <1>1 DEF QuadInv, Owners, Typed
<1>14. Typed'
  <2>1. both \subseteq Quads
    BY <1>2, <1>6, <1>10 DEF Changed
  <2>2. /\ Pairs(ds, both) \subseteq Datasets \X Quads
        /\ Pairs(ds, Mentioned(es)) \subseteq Datasets \X Quads
    BY <1>1, <1>10, <2>1 DEF Pairs
  <2> HIDE DEF both
  <2>3. tainted' \subseteq Datasets \X Quads
    BY <1>7, <2>2 DEF QuadInv, Typed
  <2>4. QED
    BY <1>1, <1>4, <1>9, <1>10, <1>11, <1>12, <2>3 DEF QuadInv, Typed
<1>15. Owners'
  BY <1>4, <1>12, OwnersKept DEF QuadInv
<1>16. DatasetsDurable'
  BY <1>4, <1>10 DEF QuadInv, DatasetsDurable, RecoveredNames
<1>17. Durable'
  <2> SUFFICES ASSUME NEW d \in DOMAIN registry, NEW q
               PROVE  \/ q \in stores'[registry[d]].quads <=> q \in Rebuilt(log', d, FileData)
                      \/ <<d, q>> \in tainted'
    BY <1>4 DEF Durable
  <2>1. Stands(log, d)
    BY RegisteredStands DEF QuadInv
  <2>2. \/ q \in stores[registry[d]].quads <=> q \in Rebuilt(log, d, FileData)
        \/ <<d, q>> \in tainted
    BY DEF QuadInv, Durable
  <2>3. CASE d # ds
    <3>1. stores'[registry[d]].quads = stores[registry[d]].quads
      BY <1>11, <1>13, <2>3
    <3>2. Rebuilt(log', d, FileData) = Rebuilt(log, d, FileData)
      BY <1>10, <2>1, <2>3 DEF SameFor
    <3>3. <<d, q>> \in tainted => <<d, q>> \in tainted'
      BY <1>7, <2>3, PairsIs
    <3>4. QED
      BY <2>2, <3>1, <3>2, <3>3
  <2>4. CASE d = ds /\ Current(c)
    <3>1. /\ stores[registry[d]].quads = s.quads
          /\ stores'[registry[d]].quads = T
      BY <1>8, <1>11, <2>4
    <3>2. CASE q \in good
      <4>1. q \in T <=> q \in Rebuilt(log', ds, FileData)
        BY <1>6, <1>10, <2>1, <2>4, <3>2
      <4>2. QED
        BY <2>4, <3>1, <4>1
    <3>3. CASE q \notin good /\ q \in both
      BY <1>7, <2>4, <3>3, PairsIs
    <3>4. CASE q \notin good /\ q \notin both
      <4>1. /\ q \in s.quads <=> q \in T
            /\ q \notin Mentioned(es)
        BY <3>4 DEF Changed
      <4>2. q \in Rebuilt(log', d, FileData) <=> q \in Rebuilt(log, d, FileData)
        BY <1>10, <2>1, <2>4, <4>1
      <4>3. <<d, q>> \in tainted => <<d, q>> \in tainted'
        BY <1>7, <2>4, <3>4, PairsIs
      <4>4. QED
        BY <2>2, <3>1, <4>1, <4>2, <4>3
    <3>5. QED
      BY <3>2, <3>3, <3>4
  <2>5. CASE d = ds /\ ~Current(c)
    <3>1. stores'[registry[d]].quads = stores[registry[d]].quads
      BY <1>8, <1>11, <1>13, <2>5
    <3>2. CASE q \in Mentioned(es)
      BY <1>7, <2>5, <3>2, PairsIs
    <3>3. CASE q \notin Mentioned(es)
      <4>1. q \in Rebuilt(log', d, FileData) <=> q \in Rebuilt(log, d, FileData)
        BY <1>10, <2>1, <2>5, <3>3
      <4>2. <<d, q>> \in tainted => <<d, q>> \in tainted'
        BY <1>7, <2>5
      <4>3. QED
        BY <2>2, <3>1, <4>1, <4>2
    <3>4. QED
      BY <3>2, <3>3
  <2>6. QED
    BY <2>3, <2>4, <2>5
<1>18. Waiting'
  <2> SUFFICES ASSUME NEW b \in Clients, Waits(req[b])', NEW q \in req'[b].quads
               PROVE  /\ q \in Faithful(Quads) => q \in Rebuilt(log', req'[b].d, FileData)
                      /\ q \notin Faithful(Quads) => <<req'[b].d, q>> \in tainted'
    BY DEF Waiting
  <2>1. req'[b].pc = "logged" /\ req'[b].raced = FALSE
    BY DEF Waits
  <2>2. req'[b] = req[b] /\ req[b].d # ds
    BY <1>12, <2>1 DEF Follows
  <2>3. Waits(req[b])
    BY <1>4, <2>2 DEF Waits
  <2>4. /\ q \in Faithful(Quads) => q \in Rebuilt(log, req[b].d, FileData)
        /\ q \notin Faithful(Quads) => <<req[b].d, q>> \in tainted
    BY <2>2, <2>3 DEF QuadInv, Waiting
  <2>5. Stands(log, req[b].d)
    BY <2>3, RegisteredStands DEF QuadInv, Waits
  <2>6. Rebuilt(log', req[b].d, FileData) = Rebuilt(log, req[b].d, FileData)
    BY <1>10, <2>2, <2>5 DEF SameFor
  <2>7. <<req[b].d, q>> \in tainted => <<req[b].d, q>> \in tainted'
    BY <1>7, <2>2, PairsIs
  <2>8. QED
    BY <2>2, <2>4, <2>6, <2>7
<1>19. QED
  BY <1>14, <1>15, <1>16, <1>17, <1>18 DEF QuadInv

LEMMA RulesOpStep ==
    ASSUME PersistenceAssumption, QuadInv, NEW c \in Clients, NEW d0 \in Datasets,
           NEW e \in RulesetEntries(d0), RulesOp(c, e)
    PROVE  QuadInv'
<1> DEFINE sid == req[c].sid
           R == ApplyRuleset(Held(c).rules, e)
<1>1. req[c].pc = "resolved" /\ req[c] # Idle /\ sid \in 1..Len(stores)
  BY HeldIs DEF QuadInv, RulesOp
<1>2. e.dataset = d0
  BY DEF RulesetEntries
<1>3. /\ stores' = [stores EXCEPT ![sid].rules = R]
      /\ \/ Len(log) + Len(<<e>>) <= MaxLog /\ log' = Append(log, e)
         \/ log' = log
      /\ rulesTainted' = rulesTainted \/ rulesTainted' = rulesTainted \cup {d0}
      /\ Done(c, {})
      /\ UNCHANGED <<registry, up, requests, tainted, unchecked>>
  BY <1>2 DEF RulesOp, Appendable
<1> HIDE DEF R
<1>4. /\ \E Y : stores' \in Seq(Y)
      /\ Len(stores') = Len(stores)
      /\ \A i \in 1..Len(stores) : StoreOK(stores'[i])
      /\ \A i \in 1..Len(stores) : stores'[i].quads = stores[i].quads
  BY <1>1, <1>3, RulesChange DEF QuadInv
<1>5. /\ req' \in [Clients -> Req(Len(stores))]
      /\ req'[c] = Idle
      /\ \A b \in Clients : Follows(req'[b], req[b], {})
  BY <1>3, DoneFollows DEF QuadInv, Typed
<1>6. /\ LogOK(log') /\ Len(log') <= MaxLog
      /\ discover_dataset_names(log') = discover_dataset_names(log)
      /\ \A d : Stands(log, d) => Rebuilt(log', d, FileData) = Rebuilt(log, d, FileData)
  <2>1. CASE log' = log
    BY <2>1 DEF QuadInv, Typed
  <2>2. CASE Len(log) + Len(<<e>>) <= MaxLog /\ log' = Append(log, e)
    <3>1. LogOK(log)
      BY DEF QuadInv, Typed
    <3>2. PICK X : log \in Seq(X)
      BY <3>1 DEF LogOK
    <3>3. Len(log') <= MaxLog
      BY <2>2, <3>2
    <3>4. /\ LogOK(Append(log, e))
          /\ discover_dataset_names(Append(log, e)) = discover_dataset_names(log)
          /\ \A d : Stands(log, d) =>
                Rebuilt(Append(log, e), d, FileData) = Rebuilt(log, d, FileData)
      BY <3>1, LogRuleset
    <3>5. QED
      BY <2>2, <3>3, <3>4
  <2>3. QED
    BY <1>3, <2>1, <2>2
<1>7. Typed'
  <2>1. rulesTainted' \subseteq Datasets
    BY <1>3 DEF QuadInv, Typed
  <2>2. QED
    BY <1>3, <1>4, <1>5, <1>6, <2>1 DEF QuadInv, Typed
<1>8. Owners'
  BY <1>3, <1>5, OwnersKept DEF QuadInv
<1>9. DatasetsDurable'
  BY <1>3, <1>6 DEF QuadInv, DatasetsDurable, RecoveredNames
<1>10. Durable'
  <2> SUFFICES ASSUME NEW d \in DOMAIN registry, NEW q
               PROVE  \/ q \in stores'[registry[d]].quads <=> q \in Rebuilt(log', d, FileData)
                      \/ <<d, q>> \in tainted
    BY <1>3 DEF Durable
  <2>1. Stands(log, d)
    BY RegisteredStands DEF QuadInv
  <2>2. \/ q \in stores[registry[d]].quads <=> q \in Rebuilt(log, d, FileData)
        \/ <<d, q>> \in tainted
    BY DEF QuadInv, Durable
  <2>3. stores'[registry[d]].quads = stores[registry[d]].quads
    BY <1>4 DEF QuadInv, Typed
  <2>4. QED
    BY <1>6, <2>1, <2>2, <2>3
<1>11. Waiting'
  <2> SUFFICES ASSUME NEW b \in Clients, Waits(req[b])', NEW q \in req'[b].quads
               PROVE  /\ q \in Faithful(Quads) => q \in Rebuilt(log', req'[b].d, FileData)
                      /\ q \notin Faithful(Quads) => <<req'[b].d, q>> \in tainted
    BY <1>3 DEF Waiting
  <2>1. req'[b].pc = "logged" /\ req'[b].raced = FALSE
    BY DEF Waits
  <2>2. req'[b] = req[b]
    BY <1>5, <2>1 DEF Follows
  <2>3. Waits(req[b])
    BY <1>3, <2>2 DEF Waits
  <2>4. /\ q \in Faithful(Quads) => q \in Rebuilt(log, req[b].d, FileData)
        /\ q \notin Faithful(Quads) => <<req[b].d, q>> \in tainted
    BY <2>2, <2>3 DEF QuadInv, Waiting
  <2>5. Stands(log, req[b].d)
    BY <2>3, RegisteredStands DEF QuadInv, Waits
  <2>6. QED
    BY <1>6, <2>2, <2>4, <2>5
<1>12. QED
  BY <1>7, <1>8, <1>9, <1>10, <1>11 DEF QuadInv

LEMMA ResolveStep ==
    ASSUME QuadInv, NEW c \in Clients, NEW d \in Datasets, Resolve(c, d)
    PROVE  QuadInv'
<1>1. PICK sid \in (IF d \in DOMAIN registry THEN {registry[d]} ELSE {})
                   \cup (IF d = MainDataset THEN {Root} ELSE {}) :
         req' = [req EXCEPT ![c] = [pc |-> "resolved", d |-> d, sid |-> sid]]
  BY DEF Resolve
<1> DEFINE r == [pc |-> "resolved", d |-> d, sid |-> sid]
<1>2. /\ UNCHANGED <<log, stores, registry, up, tainted, rulesTainted, unchecked>>
      /\ up = TRUE
  BY DEF Resolve, history, QuadInv, Typed
<1>3. \/ d \in DOMAIN registry /\ sid = registry[d]
      \/ d = MainDataset /\ sid = Root
  BY <1>1
<1>4. sid \in 1..Len(stores)
  <2>1. \E X : stores \in Seq(X)
    BY DEF QuadInv, Typed
  <2>2. Len(stores) \in Nat /\ Len(stores) > 0
    BY <1>2, <2>1 DEF QuadInv, Typed
  <2>3. QED
    BY <1>3, <2>2 DEF QuadInv, Typed, Root
<1>5. r.pc = "resolved" /\ r.d = d /\ r.sid = sid /\ r \in Req(Len(stores))
  BY <1>4 DEF Req
<1> HIDE DEF r
<1>6. /\ req' \in [Clients -> Req(Len(stores))]
      /\ \A b \in Clients : req'[b] = IF b = c THEN r ELSE req[b]
  BY <1>1, <1>5 DEF QuadInv, Typed, r
<1>7. Typed'
  BY <1>2, <1>6 DEF QuadInv, Typed
<1>8. Owners'
  <2>1. \A n \in DOMAIN registry : registry[n] = sid => n = d
    BY <1>3 DEF QuadInv, Owners
  <2>2. QED
    BY <1>2, <1>5, <1>6, <2>1 DEF QuadInv, Owners, Root
<1>9. DatasetsDurable'
  BY <1>2 DEF QuadInv, DatasetsDurable, RecoveredNames
<1>10. Durable'
  BY <1>2 DEF QuadInv, Durable
<1>11. Waiting'
  <2>1. \A b \in Clients : Waits(req[b])' => req'[b] = req[b] /\ Waits(req[b])
    BY <1>2, <1>5, <1>6 DEF Waits
  <2>2. QED
    BY <1>2, <2>1 DEF QuadInv, Waiting
<1>12. QED
  BY <1>7, <1>8, <1>9, <1>10, <1>11 DEF QuadInv

LEMMA CreateDatasetStep ==
    ASSUME PersistenceAssumption, QuadInv, NEW d \in Datasets, CreateDataset(d)
    PROVE  QuadInv'
<1> DEFINE e == [op |-> "CreateDataset", name |-> d]
           s == [quads |-> {}, rules |-> NoRules]
           n == Len(stores)
<1>1. /\ up = TRUE
      /\ d \notin DOMAIN registry
      /\ Len(log) + Len(<<e>>) <= MaxLog
      /\ log' = Append(log, e)
      /\ stores' = Append(stores, s)
      /\ registry' = Put(registry, d, n + 1)
      /\ tainted' = tainted \ Pairs(d, Quads)
      /\ rulesTainted' = rulesTainted \ {d}
      /\ unchecked' = unchecked \ {d}
      /\ UNCHANGED <<req, up, requests>>
  BY DEF CreateDataset, Appendable, QuadInv, Typed
<1>2. /\ LogOK(log')
      /\ discover_dataset_names(log') = discover_dataset_names(log) \cup {d}
      /\ SameFor(log', log, d)
      /\ Rebuilt(log', d, FileData) = {}
  BY <1>1, LogCreate DEF QuadInv, Typed
<1>3. StoreOK(s) /\ s.quads = {}
  BY DEF StoreOK
<1> HIDE DEF s, e
<1>4. PICK X : stores \in Seq(X)
  BY DEF QuadInv, Typed
<1>5. /\ stores' \in Seq(X \cup {s}) /\ Len(stores') = n + 1 /\ n \in Nat
      /\ stores'[n + 1] = s
      /\ \A i \in 1..n : stores'[i] = stores[i]
  BY <1>1, <1>4
<1>6. /\ DOMAIN registry' = DOMAIN registry \cup {d}
      /\ registry'[d] = n + 1
      /\ \A c \in DOMAIN registry : registry'[c] = registry[c] /\ registry[c] \in 1..n /\ c # d
  BY <1>1 DEF Put, QuadInv, Typed
<1> HIDE DEF n
<1>7. 1..n \subseteq 1..(n + 1) /\ n + 1 \notin 1..n /\ n + 1 \in 1..(n + 1) /\ n + 1 > 0
  BY <1>5
<1>8. \A c \in Clients : req[c] \in Req(n) /\ (req[c] # Idle => req[c].sid \in 1..n)
  BY DEF QuadInv, Typed, Req, n
<1>9. Typed'
  <2>1. Len(log') <= MaxLog
    <3>1. \E Y : log \in Seq(Y)
      BY DEF QuadInv, Typed, LogOK
    <3>2. QED
      BY <1>1, <3>1
  <2>2. \A i \in 1..(n + 1) : StoreOK(stores'[i])
    <3>1. \A i \in 1..(n + 1) : i \in 1..n \/ i = n + 1
      BY <1>5
    <3>2. \A i \in 1..n : StoreOK(stores[i])
      BY DEF QuadInv, Typed, n
    <3>3. QED
      BY <1>3, <1>5, <3>1, <3>2
  <2>3. req' \in [Clients -> Req(n + 1)]
    <3>1. \A r \in Req(n) : r \in Req(n + 1)
      BY <1>7 DEF Req
    <3>2. req \in [Clients -> Req(n)]
      BY DEF QuadInv, Typed, n
    <3>3. QED
      BY <1>1, <3>1, <3>2
  <2>4. \A c \in DOMAIN registry' : registry'[c] \in 1..(n + 1)
    BY <1>6, <1>7
  <2>5. QED
    BY <1>1, <1>2, <1>5, <1>6, <1>7, <2>1, <2>2, <2>3, <2>4 DEF QuadInv, Typed
<1>10. Owners'
  <2>1. \A c, b \in DOMAIN registry' : registry'[c] = registry'[b] => c = b
    BY <1>6, <1>7 DEF QuadInv, Owners
  <2>2. \A c \in DOMAIN registry' : registry'[c] = Root => c = MainDataset
    <3>1. 1 \in 1..n
      BY <1>1, <1>5 DEF QuadInv, Typed, n
    <3>2. n + 1 # Root
      BY <1>7, <3>1 DEF Root
    <3>3. QED
      BY <1>6, <3>2 DEF QuadInv, Owners
  <2>3. \A c \in Clients : \A b \in DOMAIN registry' :
           req'[c] # Idle /\ registry'[b] = req'[c].sid => b = req'[c].d
    BY <1>1, <1>6, <1>7, <1>8 DEF QuadInv, Owners
  <2>4. QED
    BY <2>1, <2>2, <2>3 DEF Owners
<1>11. DatasetsDurable'
  BY <1>1, <1>2, <1>6 DEF QuadInv, DatasetsDurable, RecoveredNames
<1>12. Durable'
  <2> SUFFICES ASSUME NEW c \in DOMAIN registry', NEW q
               PROVE  \/ q \in stores'[registry'[c]].quads <=> q \in Rebuilt(log', c, FileData)
                      \/ <<c, q>> \in tainted'
    BY DEF Durable
  <2>1. CASE c = d
    BY <1>2, <1>3, <1>5, <1>6, <2>1
  <2>2. CASE c # d
    <3>1. c \in DOMAIN registry /\ stores'[registry'[c]] = stores[registry[c]]
      BY <1>5, <1>6, <2>2
    <3>2. Stands(log, c)
      BY <3>1, RegisteredStands DEF QuadInv
    <3>3. Rebuilt(log', c, FileData) = Rebuilt(log, c, FileData)
      BY <1>2, <2>2, <3>2 DEF SameFor
    <3>4. <<c, q>> \in tainted => <<c, q>> \in tainted'
      BY <1>1, <2>2, PairsIs
    <3>5. \/ q \in stores[registry[c]].quads <=> q \in Rebuilt(log, c, FileData)
          \/ <<c, q>> \in tainted
      BY <3>1 DEF QuadInv, Durable
    <3>6. QED
      BY <3>1, <3>3, <3>4, <3>5
  <2>3. QED
    BY <2>1, <2>2
<1>13. Waiting'
  <2> SUFFICES ASSUME NEW b \in Clients, Waits(req[b])', NEW q \in req[b].quads
               PROVE  /\ q \in Faithful(Quads) => q \in Rebuilt(log', req[b].d, FileData)
                      /\ q \notin Faithful(Quads) => <<req[b].d, q>> \in tainted'
    BY <1>1 DEF Waiting
  <2>1. /\ req[b].pc = "logged" /\ req[b].raced = FALSE
        /\ req[b].d \in DOMAIN registry' /\ registry'[req[b].d] = req[b].sid
    BY <1>1 DEF Waits
  <2>2. req[b].sid \in 1..n
    BY <1>8, <2>1 DEF Idle
  <2>3. req[b].d # d /\ Waits(req[b]) /\ req[b].d \in DOMAIN registry
    BY <1>6, <1>7, <2>1, <2>2 DEF Waits
  <2>4. /\ q \in Faithful(Quads) => q \in Rebuilt(log, req[b].d, FileData)
        /\ q \notin Faithful(Quads) => <<req[b].d, q>> \in tainted
    BY <2>3 DEF QuadInv, Waiting
  <2>5. Stands(log, req[b].d)
    BY <2>3, RegisteredStands DEF QuadInv
  <2>6. Rebuilt(log', req[b].d, FileData) = Rebuilt(log, req[b].d, FileData)
    BY <1>2, <2>3, <2>5 DEF SameFor
  <2>7. <<req[b].d, q>> \in tainted => <<req[b].d, q>> \in tainted'
    BY <1>1, <2>3, PairsIs
  <2>8. QED
    BY <2>4, <2>6, <2>7
<1>14. QED
  BY <1>9, <1>10, <1>11, <1>12, <1>13 DEF QuadInv

LEMMA DeleteDatasetStep ==
    ASSUME PersistenceAssumption, QuadInv, NEW d \in Datasets, DeleteDataset(d)
    PROVE  QuadInv'
<1> DEFINE e == [op |-> "DeleteDataset", name |-> d]
<1>1. /\ Len(log) + Len(<<e>>) <= MaxLog
      /\ log' = Append(log, e)
      /\ registry' = [c \in DOMAIN registry \ {d} |-> registry[c]]
      /\ UNCHANGED <<stores, req, up, requests, tainted, rulesTainted, unchecked>>
  BY DEF DeleteDataset, Appendable, history
<1>2. /\ LogOK(log')
      /\ discover_dataset_names(log') = discover_dataset_names(log) \ {d}
      /\ SameFor(log', log, d)
  BY <1>1, LogDelete DEF QuadInv, Typed
<1> HIDE DEF e
<1>3. /\ DOMAIN registry' = DOMAIN registry \ {d}
      /\ \A c \in DOMAIN registry' : c \in DOMAIN registry /\ registry'[c] = registry[c] /\ c # d
  BY <1>1
<1>4. \A c \in DOMAIN registry' : Rebuilt(log', c, FileData) = Rebuilt(log, c, FileData)
  <2> SUFFICES ASSUME NEW c \in DOMAIN registry'
               PROVE  Rebuilt(log', c, FileData) = Rebuilt(log, c, FileData)
    OBVIOUS
  <2>1. c # d /\ Stands(log, c)
    BY <1>3, RegisteredStands DEF QuadInv
  <2>2. QED
    BY <1>2, <2>1 DEF SameFor
<1>5. Typed'
  <2>1. Len(log') <= MaxLog
    <3>1. \E Y : log \in Seq(Y)
      BY DEF QuadInv, Typed, LogOK
    <3>2. QED
      BY <1>1, <3>1
  <2>2. QED
    BY <1>1, <1>2, <1>3, <2>1 DEF QuadInv, Typed
<1>6. Owners'
  BY <1>1, <1>3 DEF QuadInv, Owners
<1>7. DatasetsDurable'
  BY <1>1, <1>2, <1>3 DEF QuadInv, DatasetsDurable, RecoveredNames
<1>8. Durable'
  <2> SUFFICES ASSUME NEW c \in DOMAIN registry', NEW q
               PROVE  \/ q \in stores[registry'[c]].quads <=> q \in Rebuilt(log', c, FileData)
                      \/ <<c, q>> \in tainted
    BY <1>1 DEF Durable
  <2>1. \/ q \in stores[registry[c]].quads <=> q \in Rebuilt(log, c, FileData)
        \/ <<c, q>> \in tainted
    BY <1>3 DEF QuadInv, Durable
  <2>2. QED
    BY <1>3, <1>4, <2>1
<1>9. Waiting'
  <2> SUFFICES ASSUME NEW b \in Clients, Waits(req[b])', NEW q \in req[b].quads
               PROVE  /\ q \in Faithful(Quads) => q \in Rebuilt(log', req[b].d, FileData)
                      /\ q \notin Faithful(Quads) => <<req[b].d, q>> \in tainted
    BY <1>1 DEF Waiting
  <2>1. /\ req[b].pc = "logged" /\ req[b].raced = FALSE
        /\ req[b].d \in DOMAIN registry' /\ registry'[req[b].d] = req[b].sid
    BY <1>1 DEF Waits
  <2>2. Waits(req[b])
    BY <1>3, <2>1 DEF Waits
  <2>3. /\ q \in Faithful(Quads) => q \in Rebuilt(log, req[b].d, FileData)
        /\ q \notin Faithful(Quads) => <<req[b].d, q>> \in tainted
    BY <2>2 DEF QuadInv, Waiting
  <2>4. QED
    BY <1>4, <2>1, <2>3
<1>10. QED
  BY <1>5, <1>6, <1>7, <1>8, <1>9 DEF QuadInv

LEMMA CrashStep ==
    ASSUME QuadInv, Crash
    PROVE  QuadInv'
<1>1. /\ up' = FALSE /\ stores' = << >> /\ registry' = << >>
      /\ req' = [c \in Clients |-> Idle]
      /\ tainted' = {} /\ rulesTainted' = {} /\ unchecked' = {}
      /\ log' = log
  BY DEF Crash
<1>2. DOMAIN registry' = {} /\ stores' \in Seq({}) /\ Len(stores') = 0
  BY <1>1
<1>3. \A c \in Clients : req'[c] = Idle
  BY <1>1
<1>4. Typed'
  BY <1>1, <1>2 DEF QuadInv, Typed, Req
<1>5. Owners'
  BY <1>2 DEF Owners
<1>6. DatasetsDurable'
  BY <1>1 DEF DatasetsDurable
<1>7. Durable'
  BY <1>2 DEF Durable
<1>8. Waiting'
  BY <1>3 DEF Waiting, Waits, Idle
<1>9. QED
  BY <1>4, <1>5, <1>6, <1>7, <1>8 DEF QuadInv

LEMMA CompactStep ==
    ASSUME PersistenceAssumption, QuadInv, Compact
    PROVE  QuadInv'
<1> DEFINE C == Contents
           M(d) == stores[registry[d]].quads
           New(d) == Derived(stores[registry[d]])
           Files(d) == IF d = MainDataset THEN FileData ELSE {}
           Odd(d) == UNION {{q, Repr[q]} : q \in {r \in C[d] : Repr[r] # r}}
           Gap(d) == Pairs(d, New(d) \cup Files(d) \cup Odd(d))
<1>1. /\ up = TRUE
      /\ log' = compact_multi(log, C)
      /\ Len(log') <= MaxLog
      /\ tainted' = UNION {Gap(d) : d \in DOMAIN registry}
      /\ rulesTainted' = rulesTainted
            \/ rulesTainted' = rulesTainted \cup {MainDataset}
      /\ req' = [b \in Clients |-> IF req[b].pc = "logged"
                                   THEN [req[b] EXCEPT !.raced = TRUE] ELSE req[b]]
      /\ UNCHANGED <<stores, registry, up, requests, unchecked>>
  BY DEF Compact, QuadInv, Typed
<1>2. /\ MainDataset \in Datasets /\ FileData \subseteq Quads
      /\ \A q \in Quads : Repr[q] \in Quads
  BY DEF PersistenceAssumption
<1>3. DOMAIN C = DOMAIN registry /\ DOMAIN registry \subseteq Datasets
  BY DEF Contents, QuadInv, Typed
<1>4. \A d \in DOMAIN registry : M(d) \subseteq Quads /\ New(d) \subseteq Quads
  BY DEF Derived, StoreOK, QuadInv, Typed
<1>5. \A d \in DOMAIN registry : C[d] = M(d) \cup New(d)
  BY DEF Contents
<1> HIDE DEF C, New, M
<1>6. \A d \in DOMAIN registry : C[d] \subseteq Quads
  BY <1>4, <1>5
<1>7. /\ LogOK(log')
      /\ discover_dataset_names(log') = DOMAIN registry \ {MainDataset}
      /\ \A d \in DOMAIN registry : Rebuilt(log', d, FileData) = Files(d) \cup Reprs(C[d])
  <2>1. LogOK(log) /\ DOMAIN C \subseteq Datasets /\ \A c \in DOMAIN C : C[c] \subseteq Quads
    BY <1>3, <1>6 DEF QuadInv, Typed
  <2>2. /\ LogOK(compact_multi(log, C))
        /\ discover_dataset_names(compact_multi(log, C)) = DOMAIN C \ {MainDataset}
        /\ \A d \in DOMAIN C : Rebuilt(compact_multi(log, C), d, FileData)
              = (IF d = MainDataset THEN FileData ELSE {}) \cup Reprs(C[d])
    BY <2>1, LogCompact
  <2>3. QED
    BY <1>1, <1>3, <2>2
<1>8. ASSUME NEW b \in Clients
      PROVE  /\ req'[b] \in Req(Len(stores)) /\ Follows(req'[b], req[b], Datasets)
             /\ req'[b].pc = "logged" => req'[b].raced = TRUE
  <2>1. req[b] \in Req(Len(stores))
    BY DEF QuadInv, Typed
  <2>2. req'[b] = IF req[b].pc = "logged" THEN [req[b] EXCEPT !.raced = TRUE] ELSE req[b]
    BY <1>1
  <2>3. CASE req[b].pc = "logged"
    <3>1. /\ [req[b] EXCEPT !.raced = TRUE] \in Req(Len(stores))
          /\ Follows([req[b] EXCEPT !.raced = TRUE], req[b], Datasets)
      BY <2>1, <2>3, FollowsIs
    <3>2. req[b] \in [pc : {"logged"}, d : Datasets, sid : 1..Len(stores),
                      quads : SUBSET Quads, raced : BOOLEAN]
      BY <2>1, <2>3 DEF Req, Idle
    <3>3. [req[b] EXCEPT !.raced = TRUE].raced = TRUE
      BY <3>2
    <3>4. QED
      BY <2>2, <2>3, <3>1, <3>3
  <2>4. CASE req[b].pc # "logged"
    BY <2>1, <2>2, <2>4, FollowsIs
  <2>5. QED
    BY <2>3, <2>4
<1>9. Typed'
  <2>1. \A d \in DOMAIN registry : Odd(d) \subseteq Quads
    BY <1>2, <1>6
  <2>2. \A d \in DOMAIN registry : Files(d) \subseteq Quads
    BY <1>2
  <2> HIDE DEF Odd, Files
  <2>3. \A d \in DOMAIN registry : Gap(d) \subseteq Datasets \X Quads
    BY <1>3, <1>4, <2>1, <2>2 DEF Pairs
  <2> HIDE DEF Gap
  <2>4. tainted' \subseteq Datasets \X Quads
    BY <1>1, <2>3
  <2>5. req' \in [Clients -> Req(Len(stores))]
    BY <1>1, <1>8
  <2>6. rulesTainted' \subseteq Datasets
    BY <1>1, <1>2 DEF QuadInv, Typed
  <2>7. QED
    BY <1>1, <1>7, <2>4, <2>5, <2>6 DEF QuadInv, Typed
<1>10. Owners'
  BY <1>1, <1>8, OwnersKept DEF QuadInv
<1>11. DatasetsDurable'
  BY <1>1, <1>7 DEF DatasetsDurable, RecoveredNames
<1>12. Durable'
  <2> SUFFICES ASSUME NEW d \in DOMAIN registry, NEW q
               PROVE  \/ q \in M(d) <=> q \in Rebuilt(log', d, FileData)
                      \/ <<d, q>> \in tainted'
    BY <1>1 DEF Durable, M
  <2>1. q \in New(d) \cup Files(d) \cup Odd(d) => <<d, q>> \in tainted'
    <3> HIDE DEF Files, Odd
    <3>1. q \in New(d) \cup Files(d) \cup Odd(d) => <<d, q>> \in Gap(d)
      BY PairsIs
    <3> HIDE DEF Gap
    <3>2. Gap(d) \subseteq tainted'
      BY <1>1
    <3>3. QED
      BY <3>1, <3>2
  <2>2. Rebuilt(log', d, FileData) = Files(d) \cup Reprs(C[d])
    BY <1>7
  <2>3. C[d] = M(d) \cup New(d)
    BY <1>5
  <2>4. q \in Reprs(C[d]) => q \in C[d] \/ q \in Odd(d)
    BY DEF Reprs
  <2>5. q \in C[d] => q \in Reprs(C[d]) \/ q \in Odd(d)
    BY DEF Reprs
  <2> HIDE DEF Odd
  <2>6. QED
    BY <2>1, <2>2, <2>3, <2>4, <2>5
<1>13. Waiting'
  BY <1>8 DEF Waiting, Waits
<1>14. QED
  BY <1>9, <1>10, <1>11, <1>12, <1>13 DEF QuadInv

\* The stores and names a start comes up with: every dataset has the store
\* rebuilt for it, and no two share one.
LEMMA Boots ==
    ASSUME PersistenceAssumption, LogOK(log)
    PROVE  /\ \E Y : BootStores \in Seq(Y)
           /\ Len(BootStores) > 0
           /\ DOMAIN BootRegistry = RecoveredNames
           /\ \A d \in RecoveredNames :
                 /\ BootRegistry[d] \in 1..Len(BootStores)
                 /\ BootStores[BootRegistry[d]] = Found(d)
                 /\ BootRegistry[d] = Root =>
                       d = MainDataset /\ d \notin discover_dataset_names(log)
           /\ \A c, d \in RecoveredNames : BootRegistry[c] = BootRegistry[d] => c = d
           /\ \A i \in 1..Len(BootStores) :
                 BootStores[i] = RootStore \/ \E d \in RecoveredNames : BootStores[i] = Found(d)
<1> DEFINE D == discover_dataset_names(log)
           ns == SetToSeq(D)
           N == Len(ns)
           first == IF MainDataset \in D THEN RootStore ELSE Found(MainDataset)
           rest == [i \in DOMAIN ns |-> Found(ns[i])]
           at(d) == CHOOSE i \in DOMAIN ns : ns[i] = d
<1>1. D \subseteq Datasets
  BY LogFinds
<1>2. IsFiniteSet(D)
  BY <1>1, FS_Subset DEF PersistenceAssumption
<1> HIDE DEF D
<1>3. /\ ns \in Seq(D)
      /\ D = {ns[i] : i \in 1..N}
      /\ \A i, j \in 1..N : ns[i] = ns[j] => i = j
  BY <1>2, Listed
<1>4. BootNames = ns /\ BootStores = <<first>> \o rest
  BY DEF BootNames, BootStores, D
<1>5. /\ DOMAIN BootRegistry = RecoveredNames
      /\ \A d \in RecoveredNames : BootRegistry[d] = IF d \in D THEN 1 + at(d) ELSE Root
  BY <1>4 DEF BootRegistry, D
<1> HIDE DEF ns
<1>6. DOMAIN ns = 1..N /\ N \in Nat
  BY <1>3
<1>7. \A d \in D : at(d) \in 1..N /\ ns[at(d)] = d
  BY <1>3, <1>6
<1> HIDE DEF at
<1>8. rest \in Seq({Found(d) : d \in D}) /\ Len(rest) = N /\ \A i \in 1..N : rest[i] = Found(ns[i])
  <2>1. rest = [i \in 1..N |-> Found(ns[i])] /\ \A i \in 1..N : ns[i] \in D
    BY <1>3, <1>6
  <2>2. rest \in [1..N -> {Found(d) : d \in D}]
    BY <2>1
  <2>3. \A i \in 1..N : rest[i] = Found(ns[i])
    BY <2>1
  <2> HIDE DEF rest
  <2>4. QED
    BY <1>6, <2>2, <2>3
<1> HIDE DEF rest, first
<1>9. /\ BootStores \in Seq({first} \cup {Found(d) : d \in D}) /\ Len(BootStores) = 1 + N
      /\ BootStores[1] = first
      /\ \A i \in 1..N : 1 + i \in 1..(1 + N) /\ BootStores[1 + i] = rest[i]
  <2> DEFINE es == <<first>>
             F == {Found(d) : d \in D}
  <2>1. es \in Seq({first}) /\ Len(es) = 1 /\ es[1] = first
    OBVIOUS
  <2>2. BootStores = es \o rest /\ rest \in Seq(F)
    BY <1>4, <1>8
  <2> HIDE DEF es, F
  <2>3. es \o rest \in Seq({first} \cup F) /\ Joins(es \o rest, es, rest)
    BY <2>1, <2>2, Appended
  <2>4. /\ Len(BootStores) = 1 + N /\ BootStores[1] = first
        /\ \A i \in 1..N : BootStores[1 + i] = rest[i]
    BY <1>8, <2>1, <2>2, <2>3 DEF Joins
  <2>5. \A i \in 1..N : 1 + i \in 1..(1 + N)
    BY <1>6
  <2>6. QED
    BY <2>2, <2>3, <2>4, <2>5 DEF F
<1>10. RecoveredNames = {MainDataset} \cup D
  BY DEF RecoveredNames, D
<1>11. ASSUME NEW d \in RecoveredNames
       PROVE  /\ BootRegistry[d] \in 1..(1 + N)
              /\ BootStores[BootRegistry[d]] = Found(d)
              /\ BootRegistry[d] = Root => d = MainDataset /\ d \notin D
  <2>1. CASE d \in D
    <3>1. BootRegistry[d] = 1 + at(d) /\ at(d) \in 1..N /\ ns[at(d)] = d
      BY <1>5, <1>7, <2>1
    <3>2. 1 + at(d) # 1
      BY <1>6, <3>1
    <3>3. QED
      BY <1>8, <1>9, <3>1, <3>2 DEF Root
  <2>2. CASE d \notin D
    <3>1. BootRegistry[d] = Root /\ d = MainDataset
      BY <1>5, <1>10, <2>2
    <3>2. BootStores[1] = Found(d)
      BY <1>9, <2>2, <3>1 DEF first
    <3>3. 1 \in 1..(1 + N)
      BY <1>6
    <3>4. QED
      BY <2>2, <3>1, <3>2, <3>3 DEF Root
  <2>3. QED
    BY <2>1, <2>2
<1>12. ASSUME NEW c \in RecoveredNames, NEW d \in RecoveredNames, BootRegistry[c] = BootRegistry[d]
       PROVE  c = d
  <2>1. CASE c \in D /\ d \in D
    <3>1. /\ BootRegistry[c] = 1 + at(c) /\ at(c) \in 1..N /\ ns[at(c)] = c
          /\ BootRegistry[d] = 1 + at(d) /\ at(d) \in 1..N /\ ns[at(d)] = d
      BY <1>5, <1>7, <2>1
    <3>2. 1 + at(c) = 1 + at(d)
      BY <1>12, <3>1
    <3>3. \A i, j \in 1..N : 1 + i = 1 + j => i = j
      BY <1>6
    <3>4. at(c) = at(d)
      BY <3>1, <3>2, <3>3
    <3>5. QED
      BY <3>1, <3>4
  <2>2. CASE c \notin D \/ d \notin D
    <3>1. BootRegistry[c] = Root \/ BootRegistry[d] = Root
      BY <1>5, <2>2
    <3>2. c = MainDataset /\ d = MainDataset
      BY <1>11, <1>12, <3>1
    <3>3. QED
      BY <3>2
  <2>3. QED
    BY <2>1, <2>2
<1>13. ASSUME NEW i \in 1..(1 + N)
       PROVE  BootStores[i] = RootStore \/ \E d \in RecoveredNames : BootStores[i] = Found(d)
  <2>1. i = 1 \/ \E k \in 1..N : i = 1 + k
    <3>1. i # 1 => i - 1 \in 1..N /\ i = 1 + (i - 1)
      BY <1>6
    <3>2. QED
      BY <3>1
  <2>2. CASE i = 1
    BY <1>9, <1>10, <2>2 DEF first
  <2>3. CASE \E k \in 1..N : i = 1 + k
    BY <1>3, <1>8, <1>9, <1>10, <2>3
  <2>4. QED
    BY <2>1, <2>2, <2>3
<1>14. Len(BootStores) > 0
  BY <1>6, <1>9
<1>15. QED
  BY <1>5, <1>9, <1>11, <1>12, <1>13, <1>14 DEF D

\* What a start finds is what the log says.
LEMMA FoundIs ==
    ASSUME PersistenceAssumption, LogOK(log), NEW d
    PROVE  StoreOK(Found(d)) /\ Found(d).quads = Rebuilt(log, d, FileData)
<1>1. Recovered(d) = Rebuilt(log, d, FileData)
  BY DEF Recovered, Rebuilt
<1>2. Rebuilt(log, d, FileData) \in SUBSET Quads
  <2>1. FileData \in SUBSET Quads
    BY DEF PersistenceAssumption
  <2>2. QED
    BY <2>1, RebuiltType
<1>3. QED
  BY <1>1, <1>2 DEF Found, StoreOK

LEMMA RootStoreOK ==
    ASSUME PersistenceAssumption, LogOK(log)
    PROVE  /\ StoreOK(RootStore)
           /\ MainDataset \notin discover_dataset_names(log) =>
                 RootStore.quads = Rebuilt(log, MainDataset, FileData)
<1> DEFINE S == replay_into(log, FileData)
           R == [active |-> InitialRules, named |-> << >>]
           base == Since(log, MainDataset, 0)
<1>1. RootStore = [quads |-> S, rules |-> R]
  BY DEF RootStore
<1>2. S \in SUBSET Quads
  <2>1. FileData \in SUBSET Quads
    BY DEF PersistenceAssumption
  <2>2. PICK X : log \in Seq(X)
    BY DEF LogOK
  <2>3. S = replay_at(FileData, log, base)
    BY DEF replay_into
  <2>4. QED
    BY <2>1, <2>3, ReplayAtType
<1> HIDE DEF S, R
<1>3. DOMAIN RootStore = {"quads", "rules"} /\ RootStore.quads = S
  BY <1>1
<1>4. MainDataset \notin discover_dataset_names(log) => Rebuilt(log, MainDataset, FileData) = S
  BY DEF Rebuilt, S
<1>5. QED
  BY <1>2, <1>3, <1>4 DEF StoreOK

LEMMA RestartStep ==
    ASSUME PersistenceAssumption, QuadInv, Restart
    PROVE  QuadInv'
<1>1. /\ up # TRUE /\ up' = TRUE
      /\ stores' = BootStores
      /\ registry' = BootRegistry
      /\ UNCHANGED <<log, req, requests, tainted, rulesTainted, unchecked>>
  BY DEF Restart
<1>2. LogOK(log) /\ Len(stores) = 0
  BY <1>1 DEF QuadInv, Typed
<1>3. /\ \E Y : BootStores \in Seq(Y)
      /\ Len(BootStores) > 0
      /\ DOMAIN BootRegistry = RecoveredNames
      /\ \A d \in RecoveredNames :
            /\ BootRegistry[d] \in 1..Len(BootStores)
            /\ BootStores[BootRegistry[d]] = Found(d)
            /\ BootRegistry[d] = Root =>
                  d = MainDataset /\ d \notin discover_dataset_names(log)
      /\ \A c, d \in RecoveredNames : BootRegistry[c] = BootRegistry[d] => c = d
      /\ \A i \in 1..Len(BootStores) :
            BootStores[i] = RootStore \/ \E d \in RecoveredNames : BootStores[i] = Found(d)
  BY <1>2, Boots
<1>4. \A c \in Clients : req[c] = Idle
  BY <1>2 DEF QuadInv, Typed, Req
<1>5. DOMAIN registry' = RecoveredNames
  BY <1>1, <1>3
<1>6. Typed'
  <2>1. RecoveredNames \subseteq Datasets
    <3>1. discover_dataset_names(log) \subseteq Datasets
      BY <1>2, LogFinds
    <3>2. QED
      BY <3>1 DEF RecoveredNames, PersistenceAssumption
  <2>2. \A i \in 1..Len(stores') : StoreOK(stores'[i])
    <3>1. StoreOK(RootStore) /\ \A d : StoreOK(Found(d))
      BY <1>2, FoundIs, RootStoreOK
    <3>2. QED
      BY <1>1, <1>3, <3>1
  <2>3. req' \in [Clients -> Req(Len(stores'))]
    <3>1. req' = [c \in Clients |-> req'[c]]
      BY <1>1 DEF QuadInv, Typed
    <3>2. \A c \in Clients : req'[c] \in Req(Len(stores'))
      BY <1>1, <1>4 DEF Req
    <3>3. QED
      BY <3>1, <3>2
  <2>4. QED
    BY <1>1, <1>3, <1>5, <2>1, <2>2, <2>3 DEF QuadInv, Typed
<1>7. Owners'
  BY <1>1, <1>3, <1>4 DEF Owners
<1>8. DatasetsDurable'
  BY <1>1, <1>5 DEF DatasetsDurable, RecoveredNames
<1>9. Durable'
  <2> SUFFICES ASSUME NEW d \in RecoveredNames, NEW q
               PROVE  q \in stores'[registry'[d]].quads <=> q \in Rebuilt(log, d, FileData)
    BY <1>1, <1>5 DEF Durable
  <2>1. stores'[registry'[d]] = Found(d)
    BY <1>1, <1>3
  <2>2. Found(d).quads = Rebuilt(log, d, FileData)
    BY <1>2, FoundIs
  <2>3. QED
    BY <2>1, <2>2
<1>10. Waiting'
  BY <1>1, <1>4 DEF Waiting, Waits, Idle
<1>11. QED
  BY <1>6, <1>7, <1>8, <1>9, <1>10 DEF QuadInv

LEMMA InitQuads ==
    ASSUME PersistenceAssumption, Init
    PROVE  QuadInv
<1>1. /\ log = << >> /\ stores = <<RootStore>>
      /\ registry = [d \in {MainDataset} |-> Root]
      /\ req = [c \in Clients |-> Idle] /\ up = TRUE
      /\ tainted = {} /\ rulesTainted = {} /\ unchecked = {}
  BY DEF Init
<1>2. log \in Seq({}) /\ Len(log) = 0
  BY <1>1
<1>3. LogOK(log)
  BY <1>2 DEF LogOK
<1>4. StoreOK(RootStore)
  BY <1>3, RootStoreOK
<1>5. discover_dataset_names(log) = {}
  <2>1. \A d : d \notin discover_dataset_names(log)
    <3> TAKE d
    <3>1. Plain(log, d)
      BY <1>2 DEF Plain
    <3>2. QED
      BY <1>2, <3>1, NotCreated
  <2>2. QED
    BY <2>1
<1>6. /\ DOMAIN registry = {MainDataset} /\ registry[MainDataset] = Root
      /\ \A c \in Clients : req[c] = Idle
  BY <1>1
<1>7. RootStore.quads = Rebuilt(log, MainDataset, FileData)
  BY <1>3, <1>5, RootStoreOK
<1> DEFINE s == RootStore
<1>8. stores = <<s>> /\ StoreOK(s) /\ s.quads = Rebuilt(log, MainDataset, FileData)
  BY <1>1, <1>4, <1>7
<1> HIDE DEF s
<1>9. stores \in Seq({s}) /\ Len(stores) = 1 /\ stores[1] = s
  BY <1>8
<1>10. Typed
  <2>1. \A i \in 1..Len(stores) : StoreOK(stores[i])
    BY <1>8, <1>9
  <2>2. req \in [Clients -> Req(Len(stores))]
    BY <1>1 DEF Req
  <2>3. registry[MainDataset] \in 1..Len(stores)
    BY <1>6, <1>9 DEF Root
  <2>4. DOMAIN registry \subseteq Datasets /\ Len(log) <= MaxLog
    BY <1>2, <1>6 DEF PersistenceAssumption
  <2>5. /\ up = TRUE /\ tainted \subseteq Datasets \X Quads /\ rulesTainted \subseteq Datasets
        /\ unchecked \subseteq Datasets
    BY <1>1
  <2>6. \A d \in DOMAIN registry : registry[d] \in 1..Len(stores)
    BY <1>6, <2>3
  <2>7. Len(stores) > 0 /\ \E X : stores \in Seq(X)
    BY <1>9
  <2>8. QED
    BY <1>3, <2>1, <2>2, <2>4, <2>5, <2>6, <2>7 DEF Typed
<1>11. Owners
  BY <1>6 DEF Owners
<1>12. DatasetsDurable
  BY <1>5, <1>6 DEF DatasetsDurable, RecoveredNames
<1>13. Durable
  BY <1>6, <1>8, <1>9 DEF Durable, Root
<1>14. Waiting
  BY <1>6 DEF Waiting, Waits, Idle
<1>15. QED
  BY <1>10, <1>11, <1>12, <1>13, <1>14 DEF QuadInv

LEMMA NextQuads ==
    ASSUME PersistenceAssumption, QuadInv, [Next]_vars
    PROVE  QuadInv'
<1>1. CASE Crash
  BY <1>1, CrashStep
<1>2. CASE Restart
  BY <1>2, RestartStep
<1>3. CASE Compact
  BY <1>3, CompactStep
<1>4. CASE \E d \in Datasets : CreateDataset(d) \/ DeleteDataset(d)
  BY <1>4, CreateDatasetStep, DeleteDatasetStep
<1>5. ASSUME NEW c \in Clients, LockedWrite(c) PROVE QuadInv'
  BY <1>5, LockedWriteStep
<1>6. ASSUME NEW c \in Clients, UploadApply(c) PROVE QuadInv'
  BY <1>6, UploadApplyStep
<1>7. ASSUME NEW c \in Clients, NEW Q \in Bodies, UploadLog(c, Q) PROVE QuadInv'
  BY <1>7, UploadLogStep
<1>8. ASSUME NEW c \in Clients, NEW d \in Datasets, Resolve(c, d) PROVE QuadInv'
  BY <1>8, ResolveStep
<1>9. ASSUME NEW c \in Clients, NEW e \in UNION {RulesetEntries(d) : d \in Datasets},
             RulesOp(c, e)
      PROVE  QuadInv'
  <2>1. PICK d \in Datasets : e \in RulesetEntries(d)
    OBVIOUS
  <2>2. QED
    BY <1>9, <2>1, RulesOpStep
<1>10. CASE UNCHANGED vars
  <2>1. UNCHANGED <<log, stores, registry, req, up, tainted, rulesTainted, unchecked>>
    BY <1>10 DEF vars
  <2>2. Typed' /\ Owners' /\ Durable' /\ Waiting'
    BY <2>1 DEF QuadInv, Typed, Owners, Durable, Waiting, Waits
  <2>3. DatasetsDurable'
    BY <2>1 DEF QuadInv, DatasetsDurable, RecoveredNames
  <2>4. QED
    BY <2>2, <2>3 DEF QuadInv
<1>11. QED
  BY <1>1, <1>2, <1>3, <1>4, <1>5, <1>6, <1>7, <1>8, <1>9, <1>10 DEF Next

\* The inductive invariant: stores are never shared between names, requests
\* hold the store of their own dataset, and memory and log agree on every quad
\* that is not marked, those of a waiting upload included.
THEOREM QuadInvariant == Spec => []QuadInv
<1>1. Init => QuadInv
  BY PersistenceAssumption, InitQuads
<1>2. QuadInv /\ [Next]_vars => QuadInv'
  BY PersistenceAssumption, NextQuads
<1>3. QED
  BY <1>1, <1>2, PTL DEF Spec

\* After any sequence of requests, dataset creations and deletions,
\* compactions, crashes and restarts, what a restart would rebuild
\* (replay_into_store, replay_dataset) differs from what the server holds only
\* in quads the documented gaps account for.
THEOREM QuadsAreDurable == Spec => []QuadsDurable
<1>1. QuadInv => QuadsDurable
  BY DurableQuads DEF QuadInv
<1>2. QED
  BY <1>1, QuadInvariant, PTL

\* discover_dataset_names finds exactly the registered datasets.
THEOREM DatasetsAreDurable == Spec => []DatasetsDurable
<1>1. QuadInv => DatasetsDurable
  BY DEF QuadInv
<1>2. QED
  BY <1>1, QuadInvariant, PTL

\* Every registered dataset and every request in flight has a store in memory.
THEOREM TypeCorrect == Spec => []TypeOK
<1>1. QuadInv => TypeOK
  <2> SUFFICES ASSUME QuadInv PROVE TypeOK
    OBVIOUS
  <2>1. Typed /\ \E X : stores \in Seq(X)
    BY DEF QuadInv, Typed
  <2>2. DOMAIN stores = 1..Len(stores)
    BY <2>1
  <2>3. \A i \in DOMAIN stores : stores[i].quads \subseteq Quads
    BY <2>1, <2>2 DEF Typed, StoreOK
  <2>4. \A c \in Clients : req[c] # Idle => req[c].sid \in DOMAIN stores
    BY <2>1, <2>2 DEF Typed, Req
  <2>5. QED
    BY <2>1, <2>2, <2>3, <2>4 DEF Typed, TypeOK
<1>2. QED
  BY <1>1, QuadInvariant, PTL

-----------------------------------------------------------------------------
(* Replaying rulesets                                                        *)

AllRules == InitialRules \cup UNION Rulesets
Named == UNION {[D -> SUBSET AllRules] : D \in SUBSET RulesetIds}
RuleStates == [active : SUBSET AllRules, named : Named]

LEMMA NamedIs ==
    ASSUME NEW f
    PROVE  f \in Named <=> /\ f = [i \in DOMAIN f |-> f[i]]
                           /\ DOMAIN f \subseteq RulesetIds
                           /\ \A i \in DOMAIN f : f[i] \subseteq AllRules
<1>1. ASSUME f \in Named
      PROVE  /\ f = [i \in DOMAIN f |-> f[i]]
             /\ DOMAIN f \subseteq RulesetIds
             /\ \A i \in DOMAIN f : f[i] \subseteq AllRules
  <2>1. PICK D \in SUBSET RulesetIds : f \in [D -> SUBSET AllRules]
    BY <1>1 DEF Named
  <2>2. QED
    BY <2>1
<1>2. ASSUME f = [i \in DOMAIN f |-> f[i]], DOMAIN f \subseteq RulesetIds,
             \A i \in DOMAIN f : f[i] \subseteq AllRules
      PROVE  f \in Named
  <2>1. f \in [DOMAIN f -> SUBSET AllRules]
    BY <1>2
  <2>2. QED
    BY <1>2, <2>1 DEF Named
<1>3. QED
  BY <1>1, <1>2

\* Each operation on rulesets yields rulesets.
LEMMA ApplyRulesetType ==
    ASSUME NEW rs \in RuleStates, NEW d, NEW e \in RulesetEntries(d)
    PROVE  ApplyRuleset(rs, e) \in RuleStates
<1> DEFINE f == rs.named
<1>1. rs.active \subseteq AllRules /\ f \in Named
  BY DEF RuleStates
<1>2. /\ f = [i \in DOMAIN f |-> f[i]] /\ DOMAIN f \subseteq RulesetIds
      /\ \A i \in DOMAIN f : f[i] \subseteq AllRules
  BY <1>1, NamedIs
<1>3. e.op \in {"ReplaceRuleset", "SetNamedRuleset"} => e.rules \subseteq AllRules
  BY DEF RulesetEntries, AllRules
<1>4. e.op \in {"SetNamedRuleset", "DeleteNamedRuleset"} => e.id \in RulesetIds
  BY DEF RulesetEntries
<1>5. e.op \in {"ReplaceRuleset", "SetNamedRuleset", "DeleteNamedRuleset"}
  BY DEF RulesetEntries
<1> HIDE DEF f
<1>6. \A x : Others(f, x) \subseteq AllRules
  BY <1>2 DEF Others
<1>7. \A x : Without(f, x) \in Named
  <2> TAKE x
  <2> DEFINE w == Without(f, x)
  <2>1. w = [i \in DOMAIN f \ {x} |-> f[i]]
    BY DEF Without
  <2>2. w \in [DOMAIN f \ {x} -> SUBSET AllRules] /\ DOMAIN f \ {x} \in SUBSET RulesetIds
    BY <1>2, <2>1
  <2>3. QED
    BY <2>2 DEF Named
<1>8. \A x \in RulesetIds, y \in SUBSET AllRules : Put(f, x, y) \in Named
  <2> SUFFICES ASSUME NEW x \in RulesetIds, NEW y \in SUBSET AllRules PROVE Put(f, x, y) \in Named
    OBVIOUS
  <2> DEFINE D == DOMAIN f \cup {x}
  <2>1. Put(f, x, y) \in [D -> SUBSET AllRules] /\ D \in SUBSET RulesetIds
    BY <1>2 DEF Put
  <2>2. QED
    BY <2>1 DEF Named
<1>9. << >> \in Named
  <2>1. << >> \in [{} -> SUBSET AllRules]
    OBVIOUS
  <2>2. QED
    BY <2>1 DEF Named
<1>10. CASE e.op = "ReplaceRuleset"
  <2>1. ApplyRuleset(rs, e) = [active |-> e.rules, named |-> << >>]
    BY <1>10 DEF ApplyRuleset, ReplaceRuleset
  <2>2. QED
    BY <1>3, <1>9, <1>10, <2>1 DEF RuleStates
<1>11. CASE e.op = "SetNamedRuleset"
  <2> DEFINE a == Others(f, e.id) \cup e.rules
             b == IF e.rules = {} THEN Without(f, e.id) ELSE Put(f, e.id, e.rules)
  <2>1. ApplyRuleset(rs, e) = [active |-> a, named |-> b]
    BY <1>11 DEF ApplyRuleset, SetNamedRuleset, f
  <2>2. a \subseteq AllRules
    BY <1>3, <1>6, <1>11
  <2>3. b \in Named
    BY <1>3, <1>4, <1>7, <1>8, <1>11
  <2> HIDE DEF a, b
  <2>4. QED
    BY <2>1, <2>2, <2>3 DEF RuleStates
<1>12. CASE e.op = "DeleteNamedRuleset"
  <2> DEFINE a == Others(f, e.id)
             b == Without(f, e.id)
  <2>1. \/ ApplyRuleset(rs, e) = rs
        \/ ApplyRuleset(rs, e) = [active |-> a, named |-> b]
    BY <1>12 DEF ApplyRuleset, DeleteNamedRuleset, f
  <2>2. a \subseteq AllRules /\ b \in Named
    BY <1>6, <1>7
  <2> HIDE DEF a, b
  <2>3. QED
    BY <2>1, <2>2 DEF RuleStates
<1>13. QED
  BY <1>5, <1>10, <1>11, <1>12

\* The entries at positions of K are rulesets.
Rulings(l, K) == \A i \in 1..Len(l) : i \in K => \E d \in Datasets : l[i] \in RulesetEntries(d)

\* g[n] is what the rulesets among the first n entries make of rs.
RulesStep(g, rs, l, K) ==
    /\ g[0] = rs
    /\ \A n \in 1..Len(l) :
          g[n] = IF n \in K THEN ApplyRuleset(g[n - 1], l[n]) ELSE g[n - 1]

LEMMA RulesAtSteps ==
    ASSUME NEW rs \in RuleStates, NEW X, NEW l \in Seq(X), NEW K, Rulings(l, K)
    PROVE  \E g : RulesStep(g, rs, l, K) /\ rules_at(rs, l, K) = g[Len(l)]
<1> DEFINE N == Len(l)
           p == [i \in DOMAIN l |-> i]
           U == RuleStates
           F == [i \in 1..N |-> [r \in U |-> IF i \in K THEN ApplyRuleset(r, l[i]) ELSE r]]
           Eq(f) == f = [s \in SUBSET DOMAIN p |->
                            IF s = {} THEN rs
                            ELSE IF p[Max(s)] \in K
                                 THEN ApplyRuleset(f[s \ {Max(s)}], l[p[Max(s)]])
                                 ELSE f[s \ {Max(s)}]]
<1>1. N \in Nat /\ DOMAIN l = 1..N /\ DOMAIN p = 1..N /\ \A i \in 1..N : p[i] = i
  OBVIOUS
<1>2. rs \in U
  OBVIOUS
<1>3. \A i \in 1..N, r \in U : i \in K => ApplyRuleset(r, l[i]) \in U
  BY ApplyRulesetType DEF Rulings
<1>4. rules_at(rs, l, K) = (CHOOSE f : Eq(f))[DOMAIN p]
  BY DEF rules_at, FoldLeftDomain, FoldLeft, MapThenFoldSet
<1> HIDE DEF U
<1>5. F \in [1..N -> [U -> U]]
  BY <1>3
<1>6. \A s \in SUBSET (1..N) : s # {} =>
          Max(s) \in 1..N /\ s \ {Max(s)} \in SUBSET (1..N) /\ p[Max(s)] = Max(s)
  BY <1>1, WithoutMax
<1> HIDE DEF N, p
<1>7. \A s \in SUBSET (1..N), r \in U : s # {} =>
          F[Max(s)][r] = IF Max(s) \in K THEN ApplyRuleset(r, l[Max(s)]) ELSE r
  BY <1>6
<1> HIDE DEF F
<1>8. PICK f \in [SUBSET (1..N) -> U] : IsFold(f, rs, F, N)
  BY <1>1, <1>2, <1>5, FoldExists
<1>9. Eq(f)
  <2>1. ASSUME NEW s \in SUBSET (1..N), s # {}
        PROVE  f[s] = IF p[Max(s)] \in K
                      THEN ApplyRuleset(f[s \ {Max(s)}], l[p[Max(s)]]) ELSE f[s \ {Max(s)}]
    BY <1>6, <1>7, <1>8, <2>1 DEF IsFold
  <2>2. f[{}] = rs
    BY <1>8 DEF IsFold
  <2>3. QED
    BY <1>1, <1>8, <2>1, <2>2
<1> DEFINE h == CHOOSE k : Eq(k)
<1>10. Eq(h)
  BY <1>9
<1>11. FoldsIn(h, rs, F, N, U)
  <2>1. h[{}] = rs
    BY <1>10
  <2>2. ASSUME NEW s \in SUBSET (1..N), s # {}, h[s \ {Max(s)}] \in U
        PROVE  h[s] = F[Max(s)][h[s \ {Max(s)}]]
    <3>1. h[s] = IF p[Max(s)] \in K
                 THEN ApplyRuleset(h[s \ {Max(s)}], l[p[Max(s)]]) ELSE h[s \ {Max(s)}]
      BY <1>1, <1>10, <2>2
    <3> HIDE DEF h
    <3>2. QED
      BY <1>6, <1>7, <2>2, <3>1
  <2>3. QED
    BY <2>1, <2>2 DEF FoldsIn
<1> HIDE DEF h, Eq
<1>12. PICK g \in [0..N -> U] : Steps(g, rs, F, N) /\ g[N] = h[1..N]
  BY <1>1, <1>2, <1>5, <1>11, FoldSteps
<1>13. RulesStep(g, rs, l, K)
  <2>1. \A n \in 1..N : g[n - 1] \in U /\ g[n] = F[n][g[n - 1]]
    BY <1>1, <1>12 DEF Steps
  <2>2. \A n \in 1..N, r \in U : F[n][r] = IF n \in K THEN ApplyRuleset(r, l[n]) ELSE r
    BY DEF F
  <2>3. QED
    BY <1>12, <2>1, <2>2 DEF RulesStep, Steps, N
<1>14. QED
  BY <1>1, <1>4, <1>12, <1>13 DEF h, N

LEMMA RulesAtUnique ==
    ASSUME NEW rs \in RuleStates, NEW X, NEW l \in Seq(X), NEW K, Rulings(l, K),
           NEW f, RulesStep(f, rs, l, K)
    PROVE  rules_at(rs, l, K) = f[Len(l)]
<1>1. PICK g : RulesStep(g, rs, l, K) /\ rules_at(rs, l, K) = g[Len(l)]
  BY RulesAtSteps
<1> DEFINE N == Len(l)
           P == {n \in 0..N : f[n] = g[n]}
<1>2. N \in Nat
  OBVIOUS
<1>3. 0 \in P
  BY <1>1, <1>2 DEF RulesStep
<1>4. ASSUME NEW n \in 1..N, n - 1 \in P PROVE n \in P
  <2>1. /\ f[n] = IF n \in K THEN ApplyRuleset(f[n - 1], l[n]) ELSE f[n - 1]
        /\ g[n] = IF n \in K THEN ApplyRuleset(g[n - 1], l[n]) ELSE g[n - 1]
        /\ f[n - 1] = g[n - 1]
    BY <1>1, <1>4 DEF RulesStep
  <2>2. QED
    BY <2>1
<1> HIDE DEF N, P
<1>5. \A n \in 0..N : n \in P
  BY <1>2, <1>3, <1>4, BoundedInduction
<1>6. N \in 0..N
  BY <1>2
<1>7. QED
  BY <1>1, <1>5, <1>6 DEF P, N

\* Entries that are not at positions of the set change nothing.
NoneAt(l, es, K) == \A i \in 1..Len(es) : Len(l) + i \notin K

LEMMA RulesAtMore ==
    ASSUME NEW rs \in RuleStates, NEW X, NEW l \in Seq(X), NEW K, Rulings(l, K), NEW K2,
           SamePicks(l, K, K2), NEW Y, NEW es \in Seq(Y), NoneAt(l, es, K2)
    PROVE  rules_at(rs, l \o es, K2) = rules_at(rs, l, K)
<1> DEFINE L == l \o es
           M == Len(l)
           N == Len(l) + Len(es)
<1>1. L \in Seq(X \cup Y) /\ Joins(L, l, es)
  BY Appended
<1>2. PICK g : RulesStep(g, rs, l, K) /\ rules_at(rs, l, K) = g[M]
  BY RulesAtSteps
<1> DEFINE f == [n \in 0..N |-> IF n <= M THEN g[n] ELSE g[M]]
<1>3. /\ M \in Nat /\ N \in Nat /\ M <= N /\ Len(L) = N
      /\ \A i \in 1..M : i \in 1..N /\ L[i] = l[i]
      /\ \A i \in 1..N : i \in 1..M \/ \E k \in 1..Len(es) : i = M + k
  BY <1>1 DEF Joins
<1> HIDE DEF L
<1>4. Rulings(L, K2)
  <2> SUFFICES ASSUME NEW i \in 1..N, i \in K2 PROVE \E d \in Datasets : L[i] \in RulesetEntries(d)
    BY <1>3 DEF Rulings
  <2>1. i \in 1..M
    BY <1>3 DEF NoneAt
  <2>2. i \in K /\ L[i] = l[i]
    BY <1>3, <2>1 DEF SamePicks
  <2>3. QED
    BY <2>1, <2>2 DEF Rulings
<1>5. RulesStep(f, rs, L, K2)
  <2>1. f[0] = rs
    BY <1>2, <1>3 DEF RulesStep
  <2>2. ASSUME NEW n \in 1..N
        PROVE  f[n] = IF n \in K2 THEN ApplyRuleset(f[n - 1], L[n]) ELSE f[n - 1]
    <3>1. n \in 0..N /\ n - 1 \in 0..N
      BY <1>3
    <3>2. CASE n \in 1..M
      <4>1. n <= M /\ n - 1 <= M
        BY <1>3, <3>2
      <4>2. f[n] = g[n] /\ f[n - 1] = g[n - 1]
        BY <3>1, <4>1
      <4>3. g[n] = IF n \in K THEN ApplyRuleset(g[n - 1], l[n]) ELSE g[n - 1]
        BY <1>2, <3>2 DEF RulesStep
      <4>4. (n \in K2 <=> n \in K) /\ L[n] = l[n]
        BY <1>3, <3>2 DEF SamePicks
      <4>5. QED
        BY <4>2, <4>3, <4>4
    <3>3. CASE n \notin 1..M
      <4>1. n \notin K2
        BY <1>3, <3>3 DEF NoneAt
      <4>2. ~(n <= M) /\ (n - 1 <= M => n - 1 = M)
        BY <1>3, <3>3
      <4>3. f[n] = g[M] /\ f[n - 1] = g[M]
        BY <3>1, <4>2
      <4>4. QED
        BY <4>1, <4>3
    <3>4. QED
      BY <3>2, <3>3
  <2>3. QED
    BY <1>3, <2>1, <2>2 DEF RulesStep
<1>6. rules_at(rs, L, K2) = f[N]
  <2> HIDE DEF f
  <2>1. rules_at(rs, L, K2) = f[Len(L)]
    BY <1>1, <1>4, <1>5, RulesAtUnique
  <2>2. QED
    BY <1>3, <2>1
<1>7. f[N] = g[M]
  BY <1>3
<1>8. QED
  BY <1>2, <1>6, <1>7 DEF L

\* A ruleset at a position of the set applies to what was there before.
LEMMA RulesAtOne ==
    ASSUME NEW rs \in RuleStates, NEW X, NEW l \in Seq(X), NEW K, Rulings(l, K), NEW K2,
           SamePicks(l, K, K2), NEW d \in Datasets, NEW e \in RulesetEntries(d),
           Len(l) + 1 \in K2
    PROVE  rules_at(rs, Append(l, e), K2) = ApplyRuleset(rules_at(rs, l, K), e)
<1> DEFINE L == Append(l, e)
           M == Len(l)
           N == Len(l) + 1
<1>1. /\ L \in Seq(X \cup {e}) /\ Len(L) = N /\ M \in Nat /\ N \in Nat /\ N = M + 1
      /\ L[N] = e /\ \A i \in 1..M : i \in 1..N /\ L[i] = l[i]
  OBVIOUS
<1>2. PICK g : RulesStep(g, rs, l, K) /\ rules_at(rs, l, K) = g[M]
  BY RulesAtSteps
<1> DEFINE f == [n \in 0..N |-> IF n <= M THEN g[n] ELSE ApplyRuleset(g[M], e)]
<1>3. \A i \in 1..N : i \in 1..M \/ i = N
  BY <1>1
<1>4. N \in K2
  OBVIOUS
<1> HIDE DEF L
<1>5. Rulings(L, K2)
  <2> SUFFICES ASSUME NEW i \in 1..N, i \in K2 PROVE \E c \in Datasets : L[i] \in RulesetEntries(c)
    BY <1>1 DEF Rulings
  <2>1. CASE i \in 1..M
    <3>1. i \in K /\ L[i] = l[i]
      BY <1>1, <2>1 DEF SamePicks
    <3>2. QED
      BY <2>1, <3>1 DEF Rulings
  <2>2. CASE i = N
    BY <1>1, <2>2
  <2>3. QED
    BY <1>3, <2>1, <2>2
<1> HIDE DEF N
<1>6. RulesStep(f, rs, L, K2)
  <2>1. f[0] = rs
    BY <1>1, <1>2 DEF RulesStep
  <2>2. ASSUME NEW n \in 1..N
        PROVE  f[n] = IF n \in K2 THEN ApplyRuleset(f[n - 1], L[n]) ELSE f[n - 1]
    <3>1. n \in 0..N /\ n - 1 \in 0..N
      BY <1>1
    <3>2. CASE n \in 1..M
      <4>1. n <= M /\ n - 1 <= M
        BY <1>1, <3>2
      <4>2. f[n] = g[n] /\ f[n - 1] = g[n - 1]
        BY <3>1, <4>1
      <4>3. g[n] = IF n \in K THEN ApplyRuleset(g[n - 1], l[n]) ELSE g[n - 1]
        BY <1>2, <3>2 DEF RulesStep
      <4>4. (n \in K2 <=> n \in K) /\ L[n] = l[n]
        BY <1>1, <3>2 DEF SamePicks
      <4>5. QED
        BY <4>2, <4>3, <4>4
    <3>3. CASE n = N
      <4>1. ~(n <= M) /\ n - 1 = M /\ M <= M
        BY <1>1, <3>3
      <4>2. f[n] = ApplyRuleset(g[M], e) /\ f[n - 1] = g[M]
        BY <3>1, <4>1
      <4>3. QED
        BY <1>1, <1>4, <3>3, <4>2
    <3>4. QED
      BY <1>3, <3>2, <3>3
  <2>3. QED
    BY <1>1, <2>1, <2>2 DEF RulesStep
<1>7. rules_at(rs, L, K2) = f[N]
  <2> HIDE DEF f
  <2>1. rules_at(rs, L, K2) = f[Len(L)]
    BY <1>1, <1>5, <1>6, RulesAtUnique
  <2>2. QED
    BY <1>1, <2>1
<1>8. f[N] = ApplyRuleset(g[M], e)
  BY <1>1
<1>9. QED
  BY <1>2, <1>7, <1>8 DEF L

LEMMA RulesAtNothing ==
    ASSUME NEW rs \in RuleStates, NEW X, NEW l \in Seq(X), NEW K, \A i \in 1..Len(l) : i \notin K
    PROVE  rules_at(rs, l, K) = rs
<1> DEFINE f == [n \in 0..Len(l) |-> rs]
<1>1. RulesStep(f, rs, l, K)
  BY DEF RulesStep
<1>2. Rulings(l, K)
  BY DEF Rulings
<1> HIDE DEF f
<1>3. rules_at(rs, l, K) = f[Len(l)]
  BY <1>1, <1>2, RulesAtUnique
<1>4. Len(l) \in 0..Len(l)
  OBVIOUS
<1>5. QED
  BY <1>3, <1>4 DEF f

\* The rules a restart would give d.
FirstRules(l, d) ==
    IF d = MainDataset /\ d \notin discover_dataset_names(l)
    THEN [active |-> InitialRules, named |-> << >>] ELSE NoRules

Forced(l, d) == rules_at(FirstRules(l, d), l, ruleset_entries(l, {d}))

LEMMA StartType ==
    ASSUME NEW l, NEW d
    PROVE  FirstRules(l, d) \in RuleStates
<1>1. << >> \in Named
  <2>1. << >> \in [{} -> SUBSET AllRules]
    OBVIOUS
  <2>2. QED
    BY <2>1 DEF Named
<1>2. QED
  BY <1>1 DEF FirstRules, NoRules, RuleStates, AllRules

LEMMA LogRulings ==
    ASSUME NEW l, LogOK(l), NEW D
    PROVE  Rulings(l, ruleset_entries(l, D))
<1> SUFFICES ASSUME NEW i \in 1..Len(l), is_ruleset_entry(l[i])
             PROVE  \E d \in Datasets : l[i] \in RulesetEntries(d)
  BY DEF Rulings, ruleset_entries
<1>1. EntryOK(l[i])
  BY DEF LogOK
<1>2. QED
  BY <1>1 DEF EntryOK, OwnEntry, is_ruleset_entry

\* No entry of es is a ruleset of d.
Silent(es, d) == \A i \in 1..Len(es) : ~(is_ruleset_entry(es[i]) /\ es[i].dataset = d)

LEMMA ForcedMore ==
    ASSUME NEW l, LogOK(l), NEW Y, NEW es \in Seq(Y), NEW d, Plain(es, d), Silent(es, d)
    PROVE  Forced(l \o es, d) = Forced(l, d)
<1> DEFINE L == l \o es
           K == ruleset_entries(l, {d})
           K2 == ruleset_entries(L, {d})
<1>1. PICK X : l \in Seq(X)
  BY DEF LogOK
<1>2. L \in Seq(X \cup Y) /\ Joins(L, l, es)
  BY <1>1, Appended
<1>3. Cutoff(L, d) = Cutoff(l, d) /\ (d \in discover_dataset_names(L) <=> d \in discover_dataset_names(l))
  BY <1>1, PlainKeeps
<1>4. FirstRules(L, d) = FirstRules(l, d)
  BY <1>3 DEF FirstRules
<1> HIDE DEF L
<1>5. SamePicks(l, K, K2)
  BY <1>2, <1>3 DEF SamePicks, Joins, ruleset_entries
<1>6. NoneAt(l, es, K2)
  <2> SUFFICES ASSUME NEW i \in 1..Len(es), Len(l) + i \in K2 PROVE FALSE
    BY DEF NoneAt
  <2>1. L[Len(l) + i] = es[i]
    BY <1>2 DEF Joins
  <2>2. is_ruleset_entry(es[i]) /\ es[i].dataset = d
    BY <2>1 DEF ruleset_entries
  <2>3. QED
    BY <2>2 DEF Silent
<1>7. Rulings(l, K) /\ FirstRules(l, d) \in RuleStates
  BY LogRulings, StartType
<1>8. rules_at(FirstRules(l, d), l \o es, K2) = rules_at(FirstRules(l, d), l, K)
  <2> HIDE DEF K, K2
  <2>1. QED
    BY <1>1, <1>5, <1>6, <1>7, RulesAtMore
<1>9. QED
  BY <1>4, <1>8 DEF Forced, L

LEMMA ForcedOne ==
    ASSUME NEW l, LogOK(l), NEW d \in Datasets, NEW e \in RulesetEntries(d)
    PROVE  Forced(Append(l, e), d) = ApplyRuleset(Forced(l, d), e)
<1> DEFINE es == <<e>>
           L == Append(l, e)
           K == ruleset_entries(l, {d})
           K2 == ruleset_entries(L, {d})
<1>1. PICK X : l \in Seq(X)
  BY DEF LogOK
<1>2. es \in Seq({e}) /\ Len(es) = 1 /\ es[1] = e /\ L = l \o es
  BY <1>1
<1>3. e.op \notin {"CreateDataset", "DeleteDataset"} /\ is_ruleset_entry(e) /\ e.dataset = d
  BY DEF RulesetEntries, is_ruleset_entry
<1> HIDE DEF es
<1>4. Plain(es, d)
  BY <1>2, <1>3 DEF Plain, Creates, Deletes
<1>5. Cutoff(L, d) = Cutoff(l, d) /\ (d \in discover_dataset_names(L) <=> d \in discover_dataset_names(l))
  BY <1>1, <1>2, <1>4, PlainKeeps
<1>6. FirstRules(L, d) = FirstRules(l, d)
  BY <1>5 DEF FirstRules
<1>7. /\ Len(l) \in Nat /\ DOMAIN L = 1..(Len(l) + 1) /\ L[Len(l) + 1] = e
      /\ \A i \in 1..Len(l) : i \in 1..(Len(l) + 1) /\ L[i] = l[i]
      /\ DOMAIN l = 1..Len(l)
  BY <1>1
<1> HIDE DEF L
<1>8. SamePicks(l, K, K2)
  BY <1>5, <1>7 DEF SamePicks, ruleset_entries
<1>9. Len(l) + 1 \in K2
  <2>1. Cutoff(l, d) \in 0..Len(l)
    BY <1>1, CutoffIs
  <2>2. Len(l) + 1 >= Cutoff(l, d) /\ Len(l) + 1 \in 1..(Len(l) + 1)
    BY <1>7, <2>1
  <2>3. QED
    BY <1>3, <1>5, <1>7, <2>2 DEF ruleset_entries
<1>10. Rulings(l, K) /\ FirstRules(l, d) \in RuleStates
  BY LogRulings, StartType
<1>11. rules_at(FirstRules(l, d), Append(l, e), K2) = ApplyRuleset(rules_at(FirstRules(l, d), l, K), e)
  <2> HIDE DEF K, K2
  <2>1. QED
    BY <1>1, <1>8, <1>9, <1>10, RulesAtOne
<1>12. QED
  BY <1>6, <1>11 DEF Forced, L

LEMMA ForcedNew ==
    ASSUME NEW l, LogOK(l), NEW d, NEW e, e = [op |-> "CreateDataset", name |-> d]
    PROVE  Forced(Append(l, e), d) = NoRules
<1> DEFINE L == Append(l, e)
           K == ruleset_entries(L, {d})
<1>1. PICK X : l \in Seq(X)
  BY DEF LogOK
<1>2. e.op = "CreateDataset" /\ e.name = d /\ ~is_ruleset_entry(e)
  BY DEF is_ruleset_entry
<1>3. d \in discover_dataset_names(L) /\ Cutoff(L, d) = Len(l) + 1
  BY <1>1, <1>2, Created
<1>4. L \in Seq(X \cup {e}) /\ Len(L) = Len(l) + 1 /\ L[Len(l) + 1] = e
  BY <1>1
<1> HIDE DEF L
<1>5. \A i \in 1..Len(L) : i \notin K
  <2> SUFFICES ASSUME NEW i \in 1..Len(L), i \in K PROVE FALSE
    OBVIOUS
  <2>1. i >= Len(l) + 1 /\ is_ruleset_entry(L[i])
    BY <1>3 DEF ruleset_entries
  <2>2. i = Len(l) + 1
    BY <1>1, <1>4, <2>1
  <2>3. QED
    BY <1>2, <1>4, <2>1, <2>2
<1>6. FirstRules(L, d) = NoRules /\ FirstRules(L, d) \in RuleStates
  BY <1>3, StartType DEF FirstRules
<1> HIDE DEF K
<1>7. rules_at(FirstRules(L, d), L, K) = FirstRules(L, d)
  BY <1>4, <1>5, <1>6, RulesAtNothing
<1>8. QED
  BY <1>6, <1>7 DEF Forced, L, K

\* The positions of all rulesets of d.
RulesetsOf(l, d) == {i \in DOMAIN l : is_ruleset_entry(l[i]) /\ l[i].dataset = d}

LEMMA RulesetsOfMore ==
    ASSUME NEW rs \in RuleStates, NEW X, NEW l \in Seq(X), NEW c \in Datasets,
           NEW e \in RulesetEntries(c), NEW d, Rulings(l, RulesetsOf(l, d))
    PROVE  /\ Rulings(Append(l, e), RulesetsOf(Append(l, e), d))
           /\ rules_at(rs, Append(l, e), RulesetsOf(Append(l, e), d))
                = IF c = d THEN ApplyRuleset(rules_at(rs, l, RulesetsOf(l, d)), e)
                  ELSE rules_at(rs, l, RulesetsOf(l, d))
<1> DEFINE es == <<e>>
           L == Append(l, e)
           K == RulesetsOf(l, d)
           K2 == RulesetsOf(L, d)
<1>1. es \in Seq({e}) /\ Len(es) = 1 /\ es[1] = e /\ L = l \o es
  OBVIOUS
<1>2. /\ Len(l) \in Nat /\ DOMAIN L = 1..(Len(l) + 1) /\ Len(L) = Len(l) + 1
      /\ L[Len(l) + 1] = e /\ Len(l) + 1 \in 1..(Len(l) + 1)
      /\ \A i \in 1..Len(l) : i \in 1..(Len(l) + 1) /\ L[i] = l[i]
      /\ DOMAIN l = 1..Len(l)
      /\ \A i \in 1..(Len(l) + 1) : i \in 1..Len(l) \/ i = Len(l) + 1
  OBVIOUS
<1>3. is_ruleset_entry(e) /\ e.dataset = c
  BY DEF RulesetEntries, is_ruleset_entry
<1> HIDE DEF es, L
<1>4. SamePicks(l, K, K2)
  BY <1>2 DEF SamePicks, RulesetsOf
<1>5. Len(l) + 1 \in K2 <=> c = d
  BY <1>2, <1>3 DEF RulesetsOf
<1> HIDE DEF K, K2
<1>6. Rulings(L, K2)
  <2> SUFFICES ASSUME NEW i \in 1..(Len(l) + 1), i \in K2
               PROVE  \E b \in Datasets : L[i] \in RulesetEntries(b)
    BY <1>2 DEF Rulings
  <2>1. CASE i \in 1..Len(l)
    <3>1. i \in K /\ L[i] = l[i]
      BY <1>2, <1>4, <2>1 DEF SamePicks
    <3>2. Rulings(l, K)
      BY DEF K
    <3>3. QED
      BY <2>1, <3>1, <3>2 DEF Rulings
  <2>2. CASE i = Len(l) + 1
    BY <1>2, <2>2
  <2>3. QED
    BY <1>2, <2>1, <2>2
<1>7. Rulings(l, K)
  BY DEF K
<1>8. CASE c = d
  <2>1. rules_at(rs, Append(l, e), K2) = ApplyRuleset(rules_at(rs, l, K), e)
    BY <1>4, <1>5, <1>7, <1>8, RulesAtOne
  <2>2. QED
    BY <1>6, <1>8, <2>1 DEF L, K, K2
<1>9. CASE c # d
  <2>1. NoneAt(l, es, K2)
    BY <1>1, <1>5, <1>9 DEF NoneAt
  <2>2. rules_at(rs, l \o es, K2) = rules_at(rs, l, K)
    BY <1>1, <1>4, <1>7, <2>1, RulesAtMore
  <2>3. QED
    BY <1>1, <1>6, <1>9, <2>2 DEF L, K, K2
<1>10. QED
  BY <1>8, <1>9

\* Compaction keeps the rulesets in force, and their order.
LEMMA ForcedCompact ==
    ASSUME NEW l, LogOK(l), NEW st, IsFiniteSet(DOMAIN st),
           \A c \in DOMAIN st : IsFiniteSet(st[c]), NEW d \in DOMAIN st,
           d = MainDataset => d \notin discover_dataset_names(l)
    PROVE  Forced(compact_multi(l, st), d) = Forced(l, d)
<1> DEFINE S == Snapshots(st)
           K == ruleset_entries(l, DOMAIN st)
           Kd == ruleset_entries(l, {d})
           T == At(l, K)
           L == compact_multi(l, st)
           N == Len(l)
           rs == FirstRules(l, d)
<1>1. PICK X : l \in Seq(X)
  BY DEF LogOK
<1>2. L = S \o T
  BY DEF compact_multi
<1>3. PICK Y : S \in Seq(Y)
  BY SnapshotsRebuilt
<1>4. \A i \in 1..Len(S) : ~is_ruleset_entry(S[i])
  <2>1. \A i \in 1..Len(S) : SnapshotEntry(S[i], st)
    BY SnapshotsEntries
  <2>2. \A e : SnapshotEntry(e, st) => ~is_ruleset_entry(e)
    BY DEF SnapshotEntry, InsertEntries, is_ruleset_entry
  <2> HIDE DEF S
  <2>3. QED
    BY <2>1, <2>2
<1>5. PICK t : t \in [0..N -> Seq(X)] /\ AtStep(t, l, K) /\ T = t[N]
  BY <1>1, AtSteps
<1>6. Rulings(l, Kd) /\ Rulings(l, K) /\ rs \in RuleStates
  BY LogRulings, StartType
<1>7. /\ \A n \in 1..N : n \in Kd => n \in K
      /\ \A n \in 1..N : n \in K => is_ruleset_entry(l[n]) /\ (l[n].dataset = d => n \in Kd)
      /\ \A n \in Kd : l[n].dataset = d
  BY DEF ruleset_entries
<1>8. N \in Nat
  BY <1>1
<1> HIDE DEF S, K, Kd, T, L, rs, N
<1>9. PICK g : RulesStep(g, rs, l, Kd) /\ rules_at(rs, l, Kd) = g[N]
  BY <1>1, <1>6, RulesAtSteps DEF N
<1> DEFINE A(n) == S \o t[n]
           P == {n \in 0..N : /\ Rulings(A(n), RulesetsOf(A(n), d))
                              /\ rules_at(rs, A(n), RulesetsOf(A(n), d)) = g[n]}
<1>10. 0 \in P
  <2>1. A(0) = S
    BY <1>3, <1>5 DEF AtStep
  <2>2. \A i \in 1..Len(S) : i \notin RulesetsOf(S, d)
    BY <1>4 DEF RulesetsOf
  <2>3. Rulings(S, RulesetsOf(S, d))
    BY <2>2 DEF Rulings
  <2>4. rules_at(rs, S, RulesetsOf(S, d)) = rs
    BY <1>3, <1>6, <2>2, RulesAtNothing
  <2> HIDE DEF A
  <2>5. g[0] = rs /\ 0 \in 0..N
    BY <1>8, <1>9 DEF RulesStep
  <2>6. QED
    BY <2>1, <2>3, <2>4, <2>5
<1>11. ASSUME NEW n \in 1..N, n - 1 \in P PROVE n \in P
  <2> DEFINE b == A(n - 1)
             e == l[n]
  <2>1. /\ n \in 0..N /\ n - 1 \in 0..N /\ t[n - 1] \in Seq(X)
        /\ t[n] = IF n \in K THEN Append(t[n - 1], l[n]) ELSE t[n - 1]
        /\ g[n] = IF n \in Kd THEN ApplyRuleset(g[n - 1], l[n]) ELSE g[n - 1]
        /\ l[n] \in X
    BY <1>1, <1>5, <1>8, <1>9 DEF AtStep, RulesStep, N
  <2>2. /\ Rulings(b, RulesetsOf(b, d))
        /\ rules_at(rs, b, RulesetsOf(b, d)) = g[n - 1]
    BY <1>11
  <2>3. b \in Seq(Y \cup X)
    BY <1>3, <2>1, Appended
  <2>4. CASE n \notin K
    <3>1. A(n) = b /\ n \notin Kd
      BY <1>7, <2>1, <2>4
    <3> HIDE DEF A, b
    <3>2. QED
      BY <2>1, <2>2, <3>1
  <2>5. CASE n \in K
    <3>1. A(n) = Append(b, e)
      <4> DEFINE u == t[n - 1]
      <4>1. t[n] = Append(u, e) /\ u \in Seq(X) /\ e \in X
        BY <2>1, <2>5
      <4> HIDE DEF u, e
      <4>2. S \o Append(u, e) = Append(S \o u, e)
        BY <1>3, <4>1
      <4>3. QED
        BY <4>1, <4>2 DEF u
    <3>2. PICK c \in Datasets : e \in RulesetEntries(c)
      BY <1>6, <2>5 DEF Rulings, N
    <3>3. e.dataset = c
      BY <3>2 DEF RulesetEntries
    <3>4. n \in Kd <=> c = d
      BY <1>7, <2>5, <3>3
    <3> HIDE DEF A, b, e
    <3>5. /\ Rulings(Append(b, e), RulesetsOf(Append(b, e), d))
          /\ rules_at(rs, Append(b, e), RulesetsOf(Append(b, e), d))
                = IF c = d THEN ApplyRuleset(rules_at(rs, b, RulesetsOf(b, d)), e)
                  ELSE rules_at(rs, b, RulesetsOf(b, d))
      BY <1>6, <2>2, <2>3, <3>2, RulesetsOfMore
    <3>6. rules_at(rs, A(n), RulesetsOf(A(n), d)) = g[n]
      BY <2>1, <2>2, <3>1, <3>4, <3>5 DEF e
    <3>7. QED
      BY <2>1, <3>1, <3>5, <3>6
  <2>6. QED
    BY <2>4, <2>5
<1>12. rules_at(rs, L, RulesetsOf(L, d)) = g[N]
  <2>1. A(N) = L
    BY <1>2, <1>5
  <2>2. N \in P
    <3> HIDE DEF P
    <3>1. \A n \in 0..N : n \in P
      BY <1>8, <1>10, <1>11, BoundedInduction
    <3>2. QED
      BY <1>8, <3>1
  <2> HIDE DEF A
  <2>3. QED
    BY <2>1, <2>2
<1>13. T \in Seq(X) /\ \A i \in 1..Len(T) : \E k \in K \cap (1..N) : T[i] = l[k]
  BY <1>1, AtEntries DEF T, N
<1>14. Plain(T, d)
  <2>1. \A i \in 1..Len(T) : is_ruleset_entry(T[i])
    BY <1>7, <1>13
  <2>2. QED
    BY <2>1 DEF Plain, Creates, Deletes, is_ruleset_entry
<1>15. Cutoff(L, d) = Cutoff(S, d)
  BY <1>2, <1>3, <1>13, <1>14, PlainKeeps
<1>16. ruleset_entries(L, {d}) = RulesetsOf(L, d)
  <2>1. L \in Seq(Y \cup X) /\ Joins(L, S, T)
    BY <1>2, <1>3, <1>13, Appended
  <2>2. ASSUME NEW j \in RulesetsOf(L, d) PROVE j >= Cutoff(L, d)
    <3>1. j \in 1..(Len(S) + Len(T)) /\ is_ruleset_entry(L[j])
      BY <2>1 DEF RulesetsOf, Joins
    <3>2. j \notin 1..Len(S)
      BY <1>4, <2>1, <3>1 DEF Joins
    <3>3. PICK k \in 1..Len(T) : j = Len(S) + k
      BY <2>1, <3>1, <3>2 DEF Joins
    <3>4. Cutoff(S, d) \in 0..Len(S)
      BY <1>3, CutoffIs
    <3>5. Len(S) \in Nat /\ Len(T) \in Nat
      BY <1>3, <1>13
    <3>6. j >= Cutoff(S, d)
      BY <3>3, <3>4, <3>5
    <3>7. QED
      BY <1>15, <3>6
  <2>3. QED
    BY <2>2 DEF ruleset_entries, RulesetsOf
<1>17. FirstRules(L, d) = rs
  <2> DEFINE B == {}
  <2>1. CompactIs(compact_multi(l, st), l, st, d, B)
    BY <1>1, CompactRebuilt
  <2>2. d \in discover_dataset_names(L) <=> d # MainDataset
    BY <2>1 DEF CompactIs, L
  <2>3. QED
    BY <2>2 DEF FirstRules, rs
<1>18. QED
  BY <1>9, <1>12, <1>16, <1>17 DEF Forced, L, Kd, rs

-----------------------------------------------------------------------------
(* Rulesets in memory and in the log                                         *)

\* The main dataset is served from the root store only as long as no other
\* dataset took its name.
RootStart ==
    MainDataset \in DOMAIN registry /\ registry[MainDataset] = Root
        => MainDataset \notin discover_dataset_names(log)

RulesAgree ==
    \A d \in DOMAIN registry :
        d \in rulesTainted \/ stores[registry[d]].rules = Forced(log, d)

\* The reasoner was asked about everything a store holds.
Asked ==
    \A d \in DOMAIN registry :
        \/ d \in unchecked
        \/ ~Contradiction(stores[registry[d]].rules.active, stores[registry[d]].quads)

RulePart == RootStart /\ RulesAgree /\ Asked
RuleInv == QuadInv /\ RulePart

LEMMA OwnForced ==
    ASSUME NEW l, LogOK(l), NEW c, NEW es, OwnEntries(es, c)
    PROVE  \A d : Forced(l \o es, d) = Forced(l, d)
<1>1. PICK Y : es \in Seq(Y)
  BY DEF OwnEntries
<1>2. \A d : Silent(es, d) /\ Plain(es, d)
  BY OwnPlain DEF OwnEntries, OwnEntry, Silent, is_ruleset_entry
<1>3. QED
  BY <1>1, <1>2, ForcedMore

LEMMA UploadLogRules ==
    ASSUME PersistenceAssumption, RuleInv, NEW c \in Clients, NEW Q \in Bodies, UploadLog(c, Q)
    PROVE  RulePart'
<1> DEFINE ds == req[c].d
           es == SetToSeq(InsertEntries(ds, Q))
<1>1. Q \in SUBSET Quads
  BY DEF PersistenceAssumption
<1>2. ds \in Datasets
  BY HeldIs DEF RuleInv, QuadInv, UploadLog
<1>3. OwnEntries(es, ds)
  BY <1>1, InsertsWritten
<1>4. /\ log' = log \o es
      /\ UNCHANGED <<stores, registry, rulesTainted, unchecked>>
  BY DEF UploadLog
<1> HIDE DEF es
<1>5. /\ discover_dataset_names(log') = discover_dataset_names(log)
      /\ \A d : Forced(log', d) = Forced(log, d)
  BY <1>2, <1>3, <1>4, LogsOwn, OwnForced DEF RuleInv, QuadInv, Typed
<1>6. RootStart' /\ RulesAgree' /\ Asked'
  BY <1>4, <1>5 DEF RuleInv, RulePart, RootStart, RulesAgree, Asked
<1>7. QED
  BY <1>6 DEF RulePart

LEMMA UploadApplyRules ==
    ASSUME PersistenceAssumption, RuleInv, NEW c \in Clients, UploadApply(c)
    PROVE  RulePart'
<1> DEFINE ds == req[c].d
           sid == req[c].sid
           T == stores[sid].quads \cup req[c].quads
<1>1. /\ req[c] # Idle /\ sid \in 1..Len(stores) /\ req[c].quads \subseteq Quads
  BY HeldIs DEF RuleInv, QuadInv, UploadApply
<1>2. /\ UNCHANGED <<log, registry, rulesTainted>>
      /\ unchecked' = unchecked \cup {ds}
      /\ stores' = [stores EXCEPT ![sid].quads = T]
  BY DEF UploadApply
<1>3. T \in SUBSET Quads
  BY <1>1 DEF RuleInv, QuadInv, Typed, StoreOK
<1> HIDE DEF T
<1>4. /\ stores'[sid].rules = stores[sid].rules
      /\ \A i \in 1..Len(stores) : i # sid => stores'[i] = stores[i]
  BY <1>1, <1>2, <1>3, QuadsChange DEF RuleInv, QuadInv
<1>5. \A d \in DOMAIN registry : registry[d] \in 1..Len(stores) /\ (registry[d] = sid => d = ds)
  BY <1>1 DEF RuleInv, QuadInv, Owners, Typed
<1>6. RootStart'
  BY <1>2 DEF RuleInv, RulePart, RootStart
<1>7. RulesAgree'
  BY <1>2, <1>4, <1>5 DEF RuleInv, RulePart, RulesAgree
<1>8. Asked'
  BY <1>2, <1>4, <1>5 DEF RuleInv, RulePart, Asked
<1>9. QED
  BY <1>6, <1>7, <1>8 DEF RulePart

LEMMA NoMore ==
    ASSUME NEW R, NEW S, NEW T, S \subseteq T, ~Contradiction(R, T)
    PROVE  ~Contradiction(R, S)
BY DEF Contradiction

LEMMA LockedWriteRules ==
    ASSUME PersistenceAssumption, RuleInv, NEW c \in Clients, LockedWrite(c)
    PROVE  RulePart'
<1> DEFINE ds == req[c].d
           sid == req[c].sid
           s == stores[sid]
<1>1. req[c] # Idle /\ ds \in Datasets /\ sid \in 1..Len(stores)
  BY HeldIs DEF RuleInv, QuadInv, LockedWrite
<1>2. s.quads \subseteq Quads
  BY <1>1 DEF RuleInv, QuadInv, Typed, StoreOK
<1>3. PICK o \in Writes(ds, s) :
        /\ log' = log \o o.entries
        /\ stores' = [stores EXCEPT ![sid].quads = o.quads]
        /\ unchecked' = IF o.checked THEN unchecked ELSE unchecked \cup {ds}
  BY DEF LockedWrite, Held
<1> DEFINE es == o.entries
           T == o.quads
           R == s.rules.active
<1>4. UNCHANGED <<registry, rulesTainted>>
  BY DEF LockedWrite
<1>5. Written(o, ds, s)
  BY <1>2, WritesWritten
<1>6. /\ OwnEntries(es, ds) /\ T \in SUBSET Quads
      /\ ds \notin unchecked' => T \subseteq s.quads \/ ~Contradiction(R, T)
      /\ unchecked \subseteq unchecked'
  BY <1>3, <1>5 DEF Written
<1> HIDE DEF es, T
<1>7. log' = log \o es /\ stores' = [stores EXCEPT ![sid].quads = T]
  BY <1>3 DEF es, T
<1>8. /\ discover_dataset_names(log') = discover_dataset_names(log)
      /\ \A d : Forced(log', d) = Forced(log, d)
  BY <1>1, <1>6, <1>7, LogsOwn, OwnForced DEF RuleInv, QuadInv, Typed
<1>9. /\ stores'[sid].quads = T /\ stores'[sid].rules = s.rules
      /\ \A i \in 1..Len(stores) : i # sid => stores'[i] = stores[i]
  BY <1>1, <1>6, <1>7, QuadsChange DEF RuleInv, QuadInv
<1>10. \A d \in DOMAIN registry : registry[d] \in 1..Len(stores) /\ (registry[d] = sid => d = ds)
  BY <1>1 DEF RuleInv, QuadInv, Owners, Typed
<1>11. RootStart'
  BY <1>4, <1>8 DEF RuleInv, RulePart, RootStart
<1>12. RulesAgree'
  <2> SUFFICES ASSUME NEW d \in DOMAIN registry, d \notin rulesTainted
               PROVE  stores'[registry[d]].rules = Forced(log', d)
    BY <1>4 DEF RulesAgree
  <2>1. stores[registry[d]].rules = Forced(log, d)
    BY DEF RuleInv, RulePart, RulesAgree
  <2>2. stores'[registry[d]].rules = stores[registry[d]].rules
    BY <1>9, <1>10
  <2>3. QED
    BY <1>8, <2>1, <2>2
<1>13. Asked'
  <2> SUFFICES ASSUME NEW d \in DOMAIN registry, d \notin unchecked'
               PROVE  ~Contradiction(stores'[registry[d]].rules.active, stores'[registry[d]].quads)
    BY <1>4 DEF Asked
  <2>1. ~Contradiction(stores[registry[d]].rules.active, stores[registry[d]].quads)
    BY <1>6 DEF RuleInv, RulePart, Asked
  <2>2. CASE registry[d] # sid
    BY <1>9, <1>10, <2>1, <2>2
  <2>3. CASE registry[d] = sid
    <3>1. d = ds /\ ~Contradiction(R, s.quads)
      BY <1>10, <2>1, <2>3
    <3>2. ~Contradiction(R, T)
      BY <1>6, <3>1, NoMore
    <3>3. stores'[registry[d]].rules.active = R /\ stores'[registry[d]].quads = T
      BY <1>9, <2>3
    <3>4. QED
      BY <3>2, <3>3
  <2>4. QED
    BY <2>2, <2>3
<1>14. QED
  BY <1>11, <1>12, <1>13 DEF RulePart

LEMMA RulesOpRules ==
    ASSUME PersistenceAssumption, RuleInv, NEW c \in Clients, NEW d0 \in Datasets,
           NEW e \in RulesetEntries(d0), RulesOp(c, e)
    PROVE  RulePart'
<1> DEFINE sid == req[c].sid
           R == ApplyRuleset(stores[sid].rules, e)
<1>1. /\ req[c] # Idle /\ sid \in 1..Len(stores)
      /\ e.dataset = d0 /\ req[c].d = d0
  BY HeldIs DEF RuleInv, QuadInv, RulesOp, RulesetEntries
<1>2. /\ stores' = [stores EXCEPT ![sid].rules = R]
      /\ \/ /\ log' = Append(log, e)
            /\ rulesTainted' = IF Current(c) THEN rulesTainted ELSE rulesTainted \cup {d0}
         \/ log' = log /\ rulesTainted' = rulesTainted \cup {d0}
      /\ ~Contradiction(R.active, stores[sid].quads)
      /\ UNCHANGED <<registry, unchecked>>
  BY <1>1 DEF RulesOp, Held
<1>3. Current(c) <=> d0 \in DOMAIN registry /\ registry[d0] = sid
  BY <1>1 DEF Current
<1>4. R = ApplyRuleset(stores[sid].rules, e)
  OBVIOUS
<1> HIDE DEF R
<1>5. /\ stores'[sid].rules = R
      /\ \A i \in 1..Len(stores) : stores'[i].quads = stores[i].quads
                                   /\ (i # sid => stores'[i] = stores[i])
  BY <1>1, <1>2, RulesChange DEF RuleInv, QuadInv
<1>6. \A d \in DOMAIN registry : registry[d] \in 1..Len(stores) /\ (registry[d] = sid => d = d0)
  BY <1>1 DEF RuleInv, QuadInv, Owners, Typed
<1>7. LogOK(log)
  BY DEF RuleInv, QuadInv, Typed
<1>8. discover_dataset_names(log') = discover_dataset_names(log)
  BY <1>2, <1>7, LogRuleset
<1>9. RootStart'
  BY <1>2, <1>8 DEF RuleInv, RulePart, RootStart
<1>10. \A d : d # d0 => Forced(log', d) = Forced(log, d)
  <2>1. ASSUME log' = Append(log, e), NEW d, d # d0
        PROVE  Forced(log', d) = Forced(log, d)
    <3> DEFINE es == <<e>>
    <3>1. PICK X : log \in Seq(X)
      BY <1>7 DEF LogOK
    <3>2. es \in Seq({e}) /\ Len(es) = 1 /\ es[1] = e /\ log' = log \o es
      BY <2>1, <3>1
    <3> HIDE DEF es
    <3>3. e.op \notin {"CreateDataset", "DeleteDataset"}
      BY DEF RulesetEntries
    <3>4. Plain(es, d) /\ Silent(es, d)
      BY <1>1, <2>1, <3>2, <3>3 DEF Plain, Silent, Creates, Deletes
    <3>5. QED
      BY <1>7, <3>2, <3>4, ForcedMore
  <2>2. QED
    BY <1>2, <2>1
<1>11. RulesAgree'
  <2> SUFFICES ASSUME NEW d \in DOMAIN registry, d \notin rulesTainted'
               PROVE  stores'[registry[d]].rules = Forced(log', d)
    BY <1>2 DEF RulesAgree
  <2>1. d \notin rulesTainted
    BY <1>2
  <2>2. stores[registry[d]].rules = Forced(log, d)
    BY <2>1 DEF RuleInv, RulePart, RulesAgree
  <2>3. CASE d # d0
    BY <1>5, <1>6, <1>10, <2>2, <2>3
  <2>4. CASE d = d0
    <3>1. log' = Append(log, e) /\ registry[d] = sid
      BY <1>2, <1>3, <2>4
    <3>2. Forced(log', d) = ApplyRuleset(Forced(log, d), e)
      BY <1>7, <2>4, <3>1, ForcedOne
    <3>3. QED
      BY <1>4, <1>5, <2>2, <3>1, <3>2
  <2>5. QED
    BY <2>3, <2>4
<1>12. Asked'
  <2> SUFFICES ASSUME NEW d \in DOMAIN registry, d \notin unchecked
               PROVE  ~Contradiction(stores'[registry[d]].rules.active, stores'[registry[d]].quads)
    BY <1>2 DEF Asked
  <2>1. CASE registry[d] # sid
    BY <1>5, <1>6, <2>1 DEF RuleInv, RulePart, Asked
  <2>2. CASE registry[d] = sid
    BY <1>1, <1>2, <1>5, <2>2
  <2>3. QED
    BY <2>1, <2>2
<1>13. QED
  BY <1>9, <1>11, <1>12 DEF RulePart

LEMMA CreateDatasetRules ==
    ASSUME PersistenceAssumption, RuleInv, NEW d \in Datasets, CreateDataset(d)
    PROVE  RulePart'
<1> DEFINE e == [op |-> "CreateDataset", name |-> d]
           s == [quads |-> {}, rules |-> NoRules]
           n == Len(stores)
           es == <<e>>
<1>1. /\ up = TRUE
      /\ d \notin DOMAIN registry
      /\ log' = Append(log, e)
      /\ stores' = Append(stores, s)
      /\ registry' = Put(registry, d, n + 1)
      /\ rulesTainted' = rulesTainted \ {d}
      /\ unchecked' = unchecked \ {d}
  BY DEF CreateDataset, RuleInv, QuadInv, Typed
<1>2. LogOK(log)
  BY DEF RuleInv, QuadInv, Typed
<1>3. PICK Y : log \in Seq(Y)
  BY <1>2 DEF LogOK
<1>4. discover_dataset_names(log') = discover_dataset_names(log) \cup {d}
  BY <1>1, <1>2, LogCreate
<1>5. Forced(log', d) = NoRules
  BY <1>1, <1>2, ForcedNew
<1>6. e.op = "CreateDataset" /\ e.name = d /\ ~is_ruleset_entry(e)
  BY DEF is_ruleset_entry
<1>7. s.quads = {} /\ s.rules = NoRules /\ NoRules.active = {}
  BY DEF NoRules
<1> HIDE DEF e, s
<1>8. es \in Seq({e}) /\ Len(es) = 1 /\ es[1] = e /\ log' = log \o es
  BY <1>1, <1>3
<1> HIDE DEF es
<1>9. \A c : c # d => Forced(log', c) = Forced(log, c)
  <2> SUFFICES ASSUME NEW c, c # d PROVE Forced(log', c) = Forced(log, c)
    OBVIOUS
  <2>1. Plain(es, c) /\ Silent(es, c)
    BY <1>6, <1>8 DEF Plain, Silent, Creates, Deletes
  <2>2. QED
    BY <1>2, <1>8, <2>1, ForcedMore
<1>10. PICK X : stores \in Seq(X)
  BY DEF RuleInv, QuadInv, Typed
<1>11. /\ n \in Nat /\ n > 0
       /\ stores'[n + 1] = s
       /\ \A i \in 1..n : stores'[i] = stores[i]
  BY <1>1, <1>10 DEF RuleInv, QuadInv, Typed
<1>12. /\ DOMAIN registry' = DOMAIN registry \cup {d}
       /\ registry'[d] = n + 1
       /\ \A c \in DOMAIN registry : registry'[c] = registry[c] /\ registry[c] \in 1..n /\ c # d
  BY <1>1 DEF Put, RuleInv, QuadInv, Typed
<1> HIDE DEF n
<1>13. n + 1 # Root
  BY <1>11 DEF Root
<1>14. RootStart'
  BY <1>4, <1>12, <1>13 DEF RuleInv, RulePart, RootStart
<1>15. RulesAgree'
  <2> SUFFICES ASSUME NEW c \in DOMAIN registry', c \notin rulesTainted'
               PROVE  stores'[registry'[c]].rules = Forced(log', c)
    BY DEF RulesAgree
  <2>1. CASE c = d
    BY <1>5, <1>7, <1>11, <1>12, <2>1
  <2>2. CASE c # d
    <3>1. c \in DOMAIN registry /\ stores'[registry'[c]] = stores[registry[c]] /\ c \notin rulesTainted
      BY <1>1, <1>11, <1>12, <2>2
    <3>2. QED
      BY <1>9, <2>2, <3>1 DEF RuleInv, RulePart, RulesAgree
  <2>3. QED
    BY <2>1, <2>2
<1>16. Asked'
  <2> SUFFICES ASSUME NEW c \in DOMAIN registry', c \notin unchecked'
               PROVE  ~Contradiction(stores'[registry'[c]].rules.active,
                                     stores'[registry'[c]].quads)
    BY DEF Asked
  <2>1. CASE c = d
    BY <1>7, <1>11, <1>12, <2>1 DEF Contradiction
  <2>2. CASE c # d
    <3>1. c \in DOMAIN registry /\ stores'[registry'[c]] = stores[registry[c]] /\ c \notin unchecked
      BY <1>1, <1>11, <1>12, <2>2
    <3>2. QED
      BY <3>1 DEF RuleInv, RulePart, Asked
  <2>3. QED
    BY <2>1, <2>2
<1>17. QED
  BY <1>14, <1>15, <1>16 DEF RulePart

LEMMA DeleteDatasetRules ==
    ASSUME PersistenceAssumption, RuleInv, NEW d \in Datasets, DeleteDataset(d)
    PROVE  RulePart'
<1> DEFINE e == [op |-> "DeleteDataset", name |-> d]
           es == <<e>>
<1>1. /\ log' = Append(log, e)
      /\ registry' = [c \in DOMAIN registry \ {d} |-> registry[c]]
      /\ UNCHANGED <<stores, rulesTainted, unchecked>>
  BY DEF DeleteDataset, history
<1>2. LogOK(log)
  BY DEF RuleInv, QuadInv, Typed
<1>3. PICK Y : log \in Seq(Y)
  BY <1>2 DEF LogOK
<1>4. discover_dataset_names(log') = discover_dataset_names(log) \ {d}
  BY <1>1, <1>2, LogDelete
<1>5. e.op = "DeleteDataset" /\ e.name = d /\ ~is_ruleset_entry(e)
  BY DEF is_ruleset_entry
<1> HIDE DEF e
<1>6. es \in Seq({e}) /\ Len(es) = 1 /\ es[1] = e /\ log' = log \o es
  BY <1>1, <1>3
<1> HIDE DEF es
<1>7. \A c : c # d => Forced(log', c) = Forced(log, c)
  <2> SUFFICES ASSUME NEW c, c # d PROVE Forced(log', c) = Forced(log, c)
    OBVIOUS
  <2>1. Plain(es, c) /\ Silent(es, c)
    BY <1>5, <1>6 DEF Plain, Silent, Creates, Deletes
  <2>2. QED
    BY <1>2, <1>6, <2>1, ForcedMore
<1>8. \A c \in DOMAIN registry' : c \in DOMAIN registry /\ registry'[c] = registry[c] /\ c # d
  BY <1>1
<1>9. RootStart'
  BY <1>4, <1>8 DEF RuleInv, RulePart, RootStart
<1>10. RulesAgree'
  BY <1>1, <1>7, <1>8 DEF RuleInv, RulePart, RulesAgree
<1>11. Asked'
  BY <1>1, <1>8 DEF RuleInv, RulePart, Asked
<1>12. QED
  BY <1>9, <1>10, <1>11 DEF RulePart

LEMMA CompactRules ==
    ASSUME PersistenceAssumption, RuleInv, Compact
    PROVE  RulePart'
<1> DEFINE C == Contents
<1>1. /\ log' = compact_multi(log, C)
      /\ rulesTainted' = IF MainDataset \in DOMAIN registry /\ registry[MainDataset] # Root
                         THEN rulesTainted \cup {MainDataset} ELSE rulesTainted
      /\ UNCHANGED <<stores, registry, unchecked>>
  BY DEF Compact
<1>2. DOMAIN C = DOMAIN registry /\ DOMAIN registry \subseteq Datasets
  BY DEF Contents, RuleInv, QuadInv, Typed
<1>3. \A d \in DOMAIN registry : C[d] \subseteq Quads
  <2>1. \A d \in DOMAIN registry : stores[registry[d]].quads \subseteq Quads
    BY DEF StoreOK, RuleInv, QuadInv, Typed
  <2>2. QED
    BY <2>1 DEF Contents, Derived
<1> HIDE DEF C
<1>4. LogOK(log) /\ IsFiniteSet(DOMAIN C) /\ \A c \in DOMAIN C : IsFiniteSet(C[c])
  BY <1>2, <1>3, FS_Subset DEF PersistenceAssumption, RuleInv, QuadInv, Typed
<1>5. discover_dataset_names(log') = DOMAIN C \ {MainDataset}
  BY <1>1, <1>2, <1>3, <1>4, LogCompact
<1>6. RootStart'
  BY <1>5 DEF RootStart
<1>7. RulesAgree'
  <2> SUFFICES ASSUME NEW d \in DOMAIN registry, d \notin rulesTainted'
               PROVE  stores[registry[d]].rules = Forced(log', d)
    BY <1>1 DEF RulesAgree
  <2>1. d \notin rulesTainted /\ (d = MainDataset => registry[d] = Root)
    BY <1>1
  <2>2. d = MainDataset => d \notin discover_dataset_names(log)
    BY <2>1 DEF RuleInv, RulePart, RootStart
  <2>3. Forced(compact_multi(log, C), d) = Forced(log, d)
    BY <1>2, <1>4, <2>2, ForcedCompact
  <2>4. QED
    BY <1>1, <2>1, <2>3 DEF RuleInv, RulePart, RulesAgree
<1>8. Asked'
  BY <1>1 DEF RuleInv, RulePart, Asked
<1>9. QED
  BY <1>6, <1>7, <1>8 DEF RulePart

LEMMA RecoveredIs ==
    ASSUME NEW d
    PROVE  /\ Recovered(d) = Rebuilt(log, d, FileData)
           /\ StartRules(d) = FirstRules(log, d)
           /\ RecoveredRules(d) = Forced(log, d)
BY DEF Recovered, Rebuilt, StartRules, FirstRules, RecoveredRules, Forced, RulesetLog

\* A server that starts has no contradiction in any of its datasets.
LEMMA StartsClean ==
    ASSUME PersistenceAssumption, LogOK(log), Startable, NEW d \in RecoveredNames
    PROVE  ~Contradiction(Forced(log, d).active, Rebuilt(log, d, FileData))
<1> DEFINE K == RulesetLog(d)
           n == Max({0} \cup K)
<1>1. PICK X : log \in Seq(X)
  BY DEF LogOK
<1>2. Len(log) \in Nat /\ K \subseteq 1..Len(log)
  BY <1>1 DEF RulesetLog, ruleset_entries
<1>3. Forced(log, d) = rules_at(FirstRules(log, d), log, K)
  BY DEF Forced, RulesetLog
<1>4. CASE K = {}
  <2>1. FirstRules(log, d) \in RuleStates
    BY StartType
  <2> HIDE DEF K
  <2>2. Forced(log, d) = FirstRules(log, d)
    BY <1>1, <1>3, <1>4, <2>1, RulesAtNothing
  <2>3. CASE FirstRules(log, d) = NoRules
    <3>1. NoRules.active = {}
      BY DEF NoRules
    <3>2. QED
      BY <2>2, <2>3, <3>1 DEF Contradiction
  <2>4. CASE FirstRules(log, d) # NoRules
    <3>1. d = MainDataset /\ d \notin discover_dataset_names(log)
      BY <2>4 DEF FirstRules
    <3>2. FirstRules(log, d).active = InitialRules
      BY <3>1 DEF FirstRules
    <3>3. Rebuilt(log, d, FileData) = replay_into(log, FileData)
      BY <3>1 DEF Rebuilt
    <3>4. QED
      BY <2>2, <3>2, <3>3 DEF Startable
  <2>5. QED
    BY <2>3, <2>4
<1>5. CASE K # {}
  <2> HIDE DEF K
  <2>1. n \in {0} \cup K /\ \A k \in K : k <= n
    BY <1>2, MaxOrZero
  <2> HIDE DEF n
  <2>2. n \in K
    <3>1. PICK k \in K : k <= n
      BY <1>5, <2>1
    <3>2. n # 0
      BY <1>2, <3>1
    <3>3. QED
      BY <2>1, <3>2
  <2>3. {i \in K : i <= n} = K
    BY <2>1
  <2>4. RulesAfter(d, n) = Forced(log, d)
    BY <1>3, <2>3, RecoveredIs DEF RulesAfter, K
  <2>5. ~Contradiction(RulesAfter(d, n).active, Recovered(d))
    BY <2>2 DEF Startable, K
  <2>6. QED
    BY <2>4, <2>5, RecoveredIs
<1>6. QED
  BY <1>4, <1>5

LEMMA RestartRules ==
    ASSUME PersistenceAssumption, RuleInv, Restart
    PROVE  RulePart'
<1>1. /\ Startable
      /\ stores' = BootStores
      /\ registry' = BootRegistry
      /\ UNCHANGED <<log, rulesTainted, unchecked>>
  BY DEF Restart
<1>2. LogOK(log)
  BY DEF RuleInv, QuadInv, Typed
<1>3. /\ DOMAIN BootRegistry = RecoveredNames
      /\ \A d \in RecoveredNames :
            /\ BootStores[BootRegistry[d]] = Found(d)
            /\ BootRegistry[d] = Root =>
                  d = MainDataset /\ d \notin discover_dataset_names(log)
  BY <1>2, Boots
<1>4. \A d \in RecoveredNames : /\ stores'[registry'[d]].rules = Forced(log, d)
                                /\ stores'[registry'[d]].quads = Rebuilt(log, d, FileData)
  <2> SUFFICES ASSUME NEW d \in RecoveredNames
               PROVE  /\ stores'[registry'[d]].rules = Forced(log, d)
                      /\ stores'[registry'[d]].quads = Rebuilt(log, d, FileData)
    OBVIOUS
  <2>1. stores'[registry'[d]] = Found(d)
    BY <1>1, <1>3
  <2>2. Found(d).rules = Forced(log, d) /\ Found(d).quads = Rebuilt(log, d, FileData)
    BY RecoveredIs DEF Found
  <2>3. QED
    BY <2>1, <2>2
<1>5. RootStart'
  BY <1>1, <1>3 DEF RootStart
<1>6. RulesAgree'
  BY <1>1, <1>3, <1>4 DEF RulesAgree
<1>7. Asked'
  <2> SUFFICES ASSUME NEW d \in RecoveredNames
               PROVE  ~Contradiction(stores'[registry'[d]].rules.active,
                                     stores'[registry'[d]].quads)
    BY <1>1, <1>3 DEF Asked
  <2>1. ~Contradiction(Forced(log, d).active, Rebuilt(log, d, FileData))
    BY <1>1, <1>2, StartsClean
  <2>2. QED
    BY <1>4, <2>1
<1>8. QED
  BY <1>5, <1>6, <1>7 DEF RulePart

LEMMA InitRules ==
    ASSUME PersistenceAssumption, Init
    PROVE  RulePart
<1>1. /\ log = << >> /\ Startable /\ stores = <<RootStore>>
      /\ registry = [d \in {MainDataset} |-> Root]
  BY DEF Init
<1>2. log \in Seq({}) /\ Len(log) = 0
  BY <1>1
<1>3. LogOK(log)
  BY <1>2 DEF LogOK
<1>4. DOMAIN registry = {MainDataset} /\ registry[MainDataset] = Root
  BY <1>1
<1>5. MainDataset \notin discover_dataset_names(log)
  <2>1. Plain(log, MainDataset)
    BY <1>2 DEF Plain
  <2>2. QED
    BY <1>2, <2>1, NotCreated
<1>6. Forced(log, MainDataset) = [active |-> InitialRules, named |-> << >>]
  <2> DEFINE K == ruleset_entries(log, {MainDataset})
  <2>1. FirstRules(log, MainDataset) \in RuleStates
    BY StartType
  <2>2. \A i \in 1..Len(log) : i \notin K
    BY <1>2
  <2> HIDE DEF K
  <2>3. rules_at(FirstRules(log, MainDataset), log, K) = FirstRules(log, MainDataset)
    BY <1>2, <2>1, <2>2, RulesAtNothing
  <2>4. QED
    BY <1>5, <2>3 DEF Forced, FirstRules, K
<1>7. RootStore.rules = Forced(log, MainDataset)
  BY <1>6 DEF RootStore
<1>8. RootStore.quads = Rebuilt(log, MainDataset, FileData)
  BY <1>3, <1>5, RootStoreOK
<1>9. MainDataset \in RecoveredNames
  BY DEF RecoveredNames
<1>10. ~Contradiction(RootStore.rules.active, RootStore.quads)
  BY <1>1, <1>3, <1>7, <1>8, <1>9, StartsClean
<1> DEFINE s == RootStore
<1>11. stores = <<s>>
  BY <1>1
<1> HIDE DEF s
<1>12. stores[1] = s
  BY <1>11
<1>13. RootStart
  BY <1>5 DEF RootStart
<1>14. RulesAgree
  BY <1>4, <1>7, <1>12 DEF RulesAgree, Root, s
<1>15. Asked
  BY <1>4, <1>10, <1>12 DEF Asked, Root, s
<1>16. QED
  BY <1>13, <1>14, <1>15 DEF RulePart

LEMMA NextRules ==
    ASSUME PersistenceAssumption, RuleInv, [Next]_vars
    PROVE  RulePart'
<1>1. CASE Crash
  <2>1. DOMAIN registry' = {}
    BY <1>1 DEF Crash
  <2>2. QED
    BY <2>1 DEF RulePart, RootStart, RulesAgree, Asked
<1>2. CASE Restart
  BY <1>2, RestartRules
<1>3. CASE Compact
  BY <1>3, CompactRules
<1>4. CASE \E d \in Datasets : CreateDataset(d) \/ DeleteDataset(d)
  BY <1>4, CreateDatasetRules, DeleteDatasetRules
<1>5. ASSUME NEW c \in Clients, LockedWrite(c) PROVE RulePart'
  BY <1>5, LockedWriteRules
<1>6. ASSUME NEW c \in Clients, UploadApply(c) PROVE RulePart'
  BY <1>6, UploadApplyRules
<1>7. ASSUME NEW c \in Clients, NEW Q \in Bodies, UploadLog(c, Q) PROVE RulePart'
  BY <1>7, UploadLogRules
<1>8. ASSUME UNCHANGED <<log, stores, registry, rulesTainted, unchecked>> PROVE RulePart'
  <2>1. RootStart'
    BY <1>8 DEF RuleInv, RulePart, RootStart
  <2>2. RulesAgree'
    BY <1>8 DEF RuleInv, RulePart, RulesAgree
  <2>3. Asked'
    BY <1>8 DEF RuleInv, RulePart, Asked
  <2>4. QED
    BY <2>1, <2>2, <2>3 DEF RulePart
<1>9. ASSUME NEW c \in Clients, NEW d \in Datasets, Resolve(c, d) PROVE RulePart'
  BY <1>8, <1>9 DEF Resolve, history
<1>10. ASSUME NEW c \in Clients, NEW e \in UNION {RulesetEntries(d) : d \in Datasets},
              RulesOp(c, e)
       PROVE  RulePart'
  <2>1. PICK d \in Datasets : e \in RulesetEntries(d)
    OBVIOUS
  <2>2. QED
    BY <1>10, <2>1, RulesOpRules
<1>11. CASE UNCHANGED vars
  BY <1>8, <1>11 DEF vars
<1>12. QED
  BY <1>1, <1>2, <1>3, <1>4, <1>5, <1>6, <1>7, <1>9, <1>10, <1>11 DEF Next

\* With the quads, the rulesets: where none is marked, those in force are the
\* ones in the log, and the reasoner has seen what they are about.
THEOREM RuleInvariant == Spec => []RuleInv
<1>1. Init => RuleInv
  BY PersistenceAssumption, InitQuads, InitRules DEF RuleInv
<1>2. RuleInv /\ [Next]_vars => RuleInv'
  <2>1. RuleInv /\ [Next]_vars => QuadInv'
    BY PersistenceAssumption, NextQuads DEF RuleInv
  <2>2. RuleInv /\ [Next]_vars => RulePart'
    BY PersistenceAssumption, NextRules
  <2>3. QED
    BY <2>1, <2>2 DEF RuleInv
<1>3. QED
  BY <1>1, <1>2, PTL DEF Spec

\* ruleset_entries gives a restart the rulesets that the server has in force,
\* under the names it has them.
THEOREM RulesAreDurable == Spec => []RulesDurable
<1>1. RuleInv => RulesDurable
  <2>1. \A d : RecoveredRules(d) = Forced(log, d)
    BY RecoveredIs
  <2>2. QED
    BY <2>1 DEF RuleInv, RulePart, RulesAgree, RulesDurable
<1>2. QED
  BY <1>1, RuleInvariant, PTL

-----------------------------------------------------------------------------
(* Restarts                                                                  *)

LEMMA AtMostOne ==
    ASSUME NEW S, IsFiniteSet(S), Cardinality(S) <= 1, NEW n \in S
    PROVE  S = {n}
<1>1. IsFiniteSet(S \ {n}) /\ Cardinality(S \ {n}) = Cardinality(S) - 1
  BY FS_RemoveElement
<1>2. Cardinality(S) \in Nat /\ Cardinality(S \ {n}) \in Nat
  BY <1>1, FS_CardinalityType
<1>3. Cardinality(S \ {n}) = 0
  BY <1>1, <1>2
<1>4. S \ {n} = {}
  BY <1>1, <1>3, FS_EmptySet
<1>5. QED
  BY <1>4

LEMMA FiniteRulesets ==
    ASSUME LogOK(log), NEW d
    PROVE  RulesetLog(d) \subseteq 1..Len(log) /\ IsFiniteSet(RulesetLog(d))
<1>1. PICK X : log \in Seq(X)
  BY DEF LogOK
<1>2. RulesetLog(d) \subseteq 1..Len(log) /\ Len(log) \in Nat
  BY <1>1 DEF RulesetLog, ruleset_entries
<1>3. IsFiniteSet(1..Len(log))
  BY <1>2, FS_Interval
<1>4. QED
  BY <1>2, <1>3, FS_Subset

\* What a server without marks holds is what the log says, and the reasoner
\* has accepted it.
LEMMA Settled ==
    ASSUME PersistenceAssumption, RuleInv, NEW d \in DOMAIN registry,
           tainted = {}, rulesTainted = {}, unchecked = {}
    PROVE  ~Contradiction(Forced(log, d).active, Rebuilt(log, d, FileData))
<1> DEFINE s == stores[registry[d]]
<1>1. \A q : q \in s.quads <=> q \in Rebuilt(log, d, FileData)
  BY DEF RuleInv, QuadInv, Durable
<1>2. s.rules = Forced(log, d)
  BY DEF RuleInv, RulePart, RulesAgree
<1>3. ~Contradiction(s.rules.active, s.quads)
  BY DEF RuleInv, RulePart, Asked
<1> HIDE DEF s
<1>4. s.quads = Rebuilt(log, d, FileData)
  BY <1>1
<1>5. QED
  BY <1>2, <1>3, <1>4

LEMMA CleanRestart ==
    ASSUME PersistenceAssumption, RuleInv, up,
           tainted = {}, rulesTainted = {}, unchecked = {},
           MainDataset \in DOMAIN registry, registry[MainDataset] = Root,
           \A d \in DOMAIN registry :
              Cardinality(RulesetLog(d)) + (IF StartRules(d) = NoRules THEN 0 ELSE 1) <= 1
    PROVE  Startable
<1>1. LogOK(log)
  BY DEF RuleInv, QuadInv, Typed
<1>2. \A d : Cardinality(RulesetLog(d)) \in Nat
  BY <1>1, FiniteRulesets, FS_CardinalityType
<1>3. MainDataset \notin discover_dataset_names(log)
  BY DEF RuleInv, RulePart, RootStart
<1>4. PICK X : log \in Seq(X)
  BY <1>1 DEF LogOK
<1>5. ~Contradiction(InitialRules, replay_into(log, FileData))
  <2>1. StartRules(MainDataset) = FirstRules(log, MainDataset)
    BY RecoveredIs
  <2>2. FirstRules(log, MainDataset).active = InitialRules
    BY <1>3 DEF FirstRules
  <2>3. Rebuilt(log, MainDataset, FileData) = replay_into(log, FileData)
    BY <1>3 DEF Rebuilt
  <2>4. CASE FirstRules(log, MainDataset) = NoRules
    <3>1. InitialRules = {}
      BY <2>2, <2>4 DEF NoRules
    <3>2. QED
      BY <3>1 DEF Contradiction
  <2>5. CASE FirstRules(log, MainDataset) # NoRules
    <3>1. Cardinality(RulesetLog(MainDataset)) + 1 <= 1
      BY <2>1, <2>5
    <3>2. RulesetLog(MainDataset) = {}
      <4>1. Cardinality(RulesetLog(MainDataset)) = 0
        BY <1>2, <3>1
      <4>2. QED
        BY <1>1, <4>1, FiniteRulesets, FS_EmptySet
    <3>3. Forced(log, MainDataset) = FirstRules(log, MainDataset)
      <4>1. \A i \in 1..Len(log) : i \notin ruleset_entries(log, {MainDataset})
        BY <3>2 DEF RulesetLog
      <4>2. FirstRules(log, MainDataset) \in RuleStates
        BY StartType
      <4>3. QED
        BY <1>4, <4>1, <4>2, RulesAtNothing DEF Forced
    <3>4. QED
      BY <2>2, <2>3, <3>3, Settled
  <2>6. QED
    BY <2>4, <2>5
<1>6. ASSUME NEW d \in RecoveredNames, NEW n \in RulesetLog(d)
      PROVE  ~Contradiction(RulesAfter(d, n).active, Recovered(d))
  <2>1. d \in DOMAIN registry
    BY DEF RuleInv, QuadInv, DatasetsDurable
  <2>2. Cardinality(RulesetLog(d)) + (IF StartRules(d) = NoRules THEN 0 ELSE 1) <= 1
    BY <2>1
  <2>3. Cardinality(RulesetLog(d)) <= 1
    BY <1>2, <2>2
  <2>4. RulesetLog(d) = {n}
    BY <1>1, <2>3, FiniteRulesets, AtMostOne
  <2>5. {i \in RulesetLog(d) : i <= n} = RulesetLog(d)
    <3>1. n \in Nat
      BY <1>1, FiniteRulesets
    <3>2. QED
      BY <2>4, <3>1
  <2>6. RulesAfter(d, n) = Forced(log, d)
    BY <2>5, RecoveredIs DEF RulesAfter, RecoveredRules
  <2>7. Recovered(d) = Rebuilt(log, d, FileData)
    BY RecoveredIs
  <2>8. ~Contradiction(Forced(log, d).active, Rebuilt(log, d, FileData))
    BY <2>1, Settled
  <2>9. QED
    BY <2>6, <2>7, <2>8
<1>7. QED
  BY <1>5, <1>6 DEF Startable

\* serve_on_listener does not give up on a changelog whose every write the
\* reasoner accepted, when no dataset has more than one ruleset in it.
THEOREM RestartsSucceed == Spec => []RestartSucceeds
<1>1. RuleInv => RestartSucceeds
  BY PersistenceAssumption, CleanRestart DEF RestartSucceeds
<1>2. QED
  BY <1>1, RuleInvariant, PTL
=============================================================================
