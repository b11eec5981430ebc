---------------------------- MODULE WorldProofs ----------------------------
(***************************************************************************)
(* Proofs that an ECS world keeps what it is given: every index of the     *)
(* allocation range is in one place, a reservation is honoured just as     *)
(* long as it waits, an entity finds the value it was last given, and the  *)
(* rows a delta query walks tell exactly what changed.                     *)
(***************************************************************************)
EXTENDS World, SequenceTheorems, FiniteSetTheorems, WellFoundedInduction, TLAPS

-----------------------------------------------------------------------------
(* Types *)

Pairs == InRange \X (Nat \ {0})
Tables ==
  [live : [Indices -> Nat], last : [Indices -> Nat],
   mask : [Indices -> SUBSET Components], free : Seq(Pairs), count : Nat,
   fresh : FirstIndex..LastIndex + 1, observing : BOOLEAN,
   despawned : Seq(Indices), outside : SUBSET Outside]
Rows ==
  [owner : Entities, value : Values \cup {Unset}, shadow : Values \cup {Unset}, state : States]
Stores ==
  [observation : {"unobserved", "observerWaiting", "observed"}, rows : Seq(Rows),
   liveRows : Nat, rowByIndex : [Indices -> Nat], changed : Seq(Entities),
   overflowed : BOOLEAN]
Contents == [Entities -> [Components -> Values \cup {Unset}]]
Worlds ==
  [table : Tables, stores : [Components -> Stores], fate : [Entities -> Fates],
   truth : Contents]

-----------------------------------------------------------------------------
(* The invariants *)

\* The entities still to hand out, and those handed out and not settled.
toHandOut(t) ==
  ToSet(untaken(t)) \cup {<<i, 1>> : i \in t.fresh + takenFresh(t)..LastIndex}
handedOut(t) == ToSet(taken(t))

\* The free entities are at different indices, none of them fresh.
FreeInv(t) ==
  /\ \A m, n \in DOMAIN t.free : index(t.free[m]) = index(t.free[n]) => m = n
  /\ \A n \in DOMAIN t.free : index(t.free[n]) < t.fresh

\* The entity is waiting for its commit, and the index has one that is.
waits(fates, e) == fates[e] \in {"early", "waiting"}
held(fates, i) == \E e \in Entities : index(e) = i /\ waits(fates, e)

\* An index that is to be handed out, at its next generation, is nowhere else.
FreshInv(t, fates) ==
  \A e \in toHandOut(t) :
    /\ generation(e) = t.last[index(e)] + 1 /\ t.live[index(e)] = 0
    /\ ~held(fates, index(e)) /\ index(e) \notin ToSet(t.despawned)

\* What was handed out since the last settling is waiting or was spawned; what
\* is waiting in a world that observes was handed out since.
TakenInv(t, fates) ==
  /\ \A e \in handedOut(t) :
       /\ e \in Entities
       /\ waits(fates, e) \/ (t.last[index(e)] = generation(e) /\ ~held(fates, index(e)))
       /\ t.observing => fates[e] # "early"
  /\ \A e \in Entities : fates[e] = "waiting" => t.observing /\ e \in handedOut(t)

\* What became of an entity shows in its slot.
FatesInv(t, fates) ==
  \A e \in Entities :
    /\ fates[e] = "alive" <=> t.live[index(e)] = generation(e)
    /\ waits(fates, e) =>
         /\ index(e) \in InRange /\ t.live[index(e)] = 0
         /\ generation(e) = t.last[index(e)] + 1
         /\ index(e) \notin ToSet(t.despawned)
    /\ index(e) \in InRange /\ fates[e] \in {"ended", "burned"} =>
         generation(e) <= t.last[index(e)]

\* The slots, and the indices despawned in this window.
SlotsInv(t) ==
  /\ \A i \in Indices :
       /\ t.live[i] # 0 => t.last[i] = t.live[i] /\ t.live[i] <= MaxGeneration
       /\ t.live[i] = 0 => t.mask[i] = {}
  /\ IsInjective(t.despawned)
  /\ \A i \in ToSet(t.despawned) : t.live[i] = 0
  /\ t.outside = ToSet(t.despawned) \ InRange
  /\ ~t.observing => t.despawned = <<>>

\* No index of the range is lost.
PlacesInv(t, fates) ==
  \A i \in InRange : \/ \E e \in toHandOut(t) : index(e) = i
                     \/ held(fates, i) \/ t.live[i] # 0 \/ i \in ToSet(t.despawned)

TableInv(t, fates) ==
  /\ t \in Tables /\ fates \in [Entities -> Fates]
  /\ FreeInv(t) /\ FreshInv(t, fates) /\ TakenInv(t, fates) /\ FatesInv(t, fates)
  /\ SlotsInv(t) /\ PlacesInv(t, fates)

\* Rows and links name each other.
LinksInv(s) ==
  /\ \A r \in DOMAIN s.rows : s.rowByIndex[index(s.rows[r].owner)] = r
  /\ \A i \in Indices : s.rowByIndex[i] # 0 =>
       s.rowByIndex[i] \in DOMAIN s.rows /\ index(s.rows[s.rowByIndex[i]].owner) = i

\* Only an observed store has a tail.
BoundsInv(s) ==
  s.liveRows <= Len(s.rows) /\ (s.observation # "observed" => s.liveRows = Len(s.rows))

LiveRows(s) == {s.rows[r] : r \in 1..s.liveRows}
TailRows(s) == {s.rows[r] : r \in s.liveRows + 1..Len(s.rows)}

\* A live row has the value its owner was given; who has none has no value.
ValuesInv(L, T, v) ==
  /\ \A x \in L : v[x.owner] = x.value /\ x.value # Unset
  /\ \A x \in T : v[x.owner] = Unset
  /\ \A e \in Entities : (\A x \in L \cup T : x.owner # e) => v[e] = Unset

\* The state of a row says how the value b of its owner at the last end of a
\* window became its value v.
StatesInv(L, T, v, b) ==
  /\ \A x \in L : x.state \in {"Unchanged", "Changed", "Added"}
  /\ \A x \in T : x.state \in {"Removed", "Discarded"}
  /\ \A x \in L \cup T :
       /\ x.state \in {"Added", "Discarded"} <=> b[x.owner] = Unset
       /\ x.state \in {"Unchanged", "Changed", "Removed"} => x.shadow = b[x.owner]
       /\ x.state = "Unchanged" => v[x.owner] = b[x.owner]
  /\ \A e \in Entities : (\A x \in L \cup T : x.owner # e) => b[e] = Unset

\* Just the rows R that are not unchanged are listed in q, once each.
ListInv(R, q) ==
  /\ IsInjective(q)
  /\ \A e \in ToSet(q) : \E x \in R : x.owner = e
  /\ \A x \in R : x.state # "Unchanged" <=> x.owner \in ToSet(q)

ObservedInv(s, v, b) ==
  s.observation = "observed" =>
    /\ StatesInv(LiveRows(s), TailRows(s), v, b)
    /\ s.overflowed \/ ListInv(LiveRows(s) \cup TailRows(s), s.changed)

\* A row belongs to a live entity or, in the tail, to one that was despawned in
\* this window.
OwnersInv(R, t, v) ==
  \A x \in R : \/ alive(t, x.owner)
              \/ /\ v[x.owner] = Unset /\ t.live[index(x.owner)] = 0
                 /\ index(x.owner) \in ToSet(t.despawned)

\* The mask of a live entity names the components it has.
MasksInv(t, v, c) ==
  \A e \in Entities : alive(t, e) => (c \in t.mask[index(e)] <=> v[e] # Unset)

RowsInv(s, v, b) ==
  /\ s \in Stores /\ LinksInv(s) /\ BoundsInv(s)
  /\ ValuesInv(LiveRows(s), TailRows(s), v) /\ ObservedInv(s, v, b)

StoreInv(s, t, v, b, c) ==
  /\ RowsInv(s, v, b)
  /\ OwnersInv(LiveRows(s) \cup TailRows(s), t, v) /\ MasksInv(t, v, c)
  /\ s.observation = "observed" => t.observing

valuesOf(contents, c) == [e \in Entities |-> contents[e][c]]

StoresInv(w, old) ==
  \A c \in Components :
    StoreInv(w.stores[c], w.table, valuesOf(w.truth, c), valuesOf(old, c), c)

\* Until the table observes no window has ended.
Based(t, old) == t.observing \/ old = [e \in Entities |-> nothing]

WorldInv(w, old) ==
  w \in Worlds /\ TableInv(w.table, w.fate) /\ StoresInv(w, old) /\ Based(w.table, old)

\* An entity whose spawn is recorded was handed out.
Spawnable(r, fates) ==
  r.op = "Spawn" => index(r.entity) \in InRange /\ fates[r.entity] # "none"

\* The inductive invariant.
IInv ==
  /\ workload \in Workloads /\ lanes \in [Lanes -> Seq(Records)]
  /\ \A l \in Lanes : \A r \in ToSet(lanes[l]) : Spawnable(r, fate)
  /\ base \in Contents /\ WorldInv(state, base)

-----------------------------------------------------------------------------
(* Induction, and what a fold passes through *)

\* Of a set of numbers, one is the least.
LEMMA LeastNat ==
  ASSUME NEW T \in SUBSET Nat, T # {}
  PROVE  \E x \in T : \A y \in T : x <= y
<1>1. PICK R : R = {ss \in Nat \X Nat : ss[1] < ss[2]}
  OBVIOUS
<1>2. IsWellFoundedOn(R, Nat)
  BY <1>1, NatLessThanWellFounded DEF OpToRel
<1>3. PICK x \in T : \A y \in T : ~(<<y, x>> \in R)
  BY ONLY <1>2, WFMin, T \in SUBSET Nat, T # {}
<1>4. \A y \in T : ~(y < x)
  BY <1>1, <1>3
<1> QED BY <1>4

\* Induction up to a number.
LEMMA UpTo ==
  ASSUME NEW N \in Nat, NEW S, 0 \in S, \A n \in 1..N : n - 1 \in S => n \in S
  PROVE  \A n \in 0..N : n \in S
<1>1. PICK T : T = {n \in Nat : n \in 0..N /\ n \notin S}
  OBVIOUS
<1>2. ASSUME T # {} PROVE FALSE
  <2>1. PICK n \in T : \A m \in T : n <= m
    BY <1>1, <1>2, LeastNat
  <2>2. n \in 1..N /\ n - 1 \in Nat /\ n - 1 \in 0..N /\ ~(n <= n - 1)
    BY <1>1, <2>1
  <2>3. n - 1 \in S
    BY <1>1, <2>1, <2>2
  <2> QED BY <1>1, <2>1, <2>2, <2>3
<1> QED BY <1>1, <1>2

\* The greatest of a set of numbers.
LEMMA Greatest ==
  ASSUME NEW k \in Nat, NEW s \in SUBSET (1..k), k \in s
  PROVE  Max(s) = k
<1>1. \A y \in s : k >= y
  OBVIOUS
<1>2. \A x \in s : (\A y \in s : x >= y) => x = k
  OBVIOUS
<1> QED BY <1>1, <1>2 DEF Max

\* The function a fold of F from b over q is defined with.
Folds(g, F, b, q, G) ==
  /\ g \in [SUBSET (1..Len(q)) -> G]
  /\ \A s \in SUBSET (1..Len(q)) :
       g[s] = IF s = {} THEN b ELSE F[<<g[s \ {Max(s)}], q[Max(s)]>>]
StepsIn(F, X, G) == F \in [G \X X -> G]

\* That function exists, F staying within a set.
LEMMA FoldExists ==
  ASSUME NEW G, NEW X, NEW F, StepsIn(F, X, G), NEW b \in G, NEW q \in Seq(X)
  PROVE  \E g : Folds(g, F, b, q, G)
<1>0. F \in [G \X X -> G]
  BY DEF StepsIn
<1>1. DOMAIN q = 1..Len(q) /\ Len(q) \in Nat /\ \A n \in 1..Len(q) : q[n] \in X
  BY LenProperties, ElementOfSeq
<1> DEFINE D(k, g) == \A s \in SUBSET (1..k) :
                        g[s] = IF s = {} THEN b ELSE F[<<g[s \ {Max(s)}], q[Max(s)]>>]
<1>2. PICK S : S = {k \in 0..Len(q) : \E g \in [SUBSET (1..k) -> G] : D(k, g)}
  OBVIOUS
<1>3. 0 \in S
  <2>1. PICK g : g = [s \in SUBSET (1..0) |-> b]
    OBVIOUS
  <2>2. \A s \in SUBSET (1..0) : s = {}
    OBVIOUS
  <2>3. g \in [SUBSET (1..0) -> G]
    BY <2>1
  <2>4. D(0, g)
    BY <2>1, <2>2
  <2>5. 0 \in 0..Len(q)
    BY <1>1
  <2> QED BY <1>2, <2>3, <2>4, <2>5
<1>4. ASSUME NEW k \in 1..Len(q), k - 1 \in S PROVE k \in S
  <2>1. PICK j : j = k - 1
    OBVIOUS
  <2>2. k \in Nat /\ j \in Nat /\ k \in 0..Len(q) /\ 1..j \subseteq 1..k
    BY <1>1, <2>1
  <2>3. PICK g \in [SUBSET (1..j) -> G] : D(j, g)
    BY <1>2, <1>4, <2>1
  <2>4. \A s \in SUBSET (1..k) : s \ {k} \in SUBSET (1..j) /\ (k \notin s => s \in SUBSET (1..j))
    BY <1>1, <2>1, <2>2
  <2>5. PICK h : h = [s \in SUBSET (1..k) |-> IF k \in s THEN F[<<g[s \ {k}], q[k]>>] ELSE g[s]]
    OBVIOUS
  <2>6. h \in [SUBSET (1..k) -> G]
    <3>1. ASSUME NEW s \in SUBSET (1..k)
          PROVE  (IF k \in s THEN F[<<g[s \ {k}], q[k]>>] ELSE g[s]) \in G
      <4>1. g[s \ {k}] \in G /\ q[k] \in X
        BY <1>1, <2>4
      <4>2. F[<<g[s \ {k}], q[k]>>] \in G
        BY <1>0, <4>1
      <4>3. k \notin s => g[s] \in G
        BY <2>4
      <4> QED BY <4>2, <4>3
    <3> QED BY <2>5, <3>1
  <2>7. \A s \in SUBSET (1..j) : s \in SUBSET (1..k) /\ k \notin s /\ h[s] = g[s]
    <3>1. k \notin 1..j
      BY <1>1, <2>1
    <3> QED BY <2>2, <2>5, <3>1
  <2>8. ASSUME NEW s \in SUBSET (1..k)
        PROVE  h[s] = IF s = {} THEN b ELSE F[<<h[s \ {Max(s)}], q[Max(s)]>>]
    <3>1. CASE k \in s
      <4>1. Max(s) = k
        BY <2>2, <3>1, Greatest
      <4>2. h[s \ {k}] = g[s \ {k}]
        BY <2>4, <2>7
      <4>3. h[s] = F[<<g[s \ {k}], q[k]>>]
        BY <2>5, <3>1
      <4> QED BY <3>1, <4>1, <4>2, <4>3
    <3>2. CASE k \notin s
      <4>1. s \in SUBSET (1..j) /\ s \ {Max(s)} \in SUBSET (1..j)
        BY <2>4, <3>2
      <4>2. h[s] = g[s] /\ h[s \ {Max(s)}] = g[s \ {Max(s)}]
        BY <2>7, <4>1
      <4>3. g[s] = IF s = {} THEN b ELSE F[<<g[s \ {Max(s)}], q[Max(s)]>>]
        BY <2>3, <4>1
      <4> QED BY <4>2, <4>3
    <3> QED BY <3>1, <3>2
  <2>9. D(k, h)
    BY <2>8
  <2> QED BY <1>2, <2>2, <2>6, <2>9
<1>5. Len(q) \in S
  <2>1. \A n \in 0..Len(q) : n \in S
    BY <1>1, <1>3, <1>4, UpTo
  <2> QED BY <1>1, <2>1
<1> QED BY <1>2, <1>5 DEF Folds

\* The greatest of a set of numbers is one of them.
LEMMA GreatestIn ==
  ASSUME NEW N \in Nat, NEW s \in SUBSET (1..N), s # {}
  PROVE  Max(s) \in s
<1>1. PICK T : T = {m \in Nat : \A y \in s : y <= m}
  OBVIOUS
<1>2. N \in T
  BY <1>1
<1>3. PICK m \in T : \A k \in T : m <= k
  BY <1>1, <1>2, LeastNat
<1>4. m \in s
  <2>1. ASSUME m \notin s PROVE FALSE
    <3>1. \A y \in s : y <= m /\ y # m /\ y \in Nat /\ y >= 1 /\ m \in Nat
      BY <1>1, <2>1
    <3>2. \A y \in s : y <= m - 1 /\ m >= 1
      BY <3>1
    <3>3. m - 1 \in Nat
      <4>1. PICK y \in s : TRUE
        OBVIOUS
      <4>2. m \in Nat /\ m >= 1
        BY <3>1, <3>2, <4>1
      <4> QED BY <4>2
    <3>4. m - 1 \in T
      BY <1>1, <3>2, <3>3
    <3> QED BY <1>1, <1>3, <3>3, <3>4
  <2> QED BY <2>1
<1>5. \A y \in s : m >= y
  BY <1>1
<1> QED BY <1>4, <1>5 DEF Max

\* The three folds of the model.
burnAll(t, q) == FoldLeft(burn, t, q)
freeAll(t, q) == FoldLeft(free, t, q)
visitAll(w, q) == FoldLeft(visit, w, q)

\* Each stays within G, given members of X.
BurnStays(G, X) == \A w \in G, x \in X : burn(w, x) \in G
FreeStays(G, X) == \A w \in G, x \in X : free(w, x) \in G
VisitStays(G, X) == \A w \in G, x \in X : visit(w, x) \in G

\* The tables or worlds f that each passes through.
BurnPath(f, G, b, q) ==
  /\ f \in [0..Len(q) -> G] /\ f[0] = b /\ f[Len(q)] = burnAll(b, q)
  /\ \A n \in 1..Len(q) : f[n] = burn(f[n - 1], q[n])
FreePath(f, G, b, q) ==
  /\ f \in [0..Len(q) -> G] /\ f[0] = b /\ f[Len(q)] = freeAll(b, q)
  /\ \A n \in 1..Len(q) : f[n] = free(f[n - 1], q[n])
VisitPath(f, G, b, q) ==
  /\ f \in [0..Len(q) -> G] /\ f[0] = b /\ f[Len(q)] = visitAll(b, q)
  /\ \A n \in 1..Len(q) : f[n] = visit(f[n - 1], q[n])

\* What burning the entities of q one by one passes through.
LEMMA BurnFolded ==
  ASSUME NEW G, NEW X, BurnStays(G, X), NEW b \in G, NEW q \in Seq(X)
  PROVE  \E f : BurnPath(f, G, b, q)
<1> USE DEF BurnStays
<1>1. DOMAIN q = 1..Len(q) /\ Len(q) \in Nat /\ \A n \in 1..Len(q) : q[n] \in X
  BY LenProperties, ElementOfSeq
<1> DEFINE D(g) == g = [s \in SUBSET (1..Len(q)) |->
                          IF s = {} THEN b ELSE burn(g[s \ {Max(s)}], q[Max(s)])]
<1>2. burnAll(b, q) = (CHOOSE g : D(g))[1..Len(q)]
  BY <1>1 DEF burnAll, FoldLeft, MapThenFoldSet
<1>3. \A k \in 1..Len(q) : Max(1..k) = k /\ (1..k) \ {k} = 1..k - 1 /\ 1..k # {}
  <2>1. ASSUME NEW k \in 1..Len(q) PROVE Max(1..k) = k /\ (1..k) \ {k} = 1..k - 1 /\ 1..k # {}
    <3>1. k \in Nat /\ k \in 1..k /\ 1..k \in SUBSET (1..k)
      BY <1>1
    <3>2. Max(1..k) = k
      BY <3>1, Greatest
    <3>3. (1..k) \ {k} = 1..k - 1
      BY <3>1
    <3> QED BY <3>1, <3>2, <3>3
  <2> QED BY <2>1
<1>4. \E g : D(g)
  <2>1. PICK F : F = [x \in G \X X |-> burn(x[1], x[2])]
    OBVIOUS
  <2>2. StepsIn(F, X, G)
    BY <2>1 DEF StepsIn
  <2>3. PICK g : Folds(g, F, b, q, G)
    BY ONLY <2>2, FoldExists, b \in G, q \in Seq(X)
  <2>4. ASSUME NEW s \in SUBSET (1..Len(q)), s # {}
        PROVE  F[<<g[s \ {Max(s)}], q[Max(s)]>>] = burn(g[s \ {Max(s)}], q[Max(s)])
    <3>1. Max(s) \in 1..Len(q)
      BY <1>1, <2>4, GreatestIn
    <3>2. PICK w, x : w = g[s \ {Max(s)}] /\ x = q[Max(s)]
      OBVIOUS
    <3>3. w \in G /\ x \in X
      BY <1>1, <2>3, <3>1, <3>2 DEF Folds
    <3>4. F[<<w, x>>] = burn(w, x)
      BY <2>1, <3>3
    <3> QED BY <3>2, <3>4
  <2>5. \A s \in SUBSET (1..Len(q)) :
          g[s] = IF s = {} THEN b ELSE burn(g[s \ {Max(s)}], q[Max(s)])
    BY <2>3, <2>4 DEF Folds
  <2>6. D(g)
    BY <2>3, <2>5 DEF Folds
  <2> QED BY <2>6
<1>5. PICK g : g = CHOOSE h : D(h)
  OBVIOUS
<1>6. D(g)
  BY <1>4, <1>5
<1>7. PICK f : f = [n \in 0..Len(q) |-> g[1..n]]
  OBVIOUS
<1>8. f[0] = b
  <2>1. 0 \in 0..Len(q) /\ 1..0 = {} /\ {} \in SUBSET (1..Len(q))
    BY <1>1
  <2> QED BY <1>6, <1>7, <2>1
<1>9. ASSUME NEW n \in 1..Len(q) PROVE f[n] = burn(f[n - 1], q[n])
  <2>1. n \in 0..Len(q) /\ n - 1 \in 0..Len(q) /\ 1..n \in SUBSET (1..Len(q))
    BY <1>1
  <2>2. g[1..n] = burn(g[1..n - 1], q[n])
    BY <1>3, <1>6, <2>1
  <2> QED BY <1>7, <2>1, <2>2
<1>10. f[Len(q)] = burnAll(b, q)
  <2>1. Len(q) \in 0..Len(q)
    BY <1>1
  <2> QED BY <1>2, <1>5, <1>7, <2>1
<1>11. \A n \in 0..Len(q) : f[n] \in G
  <2>1. PICK S : S = {n \in 0..Len(q) : f[n] \in G}
    OBVIOUS
  <2>2. 0 \in S
    BY <1>1, <1>8, <2>1
  <2>3. \A n \in 1..Len(q) : n - 1 \in S => n \in S
    BY <1>1, <1>9, <2>1
  <2>4. \A n \in 0..Len(q) : n \in S
    BY <1>1, <2>2, <2>3, UpTo
  <2> QED BY <2>1, <2>4
<1>12. f \in [0..Len(q) -> G]
  BY <1>7, <1>11
<1> QED BY <1>8, <1>9, <1>10, <1>12 DEF BurnPath

\* What freeing the indices of q one by one passes through.
LEMMA FreeFolded ==
  ASSUME NEW G, NEW X, FreeStays(G, X), NEW b \in G, NEW q \in Seq(X)
  PROVE  \E f : FreePath(f, G, b, q)
<1> USE DEF FreeStays
<1>1. DOMAIN q = 1..Len(q) /\ Len(q) \in Nat /\ \A n \in 1..Len(q) : q[n] \in X
  BY LenProperties, ElementOfSeq
<1> DEFINE D(g) == g = [s \in SUBSET (1..Len(q)) |->
                          IF s = {} THEN b ELSE free(g[s \ {Max(s)}], q[Max(s)])]
<1>2. freeAll(b, q) = (CHOOSE g : D(g))[1..Len(q)]
  BY <1>1 DEF freeAll, FoldLeft, MapThenFoldSet
<1>3. \A k \in 1..Len(q) : Max(1..k) = k /\ (1..k) \ {k} = 1..k - 1 /\ 1..k # {}
  <2>1. ASSUME NEW k \in 1..Len(q) PROVE Max(1..k) = k /\ (1..k) \ {k} = 1..k - 1 /\ 1..k # {}
    <3>1. k \in Nat /\ k \in 1..k /\ 1..k \in SUBSET (1..k)
      BY <1>1
    <3>2. Max(1..k) = k
      BY <3>1, Greatest
    <3>3. (1..k) \ {k} = 1..k - 1
      BY <3>1
    <3> QED BY <3>1, <3>2, <3>3
  <2> QED BY <2>1
<1>4. \E g : D(g)
  <2>1. PICK F : F = [x \in G \X X |-> free(x[1], x[2])]
    OBVIOUS
  <2>2. StepsIn(F, X, G)
    BY <2>1 DEF StepsIn
  <2>3. PICK g : Folds(g, F, b, q, G)
    BY ONLY <2>2, FoldExists, b \in G, q \in Seq(X)
  <2>4. ASSUME NEW s \in SUBSET (1..Len(q)), s # {}
        PROVE  F[<<g[s \ {Max(s)}], q[Max(s)]>>] = free(g[s \ {Max(s)}], q[Max(s)])
    <3>1. Max(s) \in 1..Len(q)
      BY <1>1, <2>4, GreatestIn
    <3>2. PICK w, x : w = g[s \ {Max(s)}] /\ x = q[Max(s)]
      OBVIOUS
    <3>3. w \in G /\ x \in X
      BY <1>1, <2>3, <3>1, <3>2 DEF Folds
    <3>4. F[<<w, x>>] = free(w, x)
      BY <2>1, <3>3
    <3> QED BY <3>2, <3>4
  <2>5. \A s \in SUBSET (1..Len(q)) :
          g[s] = IF s = {} THEN b ELSE free(g[s \ {Max(s)}], q[Max(s)])
    BY <2>3, <2>4 DEF Folds
  <2>6. D(g)
    BY <2>3, <2>5 DEF Folds
  <2> QED BY <2>6
<1>5. PICK g : g = CHOOSE h : D(h)
  OBVIOUS
<1>6. D(g)
  BY <1>4, <1>5
<1>7. PICK f : f = [n \in 0..Len(q) |-> g[1..n]]
  OBVIOUS
<1>8. f[0] = b
  <2>1. 0 \in 0..Len(q) /\ 1..0 = {} /\ {} \in SUBSET (1..Len(q))
    BY <1>1
  <2> QED BY <1>6, <1>7, <2>1
<1>9. ASSUME NEW n \in 1..Len(q) PROVE f[n] = free(f[n - 1], q[n])
  <2>1. n \in 0..Len(q) /\ n - 1 \in 0..Len(q) /\ 1..n \in SUBSET (1..Len(q))
    BY <1>1
  <2>2. g[1..n] = free(g[1..n - 1], q[n])
    BY <1>3, <1>6, <2>1
  <2> QED BY <1>7, <2>1, <2>2
<1>10. f[Len(q)] = freeAll(b, q)
  <2>1. Len(q) \in 0..Len(q)
    BY <1>1
  <2> QED BY <1>2, <1>5, <1>7, <2>1
<1>11. \A n \in 0..Len(q) : f[n] \in G
  <2>1. PICK S : S = {n \in 0..Len(q) : f[n] \in G}
    OBVIOUS
  <2>2. 0 \in S
    BY <1>1, <1>8, <2>1
  <2>3. \A n \in 1..Len(q) : n - 1 \in S => n \in S
    BY <1>1, <1>9, <2>1
  <2>4. \A n \in 0..Len(q) : n \in S
    BY <1>1, <2>2, <2>3, UpTo
  <2> QED BY <2>1, <2>4
<1>12. f \in [0..Len(q) -> G]
  BY <1>7, <1>11
<1> QED BY <1>8, <1>9, <1>10, <1>12 DEF FreePath

\* What the passes of a commit go through.
LEMMA VisitFolded ==
  ASSUME NEW G, NEW X, VisitStays(G, X), NEW b \in G, NEW q \in Seq(X)
  PROVE  \E f : VisitPath(f, G, b, q)
<1> USE DEF VisitStays
<1>1. DOMAIN q = 1..Len(q) /\ Len(q) \in Nat /\ \A n \in 1..Len(q) : q[n] \in X
  BY LenProperties, ElementOfSeq
<1> DEFINE D(g) == g = [s \in SUBSET (1..Len(q)) |->
                          IF s = {} THEN b ELSE visit(g[s \ {Max(s)}], q[Max(s)])]
<1>2. visitAll(b, q) = (CHOOSE g : D(g))[1..Len(q)]
  BY <1>1 DEF visitAll, FoldLeft, MapThenFoldSet
<1>3. \A k \in 1..Len(q) : Max(1..k) = k /\ (1..k) \ {k} = 1..k - 1 /\ 1..k # {}
  <2>1. ASSUME NEW k \in 1..Len(q) PROVE Max(1..k) = k /\ (1..k) \ {k} = 1..k - 1 /\ 1..k # {}
    <3>1. k \in Nat /\ k \in 1..k /\ 1..k \in SUBSET (1..k)
      BY <1>1
    <3>2. Max(1..k) = k
      BY <3>1, Greatest
    <3>3. (1..k) \ {k} = 1..k - 1
      BY <3>1
    <3> QED BY <3>1, <3>2, <3>3
  <2> QED BY <2>1
<1>4. \E g : D(g)
  <2>1. PICK F : F = [x \in G \X X |-> visit(x[1], x[2])]
    OBVIOUS
  <2>2. StepsIn(F, X, G)
    BY <2>1 DEF StepsIn
  <2>3. PICK g : Folds(g, F, b, q, G)
    BY ONLY <2>2, FoldExists, b \in G, q \in Seq(X)
  <2>4. ASSUME NEW s \in SUBSET (1..Len(q)), s # {}
        PROVE  F[<<g[s \ {Max(s)}], q[Max(s)]>>] = visit(g[s \ {Max(s)}], q[Max(s)])
    <3>1. Max(s) \in 1..Len(q)
      BY <1>1, <2>4, GreatestIn
    <3>2. PICK w, x : w = g[s \ {Max(s)}] /\ x = q[Max(s)]
      OBVIOUS
    <3>3. w \in G /\ x \in X
      BY <1>1, <2>3, <3>1, <3>2 DEF Folds
    <3>4. F[<<w, x>>] = visit(w, x)
      BY <2>1, <3>3
    <3> QED BY <3>2, <3>4
  <2>5. \A s \in SUBSET (1..Len(q)) :
          g[s] = IF s = {} THEN b ELSE visit(g[s \ {Max(s)}], q[Max(s)])
    BY <2>3, <2>4 DEF Folds
  <2>6. D(g)
    BY <2>3, <2>5 DEF Folds
  <2> QED BY <2>6
<1>5. PICK g : g = CHOOSE h : D(h)
  OBVIOUS
<1>6. D(g)
  BY <1>4, <1>5
<1>7. PICK f : f = [n \in 0..Len(q) |-> g[1..n]]
  OBVIOUS
<1>8. f[0] = b
  <2>1. 0 \in 0..Len(q) /\ 1..0 = {} /\ {} \in SUBSET (1..Len(q))
    BY <1>1
  <2> QED BY <1>6, <1>7, <2>1
<1>9. ASSUME NEW n \in 1..Len(q) PROVE f[n] = visit(f[n - 1], q[n])
  <2>1. n \in 0..Len(q) /\ n - 1 \in 0..Len(q) /\ 1..n \in SUBSET (1..Len(q))
    BY <1>1
  <2>2. g[1..n] = visit(g[1..n - 1], q[n])
    BY <1>3, <1>6, <2>1
  <2> QED BY <1>7, <2>1, <2>2
<1>10. f[Len(q)] = visitAll(b, q)
  <2>1. Len(q) \in 0..Len(q)
    BY <1>1
  <2> QED BY <1>2, <1>5, <1>7, <2>1
<1>11. \A n \in 0..Len(q) : f[n] \in G
  <2>1. PICK S : S = {n \in 0..Len(q) : f[n] \in G}
    OBVIOUS
  <2>2. 0 \in S
    BY <1>1, <1>8, <2>1
  <2>3. \A n \in 1..Len(q) : n - 1 \in S => n \in S
    BY <1>1, <1>9, <2>1
  <2>4. \A n \in 0..Len(q) : n \in S
    BY <1>1, <2>2, <2>3, UpTo
  <2> QED BY <2>1, <2>4
<1>12. f \in [0..Len(q) -> G]
  BY <1>7, <1>11
<1> QED BY <1>8, <1>9, <1>10, <1>12 DEF VisitPath

-----------------------------------------------------------------------------
(* Entities and the free list *)

\* An entity is its index and its generation.
LEMMA Parts ==
  /\ \A i, g : index(<<i, g>>) = i /\ generation(<<i, g>>) = g
  /\ \A e \in Entities : /\ index(e) \in Indices /\ generation(e) \in 1..MaxGeneration
                         /\ generation(e) \in Nat /\ generation(e) # 0
  /\ \A e \in Pairs : index(e) \in InRange /\ index(e) \in Indices /\ generation(e) \in Nat
  /\ \A e \in Pairs : e = <<index(e), generation(e)>>
  /\ \A e \in Entities : e = <<index(e), generation(e)>>
  /\ \A e \in Pairs : e \in Entities <=> generation(e) \in 1..MaxGeneration
  /\ \A e \in Entities : e \in Pairs <=> index(e) \in InRange
  /\ \A i \in Indices, g \in 1..MaxGeneration : <<i, g>> \in Entities
  /\ \A i \in InRange, g \in Nat \ {0} : <<i, g>> \in Pairs
  /\ NoEntity \notin Pairs /\ NoEntity \notin Entities
  /\ \A i \in InRange : i \in Int /\ FirstIndex <= i /\ i <= LastIndex
<1>1. \A i, g : index(<<i, g>>) = i /\ generation(<<i, g>>) = g
  BY DEF index, generation
<1>2. MaxGeneration \in Nat /\ FirstIndex \in Nat /\ LastIndex \in Nat
  BY EntityTableAssumption
<1>3. \A e \in Entities : /\ index(e) \in Indices /\ generation(e) \in 1..MaxGeneration
                          /\ generation(e) \in Nat /\ generation(e) # 0
                          /\ e = <<index(e), generation(e)>>
  BY <1>2 DEF Entities, index, generation
<1>4. \A e \in Pairs : /\ index(e) \in InRange /\ generation(e) \in Nat /\ generation(e) # 0
                       /\ e = <<index(e), generation(e)>>
  BY DEF Pairs, index, generation
<1>5. \A i \in Indices, g \in 1..MaxGeneration : <<i, g>> \in Entities
  BY DEF Entities
<1>6. \A i \in InRange, g \in Nat \ {0} : <<i, g>> \in Pairs
  BY DEF Pairs
<1>7. InRange \subseteq Indices
  BY DEF Indices
<1>8. \A i \in InRange : i \in Int /\ FirstIndex <= i /\ i <= LastIndex
  BY <1>2 DEF InRange
<1>9. NoEntity \notin Pairs
  BY <1>1, <1>4 DEF NoEntity
<1>10. NoEntity \notin Entities
  BY <1>1, <1>3 DEF NoEntity
<1>11. \A e \in Pairs : e \in Entities <=> generation(e) \in 1..MaxGeneration
  BY <1>3, <1>4, <1>5, <1>7
<1>12. \A e \in Entities : e \in Pairs <=> index(e) \in InRange
  BY <1>3, <1>4, <1>6
<1> QED BY <1>1, <1>3, <1>4, <1>5, <1>6, <1>7, <1>8, <1>9, <1>10, <1>11, <1>12

\* The free entities at places, and the fresh entities at indices, from m to n.
freeFrom(t, m, n) == {t.free[x] : x \in m..n}
freshFrom(m, n) == {<<i, 1>> : i \in m..n}
freshAt(t, n) == <<t.fresh + n - 1, 1>>

\* What the parts of the free list and of the fresh indices are.
LEMMA Counts ==
  ASSUME NEW t \in Tables, NEW N, N = Len(t.free), NEW k, k = takenFree(t), NEW j, j = takenFresh(t)
  PROVE  /\ N \in Nat /\ k \in 0..N /\ j \in Nat /\ t.fresh \in Int /\ t.fresh + j <= LastIndex + 1
         /\ FirstIndex <= t.fresh
         /\ t.free \in Seq(Pairs) /\ DOMAIN t.free = 1..N /\ \A n \in 1..N : t.free[n] \in Pairs
         /\ untaken(t) \in Seq(Pairs) /\ Len(untaken(t)) = N - k
         /\ \A n \in 1..N - k : untaken(t)[n] = t.free[n]
         /\ taken(t) \in Seq(Pairs) /\ Len(taken(t)) = k + j
         /\ \A n \in 1..k : taken(t)[n] = t.free[N - k + n]
         /\ \A n \in 1..j : taken(t)[k + n] = freshAt(t, n)
         /\ toHandOut(t) = freeFrom(t, 1, N - k) \cup freshFrom(t.fresh + j, LastIndex)
         /\ handedOut(t) = freeFrom(t, N - k + 1, N) \cup freshFrom(t.fresh, t.fresh + j - 1)
         /\ toHandOut(t) \subseteq Pairs /\ handedOut(t) \subseteq Pairs
<1>1. FirstIndex \in Nat /\ LastIndex \in Nat
  BY EntityTableAssumption
<1>2. t.free \in Seq(Pairs) /\ t.count \in Nat /\ t.fresh \in FirstIndex..LastIndex + 1
  BY DEF Tables
<1>3. N \in Nat /\ DOMAIN t.free = 1..N /\ \A n \in 1..N : t.free[n] \in Pairs
  BY <1>2, LenProperties, ElementOfSeq
<1>4. k \in 0..N /\ k <= t.count
  BY <1>2, <1>3 DEF takenFree, lesser
<1>5. j \in Nat /\ t.fresh + j <= LastIndex + 1 /\ t.fresh \in Int /\ FirstIndex <= t.fresh
  BY <1>1, <1>2, <1>3, <1>4, SMTT(30) DEF takenFresh, lesser
<1>6. PICK u : u = untaken(t)
  OBVIOUS
<1>7. u \in Seq(Pairs) /\ Len(u) = N - k /\ \A n \in 1..N - k : u[n] = t.free[n]
  <2>1. u = SubSeq(t.free, 1, N - k)
    BY <1>6 DEF untaken
  <2>2. 1 \in 1..Len(t.free) + 1 /\ N - k \in (1 - 1)..Len(t.free)
    BY <1>3, <1>4
  <2>3. /\ u \in Seq(Pairs) /\ Len(u) = IF 1 <= N - k THEN (N - k) - 1 + 1 ELSE 0
        /\ \A n \in 1..(N - k) - 1 + 1 : u[n] = t.free[1 + n - 1]
    BY <1>2, <2>1, <2>2, SubSeqProperties
  <2>4. \A n \in 1..N - k : 1 + n - 1 = n
    BY <1>3, <1>4
  <2>5. (N - k) - 1 + 1 = N - k
    BY <1>3, <1>4
  <2>6. Len(u) = N - k
    BY <1>3, <1>4, <2>3, <2>5
  <2> QED BY <2>3, <2>4, <2>5, <2>6
<1>8. PICK a : a = SubSeq(t.free, N - k + 1, N)
  OBVIOUS
<1>9. a \in Seq(Pairs) /\ Len(a) = k /\ \A n \in 1..k : a[n] = t.free[N - k + n]
  <2>1. N - k + 1 \in 1..Len(t.free) + 1 /\ N \in ((N - k + 1) - 1)..Len(t.free)
    BY <1>3, <1>4
  <2>2. /\ a \in Seq(Pairs) /\ Len(a) = IF N - k + 1 <= N THEN N - (N - k + 1) + 1 ELSE 0
        /\ \A n \in 1..N - (N - k + 1) + 1 : a[n] = t.free[(N - k + 1) + n - 1]
    BY <1>2, <1>8, <2>1, SubSeqProperties
  <2>3. \A n \in 1..k : (N - k + 1) + n - 1 = N - k + n
    BY <1>3, <1>4
  <2>4. N - (N - k + 1) + 1 = k
    BY <1>3, <1>4
  <2>5. Len(a) = k
    BY <1>3, <1>4, <2>2, <2>4
  <2> QED BY <2>2, <2>3, <2>4, <2>5
<1>10. PICK f : f = [i \in 1..j |-> <<t.fresh + i - 1, 1>>]
  OBVIOUS
<1>11. f \in Seq(Pairs) /\ Len(f) = j /\ \A n \in 1..j : f[n] = <<t.fresh + n - 1, 1>>
  <2>1. \A n \in 1..j : <<t.fresh + n - 1, 1>> \in Pairs
    BY <1>1, <1>2, <1>5, SMTT(30) DEF Pairs, InRange
  <2>2. f \in [1..j -> Pairs]
    BY <1>10, <2>1
  <2>3. f \in Seq(Pairs)
    BY <1>5, <2>2, SeqDef
  <2>4. Len(f) = j
    BY <1>5, <2>2, <2>3, LenProperties
  <2> QED BY <1>10, <2>3, <2>4
<1>12. PICK v : v = taken(t)
  OBVIOUS
<1>13. v = a \o f
  BY <1>6, <1>7, <1>8, <1>10, <1>12 DEF taken
<1>14. /\ v \in Seq(Pairs) /\ Len(v) = Len(a) + Len(f)
       /\ \A n \in 1..Len(a) + Len(f) : v[n] = IF n <= Len(a) THEN a[n] ELSE f[n - Len(a)]
  BY <1>9, <1>11, <1>13, ConcatProperties
<1>15. \A n \in 1..k : v[n] = t.free[N - k + n]
  BY <1>4, <1>5, <1>9, <1>11, <1>14, SMTT(30)
<1>16. \A n \in 1..j : v[k + n] = freshAt(t, n)
  <2>1. \A n \in 1..j : k + n \in 1..k + j /\ ~(k + n <= k) /\ (k + n) - k = n
    BY <1>4, <1>5
  <2>2. \A m \in 1..k + j : ~(m <= k) => v[m] = f[m - k]
    BY <1>9, <1>11, <1>14
  <2>3. ASSUME NEW n \in 1..j PROVE v[k + n] = f[n]
    BY <2>1, <2>2
  <2> QED BY <1>11, <2>3 DEF freshAt
<1>40. N \in Nat /\ k \in 0..N /\ j \in Nat /\ t.fresh \in Int
  BY ONLY <1>3, <1>4, <1>5
<1>42. ToSet(untaken(t)) = {t.free[n] : n \in 1..N - k}
  <2>1. DOMAIN untaken(t) = 1..N - k
    BY <1>1, <1>3, <1>4, <1>5, <1>6, <1>7, LenProperties
  <2> QED BY <1>6, <1>7, <2>1 DEF ToSet
<1>44. DOMAIN v = 1..k + j
  BY <1>1, <1>3, <1>4, <1>5, <1>5, <1>9, <1>11, <1>12, <1>14, LenProperties
<1>45. PICK A, B : A = {t.free[n] : n \in N - k + 1..N} /\ B = {<<i, 1>> : i \in t.fresh..t.fresh + j - 1}
  OBVIOUS
<1>46. ASSUME NEW m \in 1..k + j PROVE v[m] \in A \cup B
  <2>1. CASE m <= k
    <3>1. m \in 1..k /\ N - k + m \in N - k + 1..N
      BY ONLY <1>40, <2>1, m \in 1..k + j
    <3> QED BY <1>45, <1>12, <1>15, <1>16, <3>1
  <2>2. CASE ~(m <= k)
    <3>1. m - k \in 1..j /\ k + (m - k) = m /\ t.fresh + (m - k) - 1 \in t.fresh..t.fresh + j - 1
      BY ONLY <1>40, <2>2, m \in 1..k + j
    <3>2. v[m] = <<t.fresh + (m - k) - 1, 1>>
      BY <1>12, <1>15, <1>16, <3>1 DEF freshAt
    <3> QED BY <1>45, <3>1, <3>2
  <2> QED BY <2>1, <2>2
<1>47. ASSUME NEW n \in N - k + 1..N PROVE t.free[n] \in ToSet(v)
  <2>1. n - (N - k) \in 1..k /\ N - k + (n - (N - k)) = n /\ n - (N - k) \in 1..k + j
    BY ONLY <1>40, n \in N - k + 1..N
  <2>2. v[n - (N - k)] = t.free[n]
    BY <1>12, <1>15, <1>16, <2>1
  <2> QED BY <1>44, <2>1, <2>2 DEF ToSet
<1>48. ASSUME NEW i \in t.fresh..t.fresh + j - 1 PROVE <<i, 1>> \in ToSet(v)
  <2>1. /\ i - t.fresh + 1 \in 1..j /\ k + (i - t.fresh + 1) \in 1..k + j
        /\ t.fresh + (i - t.fresh + 1) - 1 = i
    BY ONLY <1>40, i \in t.fresh..t.fresh + j - 1
  <2>2. v[k + (i - t.fresh + 1)] = <<i, 1>>
    BY <1>12, <1>15, <1>16, <2>1 DEF freshAt
  <2> QED BY <1>44, <2>1, <2>2 DEF ToSet
<1>49. ToSet(v) = A \cup B
  <2>1. ToSet(v) \subseteq A \cup B
    BY <1>44, <1>46 DEF ToSet
  <2>2. A \subseteq ToSet(v)
    BY <1>45, <1>47
  <2>3. B \subseteq ToSet(v)
    BY <1>45, <1>48
  <2> QED BY <2>1, <2>2, <2>3
<1>50. \A i \in t.fresh..LastIndex : <<i, 1>> \in Pairs
  BY <1>1, <1>3, <1>4, <1>5, EntityTableAssumption DEF Pairs, InRange
<1>51. toHandOut(t) \subseteq Pairs
  <2>1. \A n \in 1..N - k : n \in 1..N
    BY <1>1, <1>3, <1>4, <1>5
  <2>2. \A i \in t.fresh + j..LastIndex : i \in t.fresh..LastIndex
    BY <1>1, <1>3, <1>4, <1>5, EntityTableAssumption
  <2> QED BY <1>42, <1>50, <1>3, <2>1, <2>2 DEF toHandOut
<1>52. handedOut(t) \subseteq Pairs
  <2>1. \A n \in N - k + 1..N : n \in 1..N
    BY <1>1, <1>3, <1>4, <1>5
  <2>2. \A i \in t.fresh..t.fresh + j - 1 : i \in t.fresh..LastIndex
    BY <1>1, <1>3, <1>4, <1>5, EntityTableAssumption
  <2>3. A \subseteq Pairs
    BY <1>3, <1>45, <2>1
  <2>4. B \subseteq Pairs
    BY <1>45, <1>50, <2>2
  <2> QED BY <1>12, <1>49, <2>3, <2>4 DEF handedOut
<1>53. /\ toHandOut(t) = freeFrom(t, 1, N - k) \cup freshFrom(t.fresh + j, LastIndex)
       /\ handedOut(t) = freeFrom(t, N - k + 1, N) \cup freshFrom(t.fresh, t.fresh + j - 1)
  BY <1>12, <1>42, <1>45, <1>49 DEF toHandOut, handedOut, freeFrom, freshFrom
<1> QED BY <1>2, <1>3, <1>4, <1>5, <1>6, <1>7, <1>9, <1>11, <1>12, <1>14, <1>15, <1>16, <1>51, <1>52, <1>53

\* Where the entities to hand out, and those handed out, are.
LEMMA HandOutsFrom ==
  ASSUME NEW t \in Tables, NEW N, N = Len(t.free), NEW k, k = takenFree(t), NEW j, j = takenFresh(t)
  PROVE  /\ toHandOut(t) = freeFrom(t, 1, N - k) \cup freshFrom(t.fresh + j, LastIndex)
         /\ handedOut(t) = freeFrom(t, N - k + 1, N) \cup freshFrom(t.fresh, t.fresh + j - 1)
<1>1. toHandOut(t) = freeFrom(t, 1, N - k) \cup freshFrom(t.fresh + j, LastIndex)
  BY Counts
<1>2. handedOut(t) = freeFrom(t, N - k + 1, N) \cup freshFrom(t.fresh, t.fresh + j - 1)
  BY Counts
<1> QED BY <1>1, <1>2

\* No two of them are at the same index.
LEMMA HandOutsApart ==
  ASSUME NEW t \in Tables, FreeInv(t)
  PROVE  /\ \A d, e \in toHandOut(t) \cup handedOut(t) : index(d) = index(e) => d = e
         /\ toHandOut(t) \cap handedOut(t) = {}
<1>1. PICK N, k, j : N = Len(t.free) /\ k = takenFree(t) /\ j = takenFresh(t)
  OBVIOUS
<1>2. /\ N \in Nat /\ k \in 0..N /\ j \in Nat /\ t.fresh \in Int /\ t.fresh + j <= LastIndex + 1
      /\ DOMAIN t.free = 1..N /\ \A n \in 1..N : t.free[n] \in Pairs
  BY <1>1, Counts
<1>3. /\ toHandOut(t) = {t.free[n] : n \in 1..N - k} \cup {<<i, 1>> : i \in t.fresh + j..LastIndex}
      /\ handedOut(t) = {t.free[n] : n \in N - k + 1..N} \cup {<<i, 1>> : i \in t.fresh..t.fresh + j - 1}
  <2>1. /\ toHandOut(t) = freeFrom(t, 1, N - k) \cup freshFrom(t.fresh + j, LastIndex)
        /\ handedOut(t) = freeFrom(t, N - k + 1, N) \cup freshFrom(t.fresh, t.fresh + j - 1)
    BY <1>1, Counts
  <2> QED BY <2>1 DEF freeFrom, freshFrom
<1>4. /\ \A m, n \in 1..N : index(t.free[m]) = index(t.free[n]) => m = n
      /\ \A n \in 1..N : index(t.free[n]) < t.fresh
  BY <1>2 DEF FreeInv
<1>5. PICK A, B : A = {t.free[n] : n \in 1..N} /\ B = {<<i, 1>> : i \in t.fresh..LastIndex}
  OBVIOUS
<1>6. toHandOut(t) \cup handedOut(t) \subseteq A \cup B
  <2>1. (\A n \in 1..N - k : n \in 1..N) /\ (\A n \in N - k + 1..N : n \in 1..N)
    BY <1>2
  <2>2. /\ \A i \in t.fresh + j..LastIndex : i \in t.fresh..LastIndex
        /\ \A i \in t.fresh..t.fresh + j - 1 : i \in t.fresh..LastIndex
    BY <1>2, EntityTableAssumption
  <2>3. toHandOut(t) \subseteq A \cup B
    BY <1>3, <1>5, <2>1, <2>2
  <2>4. handedOut(t) \subseteq A \cup B
    BY <1>3, <1>5, <2>1, <2>2
  <2> QED BY <2>3, <2>4
<1>7. \A d, e \in A : index(d) = index(e) => d = e
  BY <1>4, <1>5
<1>8. \A d, e \in B : index(d) = index(e) => d = e
  BY <1>5, Parts
<1>9. \A d \in A, e \in B : index(d) # index(e)
  <2>1. \A e \in B : index(e) >= t.fresh /\ index(e) \in Int
    BY <1>2, <1>5, Parts, EntityTableAssumption
  <2>2. \A d \in A : index(d) < t.fresh /\ index(d) \in Int
    BY <1>2, <1>4, <1>5, Parts
  <2> QED BY <1>2, <2>1, <2>2
<1>10. \A d, e \in toHandOut(t) \cup handedOut(t) : index(d) = index(e) => d = e
  BY <1>6, <1>7, <1>8, <1>9
<1>11. ASSUME NEW e \in toHandOut(t), e \in handedOut(t) PROVE FALSE
  <2>1. CASE e \in A
    <3>1. e \notin B
      BY <1>9, <2>1
    <3>2. e \notin {<<i, 1>> : i \in t.fresh + j..LastIndex} /\ e \notin {<<i, 1>> : i \in t.fresh..t.fresh + j - 1}
      <4>1. /\ \A i \in t.fresh + j..LastIndex : i \in t.fresh..LastIndex
            /\ \A i \in t.fresh..t.fresh + j - 1 : i \in t.fresh..LastIndex
        BY <1>2, EntityTableAssumption
      <4> QED BY <1>5, <3>1, <4>1
    <3>3. PICK m \in 1..N - k : e = t.free[m]
      BY <1>3, <1>11, <3>2
    <3>4. PICK n \in N - k + 1..N : e = t.free[n]
      BY <1>3, <1>11, <3>2
    <3>5. m \in 1..N /\ n \in 1..N /\ m # n
      BY <1>2
    <3> QED BY <1>4, <3>3, <3>4, <3>5
  <2>2. CASE e \notin A
    <3>1. e \notin {t.free[n] : n \in 1..N - k} /\ e \notin {t.free[n] : n \in N - k + 1..N}
      <4>1. (\A n \in 1..N - k : n \in 1..N) /\ (\A n \in N - k + 1..N : n \in 1..N)
        BY <1>2
      <4> QED BY <1>5, <2>2, <4>1
    <3>2. PICK m \in t.fresh + j..LastIndex : e = <<m, 1>>
      BY <1>3, <1>11, <3>1
    <3>3. PICK n \in t.fresh..t.fresh + j - 1 : e = <<n, 1>>
      BY <1>3, <1>11, <3>1
    <3>4. m = n
      BY <3>2, <3>3, Parts
    <3> QED BY <1>2, <3>4, EntityTableAssumption
  <2> QED BY <2>1, <2>2
<1> QED BY <1>10, <1>11

\* The places of the free list that are taken, and how many fresh indices are.
LEMMA TakenCounts ==
  ASSUME NEW t \in Tables
  PROVE  /\ t.count \in Nat /\ LastIndex \in Nat /\ Len(t.free) \in Nat
         /\ t.count < Len(t.free) => takenFree(t) = t.count /\ takenFresh(t) = 0
         /\ t.count >= Len(t.free) =>
              /\ takenFree(t) = Len(t.free)
              /\ t.fresh + (t.count - Len(t.free)) > LastIndex => takenFresh(t) = LastIndex + 1 - t.fresh
              /\ t.fresh + (t.count - Len(t.free)) <= LastIndex => takenFresh(t) = t.count - Len(t.free)
<1>1. LastIndex \in Nat /\ FirstIndex \in Nat
  BY EntityTableAssumption
<1>2. PICK N, c, f : N = Len(t.free) /\ c = t.count /\ f = t.fresh
  OBVIOUS
<1>3. t.free \in Seq(Pairs) /\ c \in Nat /\ f \in FirstIndex..LastIndex + 1
  BY <1>2 DEF Tables
<1>4. N \in Nat
  BY <1>2, <1>3, LenProperties
<1>5. takenFree(t) = IF c < N THEN c ELSE N
  BY <1>2 DEF takenFree, lesser
<1>6. takenFresh(t) = IF c - takenFree(t) < LastIndex + 1 - f THEN c - takenFree(t) ELSE LastIndex + 1 - f
  BY <1>2 DEF takenFresh, lesser
<1>7. c < N => takenFree(t) = c /\ takenFresh(t) = 0
  BY <1>1, <1>3, <1>4, <1>5, <1>6
<1>8. c >= N => takenFree(t) = N
  BY <1>3, <1>4, <1>5
<1>9. c >= N /\ f + (c - N) > LastIndex => takenFresh(t) = LastIndex + 1 - f
  BY <1>1, <1>3, <1>4, <1>8, <1>6
<1>10. c >= N /\ f + (c - N) <= LastIndex => takenFresh(t) = c - N
  BY <1>1, <1>3, <1>4, <1>8, <1>6
<1> QED BY <1>1, <1>2, <1>3, <1>4, <1>7, <1>8, <1>9, <1>10

\* A reservation takes one entity from those still to hand out, if there is one.
LEMMA Reserved ==
  ASSUME NEW t \in Tables, FreeInv(t), NEW u, u = reserve(t).table, NEW e, e = reserve(t).entity
  PROVE  /\ u = [t EXCEPT !.count = @ + 1] /\ u \in Tables /\ FreeInv(u)
         /\ e = NoEntity => toHandOut(u) = toHandOut(t) /\ handedOut(u) = handedOut(t)
         /\ e # NoEntity => /\ e \in toHandOut(t) /\ toHandOut(u) = toHandOut(t) \ {e}
                            /\ handedOut(u) = handedOut(t) \cup {e}
<1>1. u = [t EXCEPT !.count = @ + 1] /\ e = reservation(t, t.count)
  BY DEF reserve
<1>2. u \in Tables /\ u.free = t.free /\ u.fresh = t.fresh /\ u.count = t.count + 1
  <2>1. t.count \in Nat /\ t.count + 1 \in Nat
    BY DEF Tables
  <2>2. u \in Tables
    BY <1>1, <2>1 DEF Tables
  <2>3. u.free = t.free /\ u.fresh = t.fresh /\ u.count = t.count + 1
    BY <1>1 DEF Tables
  <2> QED BY <2>2, <2>3
<1>3. FreeInv(u)
  BY <1>2 DEF FreeInv
<1>4. PICK N, c, f : N = Len(t.free) /\ c = t.count /\ f = t.fresh
  OBVIOUS
<1>5. N \in Nat /\ c \in Nat /\ LastIndex \in Nat /\ f \in Int
  BY <1>4, TakenCounts, Counts
<1>6. \A k, j : k = takenFree(t) /\ j = takenFresh(t) =>
        /\ toHandOut(t) = freeFrom(t, 1, N - k) \cup freshFrom(f + j, LastIndex)
        /\ handedOut(t) = freeFrom(t, N - k + 1, N) \cup freshFrom(f, f + j - 1)
  <2>1. t \in Tables /\ N = Len(t.free) /\ f = t.fresh
    BY <1>4
  <2>2. ASSUME NEW k, NEW j, k = takenFree(t), j = takenFresh(t)
        PROVE  /\ toHandOut(t) = freeFrom(t, 1, N - k) \cup freshFrom(t.fresh + j, LastIndex)
               /\ handedOut(t) = freeFrom(t, N - k + 1, N) \cup freshFrom(t.fresh, t.fresh + j - 1)
    <3>1. t \in Tables /\ N = Len(t.free)
      BY <2>1
    <3> QED BY ONLY <3>1, <2>2, HandOutsFrom
  <2> QED BY <2>1, <2>2
<1>7. \A k, j : k = takenFree(u) /\ j = takenFresh(u) =>
        /\ toHandOut(u) = freeFrom(u, 1, N - k) \cup freshFrom(f + j, LastIndex)
        /\ handedOut(u) = freeFrom(u, N - k + 1, N) \cup freshFrom(f, f + j - 1)
  <2>1. u \in Tables /\ N = Len(u.free) /\ f = u.fresh
    BY <1>2, <1>4
  <2>2. ASSUME NEW k, NEW j, k = takenFree(u), j = takenFresh(u)
        PROVE  /\ toHandOut(u) = freeFrom(u, 1, N - k) \cup freshFrom(u.fresh + j, LastIndex)
               /\ handedOut(u) = freeFrom(u, N - k + 1, N) \cup freshFrom(u.fresh, u.fresh + j - 1)
    <3>1. u \in Tables /\ N = Len(u.free)
      BY <2>1
    <3> QED BY ONLY <3>1, <2>2, HandOutsFrom
  <2> QED BY <2>1, <2>2
<1>8. \A m, n : freeFrom(u, m, n) = freeFrom(t, m, n)
  BY <1>2 DEF freeFrom
<1>9. toHandOut(u) \cap handedOut(u) = {}
  BY <1>2, <1>3, HandOutsApart
<1>10. CASE c < N
  <2>1. takenFree(t) = c /\ takenFresh(t) = 0
    BY <1>4, <1>10, TakenCounts
  <2>2. takenFree(u) = c + 1 /\ takenFresh(u) = 0
    <3>1. CASE c + 1 < N
      BY <1>2, <1>4, <3>1, TakenCounts
    <3>2. CASE c + 1 = N
      <4>1. u.count >= Len(u.free) /\ u.count - Len(u.free) = 0 /\ u.fresh + 0 = u.fresh
        BY <1>2, <1>4, <1>5, <3>2
      <4>2. takenFree(u) = c + 1
        BY <1>2, <1>4, <3>2, <4>1, TakenCounts
      <4>3. u.fresh > LastIndex => takenFresh(u) = LastIndex + 1 - u.fresh
        BY <1>2, <4>1, TakenCounts
      <4>4. u.fresh <= LastIndex => takenFresh(u) = 0
        BY <1>2, <4>1, TakenCounts
      <4>5. u.fresh \in FirstIndex..LastIndex + 1 /\ FirstIndex \in Nat
        BY <1>2, EntityTableAssumption DEF Tables
      <4>6. takenFresh(u) = 0
        BY <1>5, <4>3, <4>4, <4>5
      <4> QED BY <4>2, <4>6
    <3> QED BY <1>5, <1>10, <3>1, <3>2
  <2>3. e = t.free[N - c] /\ N - c \in 1..N
    BY <1>1, <1>4, <1>5, <1>10 DEF reservation
  <2>4. freeFrom(t, 1, N - c) = freeFrom(t, 1, N - (c + 1)) \cup {e}
    <3>1. 1..N - c = (1..N - (c + 1)) \cup {N - c}
      BY <1>5, <1>10
    <3> QED BY <2>3, <3>1 DEF freeFrom
  <2>5. freeFrom(t, N - (c + 1) + 1, N) = freeFrom(t, N - c + 1, N) \cup {e}
    <3>1. N - (c + 1) + 1..N = (N - c + 1..N) \cup {N - c}
      BY <1>5, <1>10
    <3> QED BY <2>3, <3>1 DEF freeFrom
  <2>6. toHandOut(t) = toHandOut(u) \cup {e}
    BY <1>6, <1>7, <1>8, <2>1, <2>2, <2>4
  <2>7. handedOut(u) = handedOut(t) \cup {e}
    BY <1>6, <1>7, <1>8, <2>1, <2>2, <2>5
  <2>8. e # NoEntity
    <3>1. t.free \in Seq(Pairs) /\ N = Len(t.free)
      BY <1>4 DEF Tables
    <3>2. e \in Pairs
      BY ONLY <2>3, <3>1, ElementOfSeq
    <3> QED BY <3>2, Parts
  <2> QED BY <1>1, <1>2, <1>3, <1>9, <2>6, <2>7, <2>8
<1>11. CASE c >= N /\ f + (c - N) > LastIndex
  <2>1. takenFree(t) = N /\ takenFresh(t) = LastIndex + 1 - f
    BY <1>4, <1>11, TakenCounts
  <2>2. c + 1 >= N /\ f + (c + 1 - N) > LastIndex
    BY <1>5, <1>11
  <2>3. takenFree(u) = N /\ takenFresh(u) = LastIndex + 1 - f
    <3>1. u.count >= Len(u.free) /\ u.fresh + (u.count - Len(u.free)) > LastIndex
      <4>1. u.count = c + 1 /\ Len(u.free) = N /\ u.fresh = f
        BY <1>2, <1>4
      <4> QED BY ONLY <1>5, <2>2, <4>1
    <3> QED BY <1>2, <1>4, <3>1, TakenCounts
  <2>4. e = NoEntity
    <3>1. ~(c < N) /\ f + c - N > LastIndex
      BY <1>5, <1>11
    <3> QED BY <1>1, <1>4, <3>1 DEF reservation
  <2>5. toHandOut(u) = toHandOut(t) /\ handedOut(u) = handedOut(t)
    BY <1>6, <1>7, <1>8, <2>1, <2>3
  <2> QED BY <1>1, <1>2, <1>3, <2>4, <2>5
<1>12. CASE c >= N /\ f + (c - N) <= LastIndex
  <2>1. takenFree(t) = N /\ takenFresh(t) = c - N
    BY <1>4, <1>12, TakenCounts
  <2>2. takenFree(u) = N /\ takenFresh(u) = c - N + 1
    <3>1. u.count >= Len(u.free) /\ u.count - Len(u.free) = c - N + 1
      BY <1>2, <1>4, <1>5, <1>12
    <3>2. takenFree(u) = N
      BY <1>2, <1>4, <3>1, TakenCounts
    <3>3. f + (c - N + 1) > LastIndex => takenFresh(u) = LastIndex + 1 - f
      BY <1>2, <1>4, <3>1, TakenCounts
    <3>4. f + (c - N + 1) <= LastIndex => takenFresh(u) = c - N + 1
      BY <1>2, <1>4, <3>1, TakenCounts
    <3> QED BY <1>5, <1>12, <3>2, <3>3, <3>4
  <2>3. e = <<f + (c - N), 1>> /\ e # NoEntity
    <3>1. ~(c < N) /\ ~(f + c - N > LastIndex) /\ f + c - N = f + (c - N)
      BY <1>5, <1>12
    <3>2. e = <<f + (c - N), 1>>
      BY <1>1, <1>4, <3>1 DEF reservation
    <3> QED BY <3>2 DEF NoEntity
  <2>4. freshFrom(f + (c - N), LastIndex) = freshFrom(f + (c - N + 1), LastIndex) \cup {e}
    <3>1. f + (c - N)..LastIndex = (f + (c - N + 1)..LastIndex) \cup {f + (c - N)}
      BY <1>5, <1>12
    <3> QED BY <2>3, <3>1 DEF freshFrom
  <2>5. freshFrom(f, f + (c - N + 1) - 1) = freshFrom(f, f + (c - N) - 1) \cup {e}
    <3>1. f..f + (c - N + 1) - 1 = (f..f + (c - N) - 1) \cup {f + (c - N)}
      BY <1>5, <1>12
    <3> QED BY <2>3, <3>1 DEF freshFrom
  <2>6. toHandOut(t) = toHandOut(u) \cup {e}
    BY <1>6, <1>7, <1>8, <2>1, <2>2, <2>4
  <2>7. handedOut(u) = handedOut(t) \cup {e}
    BY <1>6, <1>7, <1>8, <2>1, <2>2, <2>5
  <2> QED BY <1>1, <1>2, <1>3, <1>9, <2>3, <2>6, <2>7
<1> QED BY <1>5, <1>10, <1>11, <1>12

\* Without reservations all of the free list is still to hand out.
LEMMA NoneTaken ==
  ASSUME NEW u \in Tables, u.count = 0
  PROVE  /\ toHandOut(u) = freeFrom(u, 1, Len(u.free)) \cup freshFrom(u.fresh, LastIndex)
         /\ handedOut(u) = {} /\ takenFresh(u) = 0
<1>1. PICK N, f : N = Len(u.free) /\ f = u.fresh
  OBVIOUS
<1>2. N \in Nat /\ f \in Int /\ LastIndex \in Nat /\ f <= LastIndex + 1
  <2>1. u.fresh \in FirstIndex..LastIndex + 1 /\ FirstIndex \in Nat /\ LastIndex \in Nat
    BY EntityTableAssumption DEF Tables
  <2>2. N \in Nat
    BY <1>1, TakenCounts
  <2> QED BY <1>1, <2>1, <2>2
<1>3. takenFree(u) = 0 /\ takenFresh(u) = 0
  <2>1. CASE N > 0
    BY <1>1, <2>1, TakenCounts
  <2>2. CASE N = 0
    <3>1. u.count >= Len(u.free) /\ u.count - Len(u.free) = 0
      BY <1>1, <2>2
    <3>2. takenFree(u) = 0
      BY <1>1, <2>2, <3>1, TakenCounts
    <3>3. f + 0 > LastIndex => takenFresh(u) = LastIndex + 1 - f
      BY <1>1, <3>1, TakenCounts
    <3>4. f + 0 <= LastIndex => takenFresh(u) = 0
      BY <1>1, <3>1, TakenCounts
    <3> QED BY <1>2, <3>2, <3>3, <3>4
  <2> QED BY <1>2, <2>1, <2>2
<1>4. PICK k, j : k = takenFree(u) /\ j = takenFresh(u)
  OBVIOUS
<1>5. /\ toHandOut(u) = freeFrom(u, 1, N - k) \cup freshFrom(u.fresh + j, LastIndex)
      /\ handedOut(u) = freeFrom(u, N - k + 1, N) \cup freshFrom(u.fresh, u.fresh + j - 1)
  <2>1. N = Len(u.free)
    BY <1>1
  <2> QED BY ONLY u \in Tables, <2>1, <1>4, Counts
<1>6. k = 0 /\ j = 0 /\ N - k = N /\ u.fresh + j = u.fresh
  BY <1>1, <1>2, <1>3, <1>4
<1>7. freeFrom(u, N - k + 1, N) = {}
  <2>1. N - k + 1..N = {}
    BY <1>2, <1>6
  <2> QED BY <2>1 DEF freeFrom
<1>8. freshFrom(u.fresh, u.fresh + j - 1) = {}
  <2>1. f..f + 0 - 1 = {}
    BY <1>2
  <2> QED BY <1>1, <1>6, <2>1 DEF freshFrom
<1> QED BY <1>1, <1>3, <1>5, <1>6, <1>7, <1>8

\* Settling leaves what is still to hand out.
LEMMA Settled ==
  ASSUME NEW t \in Tables, FreeInv(t), NEW u \in Tables, u.free = untaken(t),
         u.fresh = t.fresh + takenFresh(t), u.count = 0
  PROVE  FreeInv(u) /\ toHandOut(u) = toHandOut(t) /\ handedOut(u) = {}
<1>1. PICK N, k, j : N = Len(t.free) /\ k = takenFree(t) /\ j = takenFresh(t)
  OBVIOUS
<1>2. /\ N \in Nat /\ k \in 0..N /\ j \in Nat /\ t.fresh \in Int
      /\ DOMAIN t.free = 1..N /\ \A n \in 1..N : t.free[n] \in Pairs
      /\ untaken(t) \in Seq(Pairs) /\ Len(untaken(t)) = N - k
      /\ \A n \in 1..N - k : untaken(t)[n] = t.free[n]
  BY <1>1, Counts
<1>3. toHandOut(t) = freeFrom(t, 1, N - k) \cup freshFrom(t.fresh + j, LastIndex)
  BY ONLY t \in Tables, <1>1, Counts
<1>4. Len(u.free) = N - k /\ u.fresh = t.fresh + j /\ \A n \in 1..N - k : u.free[n] = t.free[n]
  BY <1>1, <1>2
<1>5. DOMAIN u.free = 1..N - k
  BY <1>2, <1>4, LenProperties
<1>6. /\ toHandOut(u) = freeFrom(u, 1, N - k) \cup freshFrom(t.fresh + j, LastIndex)
      /\ handedOut(u) = {}
  BY <1>4, NoneTaken
<1>7. freeFrom(u, 1, N - k) = freeFrom(t, 1, N - k)
  BY <1>4 DEF freeFrom
<1>8. FreeInv(u)
  <2>1. \A n \in 1..N - k : n \in 1..N
    BY <1>2
  <2>2. \A m, n \in 1..N - k : index(u.free[m]) = index(u.free[n]) => m = n
    BY <1>2, <1>4, <2>1 DEF FreeInv
  <2>3. ASSUME NEW n \in 1..N - k PROVE index(u.free[n]) < u.fresh
    <3>1. index(t.free[n]) < t.fresh /\ index(t.free[n]) \in Int
      BY <1>2, <2>1, Parts DEF FreeInv
    <3> QED BY <1>2, <1>4, <3>1
  <2> QED BY <1>5, <2>2, <2>3 DEF FreeInv
<1> QED BY <1>3, <1>6, <1>7, <1>8

\* An entity put back on the free list is to be handed out again.
LEMMA Appended ==
  ASSUME NEW u \in Tables, FreeInv(u), u.count = 0,
         NEW p \in Pairs, \A e \in toHandOut(u) : index(e) # index(p),
         NEW v \in Tables, v.free = Append(u.free, p), v.fresh = u.fresh, v.count = 0
  PROVE  FreeInv(v) /\ toHandOut(v) = toHandOut(u) \cup {p} /\ handedOut(v) = {}
<1>1. PICK N : N = Len(u.free)
  OBVIOUS
<1>2. u.free \in Seq(Pairs) /\ N \in Nat /\ DOMAIN u.free = 1..N /\ \A n \in 1..N : u.free[n] \in Pairs
  BY <1>1, Counts
<1>3. /\ Len(v.free) = N + 1 /\ DOMAIN v.free = 1..N + 1
      /\ \A n \in 1..N : v.free[n] = u.free[n]
      /\ v.free[N + 1] = p
  <2>1. PICK q : q = Append(u.free, p)
    OBVIOUS
  <2>2. /\ q \in Seq(Pairs) /\ Len(q) = N + 1
        /\ \A n \in 1..N : q[n] = u.free[n]
        /\ q[N + 1] = p
    BY <1>1, <1>2, <2>1, AppendProperties
  <2>3. DOMAIN q = 1..N + 1
    BY <2>2, LenProperties
  <2> QED BY <2>1, <2>2, <2>3
<1>4. /\ toHandOut(u) = freeFrom(u, 1, N) \cup freshFrom(u.fresh, LastIndex)
  BY <1>1, NoneTaken
<1>5. /\ toHandOut(v) = freeFrom(v, 1, N + 1) \cup freshFrom(u.fresh, LastIndex) /\ handedOut(v) = {}
  BY <1>3, NoneTaken
<1>6. freeFrom(v, 1, N + 1) = freeFrom(u, 1, N) \cup {p}
  <2>1. 1..N + 1 = (1..N) \cup {N + 1}
    BY <1>2
  <2> QED BY <1>3, <2>1 DEF freeFrom
<1>7. \A n \in 1..N : index(u.free[n]) # index(p)
  BY <1>4 DEF freeFrom
<1>8. index(p) < u.fresh
  <2>1. ASSUME ~(index(p) < u.fresh) PROVE FALSE
    <3>1. index(p) \in Int /\ index(p) <= LastIndex
      BY Parts
    <3>2. u.fresh \in FirstIndex..LastIndex + 1 /\ FirstIndex \in Nat /\ LastIndex \in Nat
      BY EntityTableAssumption DEF Tables
    <3>3. index(p) \in u.fresh..LastIndex
      BY <2>1, <3>1, <3>2
    <3>4. <<index(p), 1>> \in toHandOut(u)
      BY <1>4, <3>3 DEF freshFrom
    <3> QED BY <3>4, Parts
  <2> QED BY <2>1
<1>9. FreeInv(v)
  <2>1. \A n \in 1..N + 1 : n \in 1..N \/ n = N + 1
    BY <1>2
  <2>2. \A m, n \in 1..N + 1 : index(v.free[m]) = index(v.free[n]) => m = n
    BY <1>2, <1>3, <1>7, <2>1 DEF FreeInv
  <2>3. \A n \in 1..N + 1 : index(v.free[n]) < v.fresh
    BY <1>2, <1>3, <1>8, <2>1 DEF FreeInv
  <2> QED BY <1>3, <2>2, <2>3 DEF FreeInv
<1> QED BY <1>4, <1>5, <1>6, <1>9

\* No two reservations are of the same index.
LEMMA TakenApart ==
  ASSUME NEW t \in Tables, FreeInv(t), NEW q, q = taken(t)
  PROVE  /\ q \in Seq(Pairs) /\ Len(q) \in Nat /\ DOMAIN q = 1..Len(q)
         /\ \A n \in 1..Len(q) : q[n] \in handedOut(t) /\ q[n] \in Pairs
         /\ \A m, n \in 1..Len(q) : index(q[m]) = index(q[n]) => m = n
<1>1. PICK N, k, j, f : N = Len(t.free) /\ k = takenFree(t) /\ j = takenFresh(t) /\ f = t.fresh
  OBVIOUS
<1>2. N = Len(t.free) /\ k = takenFree(t) /\ j = takenFresh(t)
  BY <1>1
<1>3. /\ N \in Nat /\ k \in 0..N /\ j \in Nat /\ t.fresh \in Int
      /\ \A n \in 1..N : t.free[n] \in Pairs
      /\ DOMAIN t.free = 1..N
  BY <1>2, Counts
<1>4. /\ q \in Seq(Pairs) /\ Len(q) = k + j
      /\ \A n \in 1..k : q[n] = t.free[N - k + n]
      /\ \A n \in 1..j : q[k + n] = <<t.fresh + n - 1, 1>>
  <2>1. taken(t) \in Seq(Pairs) /\ Len(taken(t)) = k + j
    BY ONLY t \in Tables, <1>2, Counts
  <2>2. \A n \in 1..k : taken(t)[n] = t.free[N - k + n]
    BY ONLY t \in Tables, <1>2, Counts, SMTT(30)
  <2>3. \A n \in 1..j : taken(t)[k + n] = freshAt(t, n)
    BY ONLY t \in Tables, <1>2, Counts
  <2> QED BY <2>1, <2>2, <2>3 DEF freshAt
<1>5. Len(q) \in Nat /\ DOMAIN q = 1..k + j
  BY <1>4, LenProperties
<1>6. \A n \in 1..Len(q) : q[n] \in handedOut(t) /\ q[n] \in Pairs
  BY <1>4, <1>5, ElementOfSeq DEF handedOut, ToSet
<1>7. N \in Nat /\ k \in 0..N /\ j \in Nat /\ f \in Int
  BY <1>1, <1>3
<1>8. ASSUME NEW n \in 1..k + j, n > k PROVE n - k \in 1..j /\ index(q[n]) = f + ((n - k) - 1)
  <2>1. n - k \in 1..j /\ k + (n - k) = n /\ f + (n - k) - 1 = f + ((n - k) - 1)
    BY ONLY <1>7, <1>8
  <2>2. q[k + (n - k)] = <<t.fresh + (n - k) - 1, 1>>
    BY <1>4, <2>1
  <2>3. q[n] = <<f + (n - k) - 1, 1>>
    BY <1>1, <2>1, <2>2
  <2> QED BY <2>1, <2>3, Parts
<1>9. ASSUME NEW n \in 1..k + j, n <= k PROVE N - k + n \in 1..N /\ q[n] = t.free[N - k + n] /\ index(q[n]) < f
  <2>1. n \in 1..k /\ N - k + n \in 1..N
    BY ONLY <1>7, <1>9
  <2> QED BY <1>1, <1>3, <1>4, <2>1 DEF FreeInv
<1>10. ASSUME NEW m \in 1..k + j, NEW n \in 1..k + j, index(q[m]) = index(q[n]) PROVE m = n
  <2>1. CASE m > k /\ n > k
    BY <1>7, <1>8, <1>10, <2>1
  <2>2. CASE m <= k /\ n <= k
    <3>1. N - k + m = N - k + n
      BY <1>3, <1>9, <1>10, <2>2 DEF FreeInv
    <3> QED BY <1>7, <3>1
  <2>3. ASSUME NEW a \in 1..k + j, NEW b \in 1..k + j, a <= k, b > k PROVE index(q[a]) # index(q[b])
    <3>1. index(q[a]) < f
      BY <1>9, <2>3
    <3>2. index(q[b]) = f + ((b - k) - 1) /\ b - k \in 1..j
      BY <1>8, <2>3
    <3> QED BY <1>7, <3>1, <3>2
  <2> QED BY <1>7, <1>10, <2>1, <2>2, <2>3
<1> QED BY <1>4, <1>5, <1>6, <1>10

\* A table between two reservations that are burned, as settling leaves it.
settledAs(w, j) == [w EXCEPT !.fresh = @ + j, !.count = 0]

\* The entities that come back for the first n reservations taken.
backOf(e) == <<index(e), generation(e) + 1>>
unspawned(t, e) == t.last[index(e)] # generation(e)
reclaims(t) == {backOf(e) : e \in {d \in handedOut(t) : unspawned(t, d)}}
comeBack(t, n) == {backOf(taken(t)[m]) : m \in {x \in 1..n : unspawned(t, taken(t)[x])}}

\* What the table w is when the first n of them are burned.
Burned(t, w, n) ==
  /\ w \in Tables
  /\ w.live = t.live /\ w.mask = t.mask /\ w.count = t.count /\ w.fresh = t.fresh
  /\ w.observing = t.observing /\ w.despawned = t.despawned /\ w.outside = t.outside
  /\ FreeInv(settledAs(w, takenFresh(t)))
  /\ toHandOut(settledAs(w, takenFresh(t))) = toHandOut(t) \cup comeBack(t, n)
  /\ \A m \in 1..n : w.last[index(taken(t)[m])] = generation(taken(t)[m])
  /\ \A i \in Indices : (\A m \in 1..n : index(taken(t)[m]) # i) => w.last[i] = t.last[i]

\* settledAs has the type of a table.
LEMMA SettledAs ==
  ASSUME NEW t \in Tables, NEW w \in Tables, w.fresh = t.fresh,
         NEW u, u = settledAs(w, takenFresh(t))
  PROVE  /\ u \in Tables /\ u.fresh = t.fresh + takenFresh(t) /\ u.count = 0
         /\ u.free = w.free /\ u.live = w.live /\ u.last = w.last /\ u.mask = w.mask
         /\ u.observing = w.observing /\ u.despawned = w.despawned /\ u.outside = w.outside
<1>1. PICK j : j = takenFresh(t)
  OBVIOUS
<1>2. j \in Nat /\ t.fresh \in Int /\ t.fresh + j <= LastIndex + 1 /\ FirstIndex <= t.fresh
  BY <1>1, Counts
<1>3. FirstIndex \in Nat /\ LastIndex \in Nat
  BY EntityTableAssumption
<1>4. w.fresh + j \in FirstIndex..LastIndex + 1
  BY <1>2, <1>3
<1>5. u = [w EXCEPT !.fresh = w.fresh + j, !.count = 0]
  BY <1>1 DEF settledAs
<1>6. u \in Tables
  <2>1. PICK x \in FirstIndex..LastIndex + 1 : x = w.fresh + j
    BY <1>4
  <2>2. u = [w EXCEPT !.fresh = x, !.count = 0] /\ 0 \in Nat
    BY <1>5, <2>1
  <2> QED BY ONLY <2>2, w \in Tables, x \in FirstIndex..LastIndex + 1 DEF Tables
<1>7. /\ u.fresh = t.fresh + j /\ u.count = 0
      /\ u.free = w.free /\ u.live = w.live /\ u.last = w.last /\ u.mask = w.mask
      /\ u.observing = w.observing /\ u.despawned = w.despawned /\ u.outside = w.outside
  BY <1>5 DEF Tables
<1> QED BY <1>1, <1>6, <1>7

\* The tables differ at most in what they still hand out.
sameSlots(z, w) ==
  /\ z.live = w.live /\ z.mask = w.mask
  /\ z.observing = w.observing /\ z.despawned = w.despawned /\ z.outside = w.outside

\* burn keeps the type of the table, and what it leaves.
LEMMA BurnTypes ==
  ASSUME NEW w \in Tables, NEW e \in Pairs, NEW z, z = burn(w, e)
  PROVE  z \in Tables /\ z.count = w.count /\ z.fresh = w.fresh /\ sameSlots(z, w)
<1>1. CASE w.last[index(e)] = generation(e)
  BY <1>1 DEF burn, sameSlots
<1>2. CASE w.last[index(e)] # generation(e)
  <2>1. PICK a, l : a = Append(w.free, backOf(e)) /\ l = [w.last EXCEPT ![index(e)] = generation(e)]
    OBVIOUS
  <2>2. z = [w EXCEPT !.last = l, !.free = a]
    BY <1>2, <2>1 DEF burn, backOf, nextGeneration
  <2>3. l \in [Indices -> Nat]
    BY <2>1, Parts DEF Tables
  <2>4. a \in Seq(Pairs)
    <3>1. backOf(e) \in Pairs
      BY Parts DEF backOf
    <3>2. w.free \in Seq(Pairs)
      BY DEF Tables
    <3> QED BY <2>1, <3>1, <3>2, AppendProperties
  <2>5. z \in Tables
    BY <2>2, <2>3, <2>4 DEF Tables
  <2>6. sameSlots(z, w) /\ z.count = w.count /\ z.fresh = w.fresh
    BY <2>2 DEF Tables, sameSlots
  <2> QED BY <2>5, <2>6
<1> QED BY <1>1, <1>2

\* What burn does with an entity that was never spawned.
LEMMA BurnDoes ==
  ASSUME NEW w \in Tables, NEW e \in Pairs, NEW z, z = burn(w, e)
  PROVE  /\ w.last[index(e)] = generation(e) => z = w
         /\ w.last[index(e)] # generation(e) =>
              z.free = Append(w.free, backOf(e)) /\ z.last = [w.last EXCEPT ![index(e)] = generation(e)]
BY DEF burn, backOf, nextGeneration, Tables

\* Burning the next reservation: one that was never spawned comes back.
LEMMA BurnStep ==
  ASSUME NEW t \in Tables, FreeInv(t), NEW q, q = taken(t), NEW n \in 1..Len(q),
         NEW w, Burned(t, w, n - 1), NEW z, z = burn(w, q[n])
  PROVE  Burned(t, z, n)
<1>1. /\ q \in Seq(Pairs) /\ Len(q) \in Nat
      /\ \A m \in 1..Len(q) : q[m] \in handedOut(t) /\ q[m] \in Pairs
      /\ \A m, x \in 1..Len(q) : index(q[m]) = index(q[x]) => m = x
  BY TakenApart
<1>2. n \in Nat /\ n - 1 \in Nat /\ 1..n = (1..n - 1) \cup {n} /\ (\A m \in 1..n - 1 : m \in 1..Len(q) /\ m # n)
  BY <1>1
<1>3. PICK e, i, g : e = q[n] /\ i = index(e) /\ g = generation(e)
  OBVIOUS
<1>4. e \in Pairs /\ i \in InRange /\ i \in Indices /\ g \in Nat /\ e \in handedOut(t)
  BY <1>1, <1>3, Parts
<1>5. /\ w \in Tables
      /\ w.live = t.live /\ w.mask = t.mask /\ w.count = t.count /\ w.fresh = t.fresh
      /\ w.observing = t.observing /\ w.despawned = t.despawned /\ w.outside = t.outside
      /\ \A m \in 1..n - 1 : w.last[index(q[m])] = generation(q[m])
      /\ \A x \in Indices : (\A m \in 1..n - 1 : index(q[m]) # x) => w.last[x] = t.last[x]
  BY DEF Burned
<1>6. PICK u, v : u = settledAs(w, takenFresh(t)) /\ v = settledAs(z, takenFresh(t))
  OBVIOUS
<1>7. FreeInv(u) /\ toHandOut(u) = toHandOut(t) \cup comeBack(t, n - 1)
  BY <1>6 DEF Burned
<1>8. /\ z \in Tables
      /\ z.live = t.live /\ z.mask = t.mask /\ z.count = t.count /\ z.fresh = t.fresh
      /\ z.observing = t.observing /\ z.despawned = t.despawned /\ z.outside = t.outside
  <2>1. w \in Tables /\ e \in Pairs /\ z = burn(w, e)
    BY <1>3, <1>4, <1>5
  <2>2. z \in Tables /\ z.count = w.count /\ z.fresh = w.fresh /\ sameSlots(z, w)
    BY ONLY <2>1, BurnTypes
  <2> QED BY <1>5, <2>2 DEF sameSlots
<1>9. /\ w.last[i] = g => z = w
      /\ w.last[i] # g => z.free = Append(w.free, backOf(e)) /\ z.last = [w.last EXCEPT ![i] = g]
  <2>1. w \in Tables /\ e \in Pairs /\ z = burn(w, e)
    BY <1>3, <1>4, <1>5
  <2>2. /\ w.last[index(e)] = generation(e) => z = w
        /\ w.last[index(e)] # generation(e) =>
             z.free = Append(w.free, backOf(e)) /\ z.last = [w.last EXCEPT ![index(e)] = generation(e)]
    BY ONLY <2>1, BurnDoes
  <2> QED BY <1>3, <2>2
<1>10. w.last[i] = t.last[i]
  <2>1. \A m \in 1..n - 1 : index(q[m]) # i
    BY <1>1, <1>2, <1>3
  <2> QED BY <1>4, <1>5, <2>1
<1>11. unspawned(t, e) <=> w.last[i] # g
  BY <1>3, <1>10 DEF unspawned
<1>12. comeBack(t, n) = IF unspawned(t, e) THEN comeBack(t, n - 1) \cup {backOf(e)} ELSE comeBack(t, n - 1)
  <2>1. comeBack(t, n) = {backOf(q[m]) : m \in {x \in 1..n : unspawned(t, q[x])}}
    BY DEF comeBack
  <2>2. comeBack(t, n - 1) = {backOf(q[m]) : m \in {x \in 1..n - 1 : unspawned(t, q[x])}}
    BY DEF comeBack
  <2>3. CASE unspawned(t, e)
    <3>1. {x \in 1..n : unspawned(t, q[x])} = {x \in 1..n - 1 : unspawned(t, q[x])} \cup {n}
      BY <1>2, <1>3, <2>3
    <3>2. comeBack(t, n) = comeBack(t, n - 1) \cup {backOf(q[n])}
      BY <2>1, <2>2, <3>1
    <3> QED BY <1>3, <2>3, <3>2
  <2>4. CASE ~unspawned(t, e)
    <3>1. {x \in 1..n : unspawned(t, q[x])} = {x \in 1..n - 1 : unspawned(t, q[x])}
      BY <1>2, <1>3, <2>4
    <3> QED BY <2>1, <2>2, <2>4, <3>1
  <2> QED BY <2>3, <2>4
<1>13. /\ \A m \in 1..n : z.last[index(q[m])] = generation(q[m])
       /\ \A x \in Indices : (\A m \in 1..n : index(q[m]) # x) => z.last[x] = t.last[x]
  <2>1. CASE w.last[i] = g
    <3>1. z = w
      BY <1>9, <2>1
    <3>2. \A m \in 1..n : z.last[index(q[m])] = generation(q[m])
      BY <1>2, <1>3, <1>5, <2>1, <3>1
    <3>3. \A x \in Indices : (\A m \in 1..n : index(q[m]) # x) => z.last[x] = t.last[x]
      BY <1>2, <1>5, <3>1
    <3> QED BY <3>2, <3>3
  <2>2. CASE w.last[i] # g
    <3>1. z.last = [w.last EXCEPT ![i] = g] /\ w.last \in [Indices -> Nat]
      BY <1>5, <1>9, <2>2 DEF Tables
    <3>2. \A x \in Indices : z.last[x] = IF x = i THEN g ELSE w.last[x]
      BY <1>4, <3>1
    <3>3. \A m \in 1..n - 1 : index(q[m]) # i /\ index(q[m]) \in Indices
      BY <1>1, <1>2, <1>3, Parts
    <3>4. \A m \in 1..n : z.last[index(q[m])] = generation(q[m])
      BY <1>2, <1>3, <1>4, <1>5, <3>2, <3>3
    <3>5. \A x \in Indices : (\A m \in 1..n : index(q[m]) # x) => z.last[x] = t.last[x]
      BY <1>2, <1>3, <1>5, <3>2
    <3> QED BY <3>4, <3>5
  <2> QED BY <2>1, <2>2
<1>14. FreeInv(v) /\ toHandOut(v) = toHandOut(t) \cup comeBack(t, n)
  <2>1. CASE w.last[i] = g
    <3>1. z = w
      BY <1>9, <2>1
    <3>2. v = u
      BY <1>6, <3>1
    <3>3. comeBack(t, n) = comeBack(t, n - 1)
      BY <1>11, <1>12, <2>1
    <3> QED BY <1>7, <3>2, <3>3
  <2>2. CASE w.last[i] # g
    <3>1. z.free = Append(w.free, backOf(e))
      BY <1>9, <2>2
    <3>2. u \in Tables /\ u.count = 0 /\ u.free = w.free /\ u.fresh = t.fresh + takenFresh(t)
      BY <1>5, <1>6, SettledAs
    <3>3. v \in Tables /\ v.count = 0 /\ v.free = z.free /\ v.fresh = t.fresh + takenFresh(t)
      BY <1>6, <1>8, SettledAs
    <3>4. backOf(e) \in Pairs /\ index(backOf(e)) = i
      BY <1>3, <1>4, Parts DEF backOf
    <3>5. \A d \in toHandOut(t) : index(d) # i
      <4>1. \A d \in toHandOut(t) : index(d) = i => d = e
        BY <1>3, <1>4, HandOutsApart
      <4>2. e \notin toHandOut(t)
        BY <1>4, HandOutsApart
      <4> QED BY <4>1, <4>2
    <3>6. ASSUME NEW d \in comeBack(t, n - 1) PROVE index(d) # i
      <4>1. PICK m \in 1..n - 1 : d = backOf(q[m])
        BY DEF comeBack
      <4>2. index(d) = index(q[m])
        BY <4>1, Parts DEF backOf
      <4> QED BY <1>1, <1>2, <1>3, <4>2
    <3>7. \A d \in toHandOut(u) : index(d) # index(backOf(e))
      BY <1>7, <3>4, <3>5, <3>6
    <3>8. v.free = Append(u.free, backOf(e)) /\ v.fresh = u.fresh
      BY <3>1, <3>2, <3>3
    <3>9. FreeInv(v) /\ toHandOut(v) = toHandOut(u) \cup {backOf(e)}
      BY <1>7, <3>2, <3>3, <3>4, <3>7, <3>8, Appended
    <3>10. comeBack(t, n) = comeBack(t, n - 1) \cup {backOf(e)}
      BY <1>11, <1>12, <2>2
    <3> QED BY <1>7, <3>9, <3>10
  <2> QED BY <2>1, <2>2
<1> QED BY <1>6, <1>8, <1>13, <1>14 DEF Burned

\* Settling at the end of a window: what was handed out and never spawned comes
\* back at its next generation, and what was handed out counts as used.
LEMMA Reclaimed ==
  ASSUME NEW t \in Tables, FreeInv(t), NEW u, u = settleReservations(t, TRUE)
  PROVE  /\ u \in Tables /\ FreeInv(u) /\ u.count = 0 /\ handedOut(u) = {}
         /\ u.live = t.live /\ u.mask = t.mask
         /\ u.observing = t.observing /\ u.despawned = t.despawned /\ u.outside = t.outside
         /\ toHandOut(u) = toHandOut(t) \cup reclaims(t)
         /\ \A e \in handedOut(t) : u.last[index(e)] = generation(e)
         /\ \A i \in Indices : (\A e \in handedOut(t) : index(e) # i) => u.last[i] = t.last[i]
<1>1. PICK q, left : q = taken(t) /\ left = [t EXCEPT !.free = untaken(t)]
  OBVIOUS
<1>2. q \in Seq(Pairs) /\ Len(q) \in Nat /\ DOMAIN q = 1..Len(q)
  BY <1>1, TakenApart
<1>3. /\ left \in Tables /\ left.free = untaken(t) /\ left.last = t.last
      /\ left.live = t.live /\ left.mask = t.mask /\ left.count = t.count /\ left.fresh = t.fresh
      /\ left.observing = t.observing /\ left.despawned = t.despawned /\ left.outside = t.outside
  <2>1. PICK a : a = untaken(t)
    OBVIOUS
  <2>2. a \in Seq(Pairs)
    BY <2>1, Counts
  <2>3. left = [t EXCEPT !.free = a]
    BY <1>1, <2>1
  <2>4. left \in Tables
    BY <2>2, <2>3 DEF Tables
  <2>5. /\ left.free = a /\ left.last = t.last
        /\ left.live = t.live /\ left.mask = t.mask /\ left.count = t.count /\ left.fresh = t.fresh
        /\ left.observing = t.observing /\ left.despawned = t.despawned /\ left.outside = t.outside
    BY <2>3 DEF Tables
  <2> QED BY <2>1, <2>4, <2>5
<1>4. BurnStays(Tables, Pairs)
  BY BurnTypes DEF BurnStays
<1>5. PICK f : /\ f \in [0..Len(q) -> Tables] /\ f[0] = left /\ f[Len(q)] = burnAll(left, q)
               /\ \A n \in 1..Len(q) : f[n] = burn(f[n - 1], q[n])
  <2>1. PICK f : BurnPath(f, Tables, left, q)
    BY <1>2, <1>3, <1>4, BurnFolded
  <2> QED BY <2>1 DEF BurnPath
<1>6. Burned(t, left, 0)
  <2>1. PICK v : v = settledAs(left, takenFresh(t))
    OBVIOUS
  <2>2. v \in Tables /\ v.free = untaken(t) /\ v.fresh = t.fresh + takenFresh(t) /\ v.count = 0
    BY <1>3, <2>1, SettledAs
  <2>3. FreeInv(v) /\ toHandOut(v) = toHandOut(t)
    BY <2>2, Settled
  <2>4. 1..0 = {}
    OBVIOUS
  <2>5. comeBack(t, 0) = {}
    BY <2>4 DEF comeBack
  <2> QED BY <1>3, <2>1, <2>3, <2>4, <2>5 DEF Burned
<1>7. PICK S : S = {n \in 0..Len(q) : Burned(t, f[n], n)}
  OBVIOUS
<1>8. 0 \in S
  BY <1>2, <1>5, <1>6, <1>7
<1>9. ASSUME NEW n \in 1..Len(q), n - 1 \in S PROVE n \in S
  <2>1. Burned(t, f[n - 1], n - 1) /\ f[n] = burn(f[n - 1], q[n])
    BY <1>5, <1>7, <1>9
  <2>2. Burned(t, f[n], n)
    BY <1>1, <2>1, BurnStep
  <2> QED BY <1>2, <1>7, <2>2
<1>10. Burned(t, f[Len(q)], Len(q))
  <2>1. \A n \in 0..Len(q) : n \in S
    BY <1>2, <1>8, <1>9, UpTo
  <2> QED BY <1>2, <1>7, <2>1
<1>11. PICK w : w = f[Len(q)]
  OBVIOUS
<1>12. u = settledAs(w, takenFresh(t))
  BY <1>1, <1>5, <1>11 DEF settleReservations, settledAs, burnAll
<1>13. /\ w \in Tables
       /\ w.live = t.live /\ w.mask = t.mask /\ w.fresh = t.fresh
       /\ w.observing = t.observing /\ w.despawned = t.despawned /\ w.outside = t.outside
       /\ FreeInv(u) /\ toHandOut(u) = toHandOut(t) \cup comeBack(t, Len(q))
       /\ \A m \in 1..Len(q) : w.last[index(q[m])] = generation(q[m])
       /\ \A i \in Indices : (\A m \in 1..Len(q) : index(q[m]) # i) => w.last[i] = t.last[i]
  BY <1>1, <1>10, <1>11, <1>12 DEF Burned
<1>14. /\ u \in Tables /\ u.count = 0 /\ u.last = w.last
       /\ u.live = t.live /\ u.mask = t.mask
       /\ u.observing = t.observing /\ u.despawned = t.despawned /\ u.outside = t.outside
  <2>1. w \in Tables /\ w.fresh = t.fresh /\ t \in Tables
    BY <1>13
  <2>2. /\ u \in Tables /\ u.count = 0 /\ u.last = w.last /\ u.live = w.live /\ u.mask = w.mask
        /\ u.observing = w.observing /\ u.despawned = w.despawned /\ u.outside = w.outside
    BY ONLY <1>12, <2>1, SettledAs
  <2> QED BY <1>13, <2>2
<1>15. handedOut(u) = {}
  BY <1>14, NoneTaken
<1>16. handedOut(t) = {q[m] : m \in 1..Len(q)}
  BY <1>1, <1>2 DEF handedOut, ToSet
<1>17. comeBack(t, Len(q)) = reclaims(t)
  BY <1>1, <1>16 DEF comeBack, reclaims
<1>18. \A e \in handedOut(t) : u.last[index(e)] = generation(e)
  BY <1>13, <1>14, <1>16
<1>19. \A i \in Indices : (\A e \in handedOut(t) : index(e) # i) => u.last[i] = t.last[i]
  BY <1>13, <1>14, <1>16
<1> QED BY <1>13, <1>14, <1>15, <1>17, <1>18, <1>19

\* free keeps the type of the table, and what it leaves.
LEMMA FreeTypes ==
  ASSUME NEW w \in Tables, NEW i \in Indices, NEW z, z = free(w, i)
  PROVE  /\ z \in Tables /\ z.count = w.count /\ z.fresh = w.fresh /\ sameSlots(z, w) /\ z.last = w.last
         /\ i \notin InRange => z = w
         /\ i \in InRange => z.free = Append(w.free, <<i, w.last[i] + 1>>)
<1>1. CASE i \notin InRange
  BY <1>1 DEF free, sameSlots
<1>2. CASE i \in InRange
  <2>1. PICK p, a : p = <<i, w.last[i] + 1>> /\ a = Append(w.free, p)
    OBVIOUS
  <2>2. z = [w EXCEPT !.free = a]
    BY <1>2, <2>1 DEF free, nextGeneration
  <2>3. a \in Seq(Pairs)
    <3>1. w.last[i] \in Nat /\ w.free \in Seq(Pairs)
      BY DEF Tables
    <3>2. p \in Pairs
      BY <1>2, <2>1, <3>1, Parts
    <3> QED BY <2>1, <3>1, <3>2, AppendProperties
  <2>4. z \in Tables
    BY <2>2, <2>3 DEF Tables
  <2>5. sameSlots(z, w) /\ z.count = w.count /\ z.fresh = w.fresh /\ z.last = w.last /\ z.free = a
    BY <2>2 DEF Tables, sameSlots
  <2> QED BY <1>2, <2>1, <2>4, <2>5
<1> QED BY <1>1, <1>2

\* The entity at index i that u hands out next.
nextAt(u, i) == <<i, u.last[i] + 1>>
nextAll(u, D) == {nextAt(u, i) : i \in D \cap InRange}

\* An index that is freed is to be handed out again.
LEMMA FreeOne ==
  ASSUME NEW w \in Tables, FreeInv(w), w.count = 0, NEW i \in InRange,
         \A e \in toHandOut(w) : index(e) # i, NEW z, z = free(w, i)
  PROVE  FreeInv(z) /\ toHandOut(z) = toHandOut(w) \cup {nextAt(w, i)} /\ handedOut(z) = {}
<1>1. i \in Indices
  BY DEF Indices
<1>2. z \in Tables /\ z.count = 0 /\ z.fresh = w.fresh
  BY <1>1, FreeTypes
<1>3. z.free = Append(w.free, nextAt(w, i))
  BY <1>1, FreeTypes DEF nextAt
<1>4. nextAt(w, i) \in Pairs /\ index(nextAt(w, i)) = i
  <2>1. w.last[i] \in Nat
    BY <1>1 DEF Tables
  <2> QED BY <2>1, Parts DEF nextAt
<1>5. \A e \in toHandOut(w) : index(e) # index(nextAt(w, i))
  BY <1>4
<1> QED BY <1>2, <1>3, <1>4, <1>5, Appended

\* What the table w is when the first n indices of q are freed.
freed(u, q, n) == {nextAt(u, q[m]) : m \in {x \in 1..n : q[x] \in InRange}}
Freed(u, q, w, n) ==
  /\ w \in Tables /\ FreeInv(w) /\ w.count = 0 /\ sameSlots(w, u) /\ w.last = u.last
  /\ toHandOut(w) = toHandOut(u) \cup freed(u, q, n)

\* Freeing the next index.
LEMMA FreeStep ==
  ASSUME NEW u \in Tables, NEW q \in Seq(Indices), IsInjective(q),
         \A e \in toHandOut(u) : index(e) \notin ToSet(q),
         NEW n \in 1..Len(q), NEW w, Freed(u, q, w, n - 1), NEW z, z = free(w, q[n])
  PROVE  Freed(u, q, z, n)
<1>1. Len(q) \in Nat /\ DOMAIN q = 1..Len(q) /\ \A m \in 1..Len(q) : q[m] \in Indices
  BY LenProperties, ElementOfSeq
<1>2. n \in Nat /\ 1..n = (1..n - 1) \cup {n} /\ (\A m \in 1..n - 1 : m \in 1..Len(q) /\ m # n)
  BY <1>1
<1>3. PICK i \in Indices : i = q[n]
  BY <1>1
<1>4. /\ w \in Tables /\ FreeInv(w) /\ w.count = 0 /\ sameSlots(w, u) /\ w.last = u.last
      /\ toHandOut(w) = toHandOut(u) \cup freed(u, q, n - 1)
  BY DEF Freed
<1>5. z \in Tables /\ z.count = 0 /\ sameSlots(z, u) /\ z.last = u.last
  <2>1. z \in Tables /\ z.count = w.count /\ sameSlots(z, w) /\ z.last = w.last
    BY <1>3, <1>4, FreeTypes
  <2> QED BY <1>4, <2>1 DEF sameSlots
<1>6. CASE i \notin InRange
  <2>1. z = w
    BY <1>3, <1>4, <1>6, FreeTypes
  <2>2. {x \in 1..n : q[x] \in InRange} = {x \in 1..n - 1 : q[x] \in InRange}
    BY <1>2, <1>3, <1>6
  <2>3. freed(u, q, n) = freed(u, q, n - 1)
    BY <2>2 DEF freed
  <2> QED BY <1>4, <2>1, <2>3 DEF Freed
<1>7. CASE i \in InRange
  <2>1. {x \in 1..n : q[x] \in InRange} = {x \in 1..n - 1 : q[x] \in InRange} \cup {n}
    BY <1>2, <1>3, <1>7
  <2>2. freed(u, q, n) = freed(u, q, n - 1) \cup {nextAt(u, i)}
    BY <1>3, <2>1 DEF freed
  <2>3. \A e \in toHandOut(u) : index(e) # i
    BY <1>1, <1>3 DEF ToSet
  <2>4. ASSUME NEW e \in freed(u, q, n - 1) PROVE index(e) # i
    <3>1. PICK m \in 1..n - 1 : e = nextAt(u, q[m])
      BY DEF freed
    <3>2. index(e) = q[m]
      BY <3>1, Parts DEF nextAt
    <3>3. q[m] # q[n]
      BY <1>1, <1>2 DEF IsInjective
    <3> QED BY <1>3, <3>2, <3>3
  <2>5. \A e \in toHandOut(w) : index(e) # i
    BY <1>4, <2>3, <2>4
  <2>6. FreeInv(z) /\ toHandOut(z) = toHandOut(w) \cup {nextAt(w, i)}
    BY <1>3, <1>4, <1>7, <2>5, FreeOne
  <2>7. nextAt(w, i) = nextAt(u, i)
    BY <1>4 DEF nextAt
  <2> QED BY <1>4, <1>5, <2>2, <2>6, <2>7 DEF Freed
<1> QED BY <1>6, <1>7

\* The indices despawned in a window are to be handed out again at its end.
LEMMA FreedAll ==
  ASSUME NEW u \in Tables, FreeInv(u), u.count = 0, NEW q \in Seq(Indices), IsInjective(q),
         \A e \in toHandOut(u) : index(e) \notin ToSet(q), NEW z, z = freeAll(u, q)
  PROVE  /\ z \in Tables /\ FreeInv(z) /\ z.count = 0 /\ handedOut(z) = {}
         /\ sameSlots(z, u) /\ z.last = u.last
         /\ toHandOut(z) = toHandOut(u) \cup nextAll(u, ToSet(q))
<1>1. Len(q) \in Nat /\ DOMAIN q = 1..Len(q)
  BY LenProperties
<1>2. FreeStays(Tables, Indices)
  BY FreeTypes DEF FreeStays
<1>3. PICK f : /\ f \in [0..Len(q) -> Tables] /\ f[0] = u /\ f[Len(q)] = freeAll(u, q)
               /\ \A n \in 1..Len(q) : f[n] = free(f[n - 1], q[n])
  <2>1. PICK f : FreePath(f, Tables, u, q)
    BY <1>2, FreeFolded
  <2> QED BY <2>1 DEF FreePath
<1>4. Freed(u, q, u, 0)
  <2>1. freed(u, q, 0) = {}
    BY DEF freed
  <2> QED BY <2>1 DEF Freed, sameSlots
<1>5. PICK S : S = {n \in 0..Len(q) : Freed(u, q, f[n], n)}
  OBVIOUS
<1>6. 0 \in S
  BY <1>1, <1>3, <1>4, <1>5
<1>7. ASSUME NEW n \in 1..Len(q), n - 1 \in S PROVE n \in S
  <2>1. Freed(u, q, f[n - 1], n - 1) /\ f[n] = free(f[n - 1], q[n])
    BY <1>3, <1>5, <1>7
  <2>2. Freed(u, q, f[n], n)
    BY <2>1, FreeStep
  <2> QED BY <1>1, <1>5, <2>2
<1>8. Freed(u, q, z, Len(q))
  <2>1. \A n \in 0..Len(q) : n \in S
    BY <1>1, <1>6, <1>7, UpTo
  <2> QED BY <1>1, <1>3, <1>5, <2>1
<1>9. freed(u, q, Len(q)) = nextAll(u, ToSet(q))
  BY <1>1 DEF freed, ToSet, nextAll
<1>10. handedOut(z) = {}
  BY <1>8, NoneTaken DEF Freed
<1> QED BY <1>8, <1>9, <1>10 DEF Freed

-----------------------------------------------------------------------------
(* What keeps the invariant of the table *)

\* What is handed out depends on the free list, the fresh indices and the count.
LEMMA SameHandOuts ==
  ASSUME NEW t, NEW u, u.free = t.free, u.fresh = t.fresh, u.count = t.count
  PROVE  /\ toHandOut(u) = toHandOut(t) /\ handedOut(u) = handedOut(t)
         /\ FreeInv(t) => FreeInv(u)
<1>1. takenFree(u) = takenFree(t)
  BY DEF takenFree
<1>2. takenFresh(u) = takenFresh(t)
  BY <1>1 DEF takenFresh
<1>3. untaken(u) = untaken(t)
  BY <1>1 DEF untaken
<1>4. taken(u) = taken(t)
  BY <1>2, <1>3 DEF taken
<1> QED BY <1>2, <1>3, <1>4 DEF toHandOut, handedOut, FreeInv

\* The waiting entity of an index is the one of its next generation.
LEMMA OneWaits ==
  ASSUME NEW t, NEW fates, FatesInv(t, fates), NEW d \in Entities, NEW e \in Entities,
         waits(fates, d), waits(fates, e), index(d) = index(e)
  PROVE  d = e
<1>1. generation(d) = generation(e)
  BY DEF FatesInv
<1> QED BY <1>1, Parts

\* Settling in a world that does not observe.
LEMMA SettleKeeps ==
  ASSUME NEW t, NEW fates, TableInv(t, fates), ~t.observing, NEW u, u = settleReservations(t, FALSE)
  PROVE  /\ TableInv(u, fates) /\ u.count = 0 /\ toHandOut(u) = toHandOut(t) /\ handedOut(u) = {}
         /\ sameSlots(u, t) /\ u.last = t.last
<1>1. t \in Tables /\ FreeInv(t)
  BY DEF TableInv
<1>2. PICK j, x : j = untaken(t) /\ x = t.fresh + takenFresh(t)
  OBVIOUS
<1>3. u = [t EXCEPT !.free = j, !.fresh = x, !.count = 0]
  <2>1. u = [[t EXCEPT !.free = j] EXCEPT !.fresh = @ + takenFresh(t), !.count = 0]
    BY <1>2 DEF settleReservations
  <2> QED BY <1>1, <1>2, <2>1 DEF Tables
<1>4. j \in Seq(Pairs) /\ x \in FirstIndex..LastIndex + 1
  <2>1. j \in Seq(Pairs)
    BY <1>1, <1>2, Counts
  <2>2. PICK n : n = takenFresh(t)
    OBVIOUS
  <2>3. n \in Nat /\ t.fresh \in Int /\ t.fresh + n <= LastIndex + 1 /\ FirstIndex <= t.fresh
    BY <1>1, <2>2, Counts
  <2>4. FirstIndex \in Nat /\ LastIndex \in Nat
    BY EntityTableAssumption
  <2> QED BY <1>2, <2>1, <2>2, <2>3, <2>4
<1>5. u \in Tables
  BY ONLY <1>1, <1>3, <1>4 DEF Tables
<1>6. u.free = j /\ u.fresh = x /\ u.count = 0 /\ sameSlots(u, t) /\ u.last = t.last
  BY ONLY <1>1, <1>3 DEF Tables, sameSlots
<1>7. FreeInv(u) /\ toHandOut(u) = toHandOut(t) /\ handedOut(u) = {}
  BY <1>1, <1>2, <1>5, <1>6, Settled
<1>8. /\ u.live = t.live /\ u.mask = t.mask /\ u.observing = t.observing
      /\ u.despawned = t.despawned /\ u.outside = t.outside
  BY <1>6 DEF sameSlots
<1>9. FreshInv(u, fates)
  BY <1>6, <1>7, <1>8 DEF TableInv, FreshInv
<1>10. TakenInv(u, fates)
  <2>1. TakenInv(t, fates)
    BY DEF TableInv
  <2> QED BY <1>7, <2>1 DEF TakenInv
<1>11. FatesInv(u, fates)
  BY <1>6, <1>8 DEF TableInv, FatesInv
<1>12. SlotsInv(u)
  BY <1>6, <1>8 DEF TableInv, SlotsInv
<1>13. PlacesInv(u, fates)
  BY <1>7, <1>8 DEF TableInv, PlacesInv
<1>14. fates \in [Entities -> Fates]
  BY DEF TableInv
<1> QED BY <1>5, <1>6, <1>7, <1>9, <1>10, <1>11, <1>12, <1>13, <1>14 DEF TableInv

\* The fate of what is reserved, and an entity given one.
newFate(t) == IF t.observing THEN "waiting" ELSE "early"
fated(fates, e, x) == [fates EXCEPT ![e] = x]

\* A reservation waits from now on.
LEMMA ReserveKeeps ==
  ASSUME NEW t, NEW fates, TableInv(t, fates), NEW u, u = reserve(t).table, NEW e, e = reserve(t).entity,
         generation(e) <= MaxGeneration,
         NEW new, new = newFate(t),
         NEW after, after = fated(fates, e, new)
  PROVE  /\ u = [t EXCEPT !.count = @ + 1] /\ sameSlots(u, t) /\ u.last = t.last
         /\ e = NoEntity => TableInv(u, fates)
         /\ e # NoEntity => e \in Entities /\ e \in toHandOut(t) /\ TableInv(u, after)
<1> USE DEF newFate, fated
<1>1. t \in Tables /\ FreeInv(t) /\ fates \in [Entities -> Fates]
  BY DEF TableInv
<1>2. /\ u = [t EXCEPT !.count = @ + 1] /\ u \in Tables /\ FreeInv(u)
      /\ e = NoEntity => toHandOut(u) = toHandOut(t) /\ handedOut(u) = handedOut(t)
      /\ e # NoEntity => /\ e \in toHandOut(t) /\ toHandOut(u) = toHandOut(t) \ {e}
                         /\ handedOut(u) = handedOut(t) \cup {e}
  BY <1>1, Reserved
<1>3. sameSlots(u, t) /\ u.last = t.last
  BY <1>1, <1>2 DEF Tables, sameSlots
<1>4. /\ u.live = t.live /\ u.mask = t.mask /\ u.observing = t.observing
      /\ u.despawned = t.despawned /\ u.outside = t.outside
  BY <1>3 DEF sameSlots
<1>5. SlotsInv(u)
  BY <1>3, <1>4 DEF TableInv, SlotsInv
<1>6. FreshInv(t, fates) /\ TakenInv(t, fates) /\ FatesInv(t, fates) /\ PlacesInv(t, fates)
  BY DEF TableInv
<1>7. CASE e = NoEntity
  <2>1. FreshInv(u, fates)
    BY <1>2, <1>3, <1>4, <1>6, <1>7 DEF FreshInv
  <2>2. TakenInv(u, fates)
    BY <1>2, <1>3, <1>4, <1>6, <1>7 DEF TakenInv
  <2>3. FatesInv(u, fates)
    BY <1>3, <1>4, <1>6 DEF FatesInv
  <2>4. PlacesInv(u, fates)
    BY <1>2, <1>4, <1>6, <1>7 DEF PlacesInv
  <2> QED BY <1>1, <1>2, <1>3, <1>5, <1>7, <2>1, <2>2, <2>3, <2>4 DEF TableInv
<1>8. CASE e # NoEntity
  <2>1. /\ e \in toHandOut(t) /\ toHandOut(u) = toHandOut(t) \ {e}
        /\ handedOut(u) = handedOut(t) \cup {e}
    BY <1>2, <1>8
  <2>2. /\ generation(e) = t.last[index(e)] + 1 /\ t.live[index(e)] = 0
        /\ ~held(fates, index(e)) /\ index(e) \notin ToSet(t.despawned)
    BY <1>6, <2>1 DEF FreshInv
  <2>3. e \in Pairs
    BY <1>1, <2>1, Counts
  <2>4. e \in Entities
    <3>1. t.last[index(e)] \in Nat
      BY <1>1, <2>3, Parts DEF Tables
    <3>2. generation(e) \in 1..MaxGeneration
      BY <2>2, <3>1, EntityTableAssumption
    <3> QED BY <2>3, <3>2, Parts
  <2>5. new \in {"early", "waiting"} /\ (new = "waiting" <=> t.observing)
    OBVIOUS
  <2>6. /\ after \in [Entities -> Fates] /\ after[e] = new
        /\ \A d \in Entities : d # e => after[d] = fates[d]
    BY <1>1, <2>4, <2>5 DEF Fates
  <2>7. \A d \in Entities : waits(after, d) <=> (d = e \/ waits(fates, d))
    BY <2>4, <2>5, <2>6 DEF waits
  <2>8. \A i : held(after, i) <=> (i = index(e) \/ held(fates, i))
    BY <2>4, <2>7 DEF held
  <2>9. \A d \in toHandOut(t) \cup handedOut(t) : index(d) = index(e) => d = e
    BY <1>1, <2>1, HandOutsApart
  <2>10. e \notin handedOut(t)
    BY <1>1, <2>1, HandOutsApart
  <2>11. FreshInv(u, after)
    BY <1>3, <1>4, <1>6, <2>1, <2>8, <2>9 DEF FreshInv
  <2>12. TakenInv(u, after)
    <3>1. ASSUME NEW d \in handedOut(u)
          PROVE  /\ d \in Entities
                 /\ waits(after, d) \/ (u.last[index(d)] = generation(d) /\ ~held(after, index(d)))
                 /\ u.observing => after[d] # "early"
      <4>1. CASE d = e
        <5>1. waits(after, d) /\ d \in Entities
          BY <2>4, <2>7, <4>1
        <5>2. u.observing => after[d] = "waiting"
          BY <1>4, <2>5, <2>6, <4>1
        <5> QED BY <5>1, <5>2
      <4>2. CASE d # e
        <5>1. d \in handedOut(t) /\ index(d) # index(e)
          BY <2>1, <2>9, <4>2
        <5>2. /\ d \in Entities
              /\ waits(fates, d) \/ (t.last[index(d)] = generation(d) /\ ~held(fates, index(d)))
              /\ t.observing => fates[d] # "early"
          BY <1>6, <5>1 DEF TakenInv
        <5> QED BY <1>3, <1>4, <2>6, <2>7, <2>8, <4>2, <5>1, <5>2
      <4> QED BY <4>1, <4>2
    <3>2. ASSUME NEW d \in Entities, after[d] = "waiting" PROVE u.observing /\ d \in handedOut(u)
      BY <1>4, <1>6, <2>1, <2>5, <2>6, <3>2 DEF TakenInv
    <3> QED BY <3>1, <3>2 DEF TakenInv
  <2>13. FatesInv(u, after)
    <3>1. ASSUME NEW d \in Entities
          PROVE  /\ after[d] = "alive" <=> u.live[index(d)] = generation(d)
                 /\ waits(after, d) =>
                      /\ index(d) \in InRange /\ u.live[index(d)] = 0
                      /\ generation(d) = u.last[index(d)] + 1
                      /\ index(d) \notin ToSet(u.despawned)
                 /\ index(d) \in InRange /\ after[d] \in {"ended", "burned"} =>
                      generation(d) <= u.last[index(d)]
      <4>1. CASE d = e
        <5>1. generation(d) # 0 /\ index(d) \in InRange
          BY <2>3, <4>1, Parts
        <5> QED BY <1>3, <1>4, <2>2, <2>5, <2>6, <4>1, <5>1
      <4>2. CASE d # e
        BY <1>3, <1>4, <1>6, <2>6, <2>7, <4>2 DEF FatesInv
      <4> QED BY <4>1, <4>2
    <3> QED BY <3>1 DEF FatesInv
  <2>14. PlacesInv(u, after)
    BY <1>4, <1>6, <2>1, <2>8 DEF PlacesInv
  <2> QED BY <1>2, <1>3, <1>5, <1>8, <2>1, <2>4, <2>6, <2>11, <2>12, <2>13, <2>14 DEF TableInv
<1> QED BY <1>7, <1>8

\* An entity comes alive: one that waits for it, or one outside of the range.
LEMMA AliveKeeps ==
  ASSUME NEW t, NEW fates, TableInv(t, fates), NEW e \in Entities, t.live[index(e)] = 0,
         index(e) \notin ToSet(t.despawned), index(e) \in InRange => waits(fates, e),
         NEW u, u = setAlive(t, e), NEW after, after = [fates EXCEPT ![e] = "alive"]
  PROVE  /\ TableInv(u, after) /\ toHandOut(u) = toHandOut(t) /\ handedOut(u) = handedOut(t)
         /\ u.live = [t.live EXCEPT ![index(e)] = generation(e)]
         /\ u.mask = t.mask /\ u.observing = t.observing /\ u.despawned = t.despawned
<1>1. t \in Tables /\ FreeInv(t) /\ fates \in [Entities -> Fates]
  BY DEF TableInv
<1>2. PICK i, g : i = index(e) /\ g = generation(e)
  OBVIOUS
<1>3. i \in Indices /\ g \in Nat /\ g # 0 /\ g <= MaxGeneration
  BY <1>2, Parts, EntityTableAssumption
<1>4. PICK l, m : l = [t.live EXCEPT ![i] = g] /\ m = [t.last EXCEPT ![i] = g]
  OBVIOUS
<1>5. u = [t EXCEPT !.live = l, !.last = m]
  BY <1>2, <1>4 DEF setAlive
<1>6. l \in [Indices -> Nat] /\ m \in [Indices -> Nat]
  BY <1>1, <1>3, <1>4 DEF Tables
<1>7. /\ u \in Tables /\ u.live = l /\ u.last = m
      /\ u.free = t.free /\ u.fresh = t.fresh /\ u.count = t.count
      /\ u.mask = t.mask /\ u.observing = t.observing /\ u.despawned = t.despawned /\ u.outside = t.outside
  <2>1. u \in Tables
    BY ONLY <1>1, <1>5, <1>6 DEF Tables
  <2> QED BY ONLY <1>1, <1>5, <2>1 DEF Tables
<1>8. /\ \A x \in Indices : l[x] = IF x = i THEN g ELSE t.live[x]
      /\ \A x \in Indices : m[x] = IF x = i THEN g ELSE t.last[x]
  BY <1>1, <1>4 DEF Tables
<1>9. toHandOut(u) = toHandOut(t) /\ handedOut(u) = handedOut(t) /\ FreeInv(u)
  BY <1>1, <1>7, SameHandOuts
<1>10. FreshInv(t, fates) /\ TakenInv(t, fates) /\ FatesInv(t, fates) /\ PlacesInv(t, fates) /\ SlotsInv(t)
  BY DEF TableInv
<1>11. /\ after \in [Entities -> Fates] /\ after[e] = "alive"
       /\ \A d \in Entities : d # e => after[d] = fates[d]
  BY <1>1 DEF Fates
<1>12. \A d \in Entities : waits(after, d) => d # e /\ waits(fates, d)
  BY <1>11 DEF waits
<1>13. \A d \in Entities : d # e /\ waits(fates, d) => waits(after, d)
  BY <1>11 DEF waits
<1>14. \A x : held(after, x) => held(fates, x)
  BY <1>12 DEF held
<1>15. \A x : held(fates, x) /\ x # i => held(after, x)
  BY <1>2, <1>13 DEF held
<1>16. \A d \in Entities : waits(fates, d) /\ index(d) = i => d = e
  <2>1. ASSUME NEW d \in Entities, waits(fates, d), index(d) = i PROVE d = e
    <3>1. index(d) \in InRange
      BY <1>10, <2>1 DEF FatesInv
    <3>2. waits(fates, e)
      BY <1>2, <2>1, <3>1
    <3> QED BY <1>2, <1>10, <2>1, <3>2, OneWaits
  <2> QED BY <2>1
<1>17. ~held(after, i)
  BY <1>12, <1>16 DEF held
<1>18. i \in InRange => g = t.last[i] + 1
  BY <1>2, <1>10 DEF FatesInv
<1>19. FreshInv(u, after)
  <2>1. ASSUME NEW d \in toHandOut(t)
        PROVE  /\ generation(d) = u.last[index(d)] + 1 /\ u.live[index(d)] = 0
               /\ ~held(after, index(d)) /\ index(d) \notin ToSet(u.despawned)
    <3>1. /\ generation(d) = t.last[index(d)] + 1 /\ t.live[index(d)] = 0
          /\ ~held(fates, index(d)) /\ index(d) \notin ToSet(t.despawned)
      BY <1>10 DEF FreshInv
    <3>2. index(d) \in InRange /\ index(d) \in Indices
      <4>1. d \in Pairs
        BY <1>1, Counts
      <4> QED BY <4>1, Parts
    <3>3. index(d) # i
      <4>1. CASE i \in InRange
        <5>1. held(fates, i)
          BY <1>2, <4>1 DEF held
        <5> QED BY <3>1, <5>1
      <4>2. CASE i \notin InRange
        BY <3>2, <4>2
      <4> QED BY <4>1, <4>2
    <3> QED BY <1>7, <1>8, <1>14, <3>1, <3>2, <3>3
  <2> QED BY <1>9, <2>1 DEF FreshInv
<1>20. TakenInv(u, after)
  <2>1. ASSUME NEW d \in handedOut(t)
        PROVE  /\ d \in Entities
               /\ waits(after, d) \/ (u.last[index(d)] = generation(d) /\ ~held(after, index(d)))
               /\ u.observing => after[d] # "early"
    <3>1. /\ d \in Entities
          /\ waits(fates, d) \/ (t.last[index(d)] = generation(d) /\ ~held(fates, index(d)))
          /\ t.observing => fates[d] # "early"
      BY <1>10 DEF TakenInv
    <3>2. index(d) \in InRange /\ index(d) \in Indices
      <4>1. d \in Pairs
        BY <1>1, Counts
      <4> QED BY <4>1, Parts
    <3>3. CASE d = e
      BY <1>2, <1>3, <1>7, <1>8, <1>11, <1>17, <3>1, <3>3
    <3>4. CASE d # e
      <4>1. index(d) # i
        <5>1. ASSUME index(d) = i PROVE FALSE
          <6>1. waits(fates, e) /\ held(fates, i)
            BY <1>2, <3>2, <5>1 DEF held
          <6>2. waits(fates, d)
            BY <3>1, <5>1, <6>1
          <6> QED BY <1>16, <3>1, <3>4, <5>1, <6>2
        <5> QED BY <5>1
      <4>2. u.last[index(d)] = t.last[index(d)]
        BY <1>7, <1>8, <3>2, <4>1
      <4> QED BY <1>7, <1>11, <1>13, <1>14, <3>1, <3>4, <4>2
    <3> QED BY <3>3, <3>4
  <2>2. ASSUME NEW d \in Entities, after[d] = "waiting" PROVE u.observing /\ d \in handedOut(t)
    <3>1. fates[d] = "waiting"
      BY <1>11, <2>2
    <3> QED BY <1>7, <1>10, <3>1 DEF TakenInv
  <2> QED BY <1>9, <2>1, <2>2 DEF TakenInv
<1>21. FatesInv(u, after)
  <2>1. ASSUME NEW d \in Entities
        PROVE  /\ after[d] = "alive" <=> u.live[index(d)] = generation(d)
               /\ waits(after, d) =>
                    /\ index(d) \in InRange /\ u.live[index(d)] = 0
                    /\ generation(d) = u.last[index(d)] + 1
                    /\ index(d) \notin ToSet(u.despawned)
               /\ index(d) \in InRange /\ after[d] \in {"ended", "burned"} =>
                    generation(d) <= u.last[index(d)]
    <3>1. index(d) \in Indices /\ generation(d) \in Nat /\ generation(d) # 0
      BY Parts
    <3>2. /\ fates[d] = "alive" <=> t.live[index(d)] = generation(d)
          /\ waits(fates, d) =>
               /\ index(d) \in InRange /\ t.live[index(d)] = 0
               /\ generation(d) = t.last[index(d)] + 1
               /\ index(d) \notin ToSet(t.despawned)
          /\ index(d) \in InRange /\ fates[d] \in {"ended", "burned"} =>
               generation(d) <= t.last[index(d)]
      BY <1>10 DEF FatesInv
    <3>3. CASE d = e
      BY <1>2, <1>3, <1>7, <1>8, <1>11, <1>12, <3>3
    <3>4. CASE d # e /\ index(d) # i
      BY <1>7, <1>8, <1>11, <1>12, <3>1, <3>2, <3>4
    <3>5. CASE d # e /\ index(d) = i
      <4>1. generation(d) # g
        BY <1>2, <3>5, Parts
      <4>2. fates[d] # "alive" /\ after[d] # "alive" /\ u.live[i] = g /\ u.last[i] = g
        BY <1>2, <1>3, <1>7, <1>8, <1>11, <3>1, <3>2, <3>5
      <4>3. ~waits(after, d)
        BY <1>12, <1>16, <3>5
      <4>4. index(d) \in InRange /\ after[d] \in {"ended", "burned"} => generation(d) <= g
        <5>1. ASSUME index(d) \in InRange, after[d] \in {"ended", "burned"} PROVE generation(d) <= g
          <6>1. generation(d) <= t.last[i] /\ g = t.last[i] + 1
            BY <1>11, <1>18, <3>2, <3>5, <5>1
          <6>2. t.last[i] \in Nat
            BY <1>1, <1>3 DEF Tables
          <6> QED BY <3>1, <6>1, <6>2
        <5> QED BY <5>1
      <4> QED BY <3>5, <4>1, <4>2, <4>3, <4>4
    <3> QED BY <3>3, <3>4, <3>5
  <2> QED BY <2>1 DEF FatesInv
<1>22. SlotsInv(u)
  <2>1. \A x \in Indices :
          /\ u.live[x] # 0 => u.last[x] = u.live[x] /\ u.live[x] <= MaxGeneration
          /\ u.live[x] = 0 => u.mask[x] = {}
    BY <1>3, <1>7, <1>8, <1>10 DEF SlotsInv
  <2>2. /\ IsInjective(u.despawned) /\ u.outside = ToSet(u.despawned) \ InRange
        /\ ~u.observing => u.despawned = <<>>
    BY <1>7, <1>10 DEF SlotsInv
  <2>3. \A x \in ToSet(u.despawned) : u.live[x] = 0
    <3>1. \A x \in ToSet(t.despawned) : x \in Indices
      BY <1>1 DEF Tables, ToSet
    <3> QED BY <1>2, <1>7, <1>8, <1>10, <3>1 DEF SlotsInv
  <2> QED BY <2>1, <2>2, <2>3 DEF SlotsInv
<1>23. PlacesInv(u, after)
  <2>1. ASSUME NEW x \in InRange
        PROVE  \/ \E d \in toHandOut(u) : index(d) = x
               \/ held(after, x) \/ u.live[x] # 0 \/ x \in ToSet(u.despawned)
    <3>1. x \in Indices
      BY DEF Indices
    <3>2. CASE x = i
      BY <1>3, <1>7, <1>8, <3>1, <3>2
    <3>3. CASE x # i
      <4>1. u.live[x] = t.live[x]
        BY <1>7, <1>8, <3>1, <3>3
      <4> QED BY <1>7, <1>9, <1>10, <1>15, <3>3, <4>1 DEF PlacesInv
    <3> QED BY <3>2, <3>3
  <2> QED BY <2>1 DEF PlacesInv
<1> QED BY <1>2, <1>4, <1>7, <1>9, <1>11, <1>19, <1>20, <1>21, <1>22, <1>23 DEF TableInv

\* An entity is gone: its index waits for the end of the window, or is free.
LEMMA GoneKeeps ==
  ASSUME NEW t, NEW fates, TableInv(t, fates), NEW e \in Entities, alive(t, e), NEW i, i = index(e),
         NEW u \in Tables, FreeInv(u), u.last = t.last, u.observing = t.observing,
         u.live = [t.live EXCEPT ![i] = 0], u.mask = [t.mask EXCEPT ![i] = {}],
         handedOut(u) \subseteq handedOut(t), t.observing => handedOut(u) = handedOut(t),
         IsInjective(u.despawned), u.outside = ToSet(u.despawned) \ InRange,
         t.observing => toHandOut(u) = toHandOut(t) /\ ToSet(u.despawned) = ToSet(t.despawned) \cup {i},
         ~t.observing => /\ toHandOut(u) = toHandOut(t) \cup {nextAt(t, x) : x \in {i} \cap InRange}
                         /\ u.despawned = <<>>,
         NEW after, after = [fates EXCEPT ![e] = "ended"]
  PROVE  TableInv(u, after)
<1>1. t \in Tables /\ FreeInv(t) /\ fates \in [Entities -> Fates]
  BY DEF TableInv
<1>2. PICK g : g = generation(e)
  OBVIOUS
<1>3. i \in Indices /\ g \in Nat /\ g # 0 /\ t.live[i] = g
  BY <1>2, Parts DEF alive
<1>4. /\ \A x \in Indices : u.live[x] = IF x = i THEN 0 ELSE t.live[x]
      /\ \A x \in Indices : u.mask[x] = IF x = i THEN {} ELSE t.mask[x]
  BY <1>1 DEF Tables
<1>5. FreshInv(t, fates) /\ TakenInv(t, fates) /\ FatesInv(t, fates) /\ PlacesInv(t, fates) /\ SlotsInv(t)
  BY DEF TableInv
<1>6. t.last[i] = g /\ fates[e] = "alive"
  BY <1>2, <1>3, <1>5 DEF SlotsInv, FatesInv
<1>7. /\ after \in [Entities -> Fates] /\ after[e] = "ended"
      /\ \A d \in Entities : d # e => after[d] = fates[d]
  BY <1>1 DEF Fates
<1>8. \A d \in Entities : waits(after, d) <=> waits(fates, d)
  BY <1>6, <1>7 DEF waits
<1>9. \A x : held(after, x) <=> held(fates, x)
  BY <1>8 DEF held
<1>10. ~held(fates, i)
  <2>1. \A d \in Entities : waits(fates, d) => t.live[index(d)] = 0
    BY <1>5 DEF FatesInv
  <2> QED BY <1>3, <2>1 DEF held
<1>11. /\ ToSet(u.despawned) \subseteq ToSet(t.despawned) \cup {i}
       /\ ~t.observing => ToSet(u.despawned) = {} /\ ToSet(t.despawned) = {}
       /\ ToSet(t.despawned) \subseteq ToSet(u.despawned)
  <2>1. ToSet(<<>>) = {}
    BY DEF ToSet
  <2>2. ~t.observing => t.despawned = <<>>
    BY <1>5 DEF SlotsInv
  <2> QED BY <2>1, <2>2
<1>12. \A d \in toHandOut(t) : index(d) # i /\ index(d) \in Indices
  <2>1. toHandOut(t) \subseteq Pairs
    BY <1>1, Counts
  <2> QED BY <1>3, <1>5, <2>1, Parts DEF FreshInv
<1>13. FreshInv(u, after)
  <2>1. ASSUME NEW d \in toHandOut(t)
        PROVE  /\ generation(d) = u.last[index(d)] + 1 /\ u.live[index(d)] = 0
               /\ ~held(after, index(d)) /\ index(d) \notin ToSet(u.despawned)
    <3>1. /\ generation(d) = t.last[index(d)] + 1 /\ t.live[index(d)] = 0
          /\ ~held(fates, index(d)) /\ index(d) \notin ToSet(t.despawned)
      BY <1>5 DEF FreshInv
    <3> QED BY <1>4, <1>9, <1>11, <1>12, <3>1
  <2>2. ASSUME NEW d, ~t.observing, d = nextAt(t, i)
        PROVE  /\ generation(d) = u.last[index(d)] + 1 /\ u.live[index(d)] = 0
               /\ ~held(after, index(d)) /\ index(d) \notin ToSet(u.despawned)
    <3>1. index(d) = i /\ generation(d) = t.last[i] + 1
      BY <2>2, Parts DEF nextAt
    <3> QED BY <1>3, <1>4, <1>9, <1>10, <1>11, <2>2, <3>1
  <2>3. \A d \in toHandOut(u) : d \in toHandOut(t) \/ (~t.observing /\ d = nextAt(t, i))
    OBVIOUS
  <2> QED BY <2>1, <2>2, <2>3 DEF FreshInv
<1>14. TakenInv(u, after)
  <2>1. ASSUME NEW d \in handedOut(u)
        PROVE  /\ d \in Entities
               /\ waits(after, d) \/ (u.last[index(d)] = generation(d) /\ ~held(after, index(d)))
               /\ u.observing => after[d] # "early"
    <3>1. /\ d \in Entities
          /\ waits(fates, d) \/ (t.last[index(d)] = generation(d) /\ ~held(fates, index(d)))
          /\ t.observing => fates[d] # "early"
      BY <1>5 DEF TakenInv
    <3>2. after[d] = "early" => fates[d] = "early"
      BY <1>7, <3>1
    <3> QED BY <1>8, <1>9, <3>1, <3>2
  <2>2. ASSUME NEW d \in Entities, after[d] = "waiting" PROVE u.observing /\ d \in handedOut(u)
    <3>1. fates[d] = "waiting"
      BY <1>7, <2>2
    <3>2. t.observing /\ d \in handedOut(t)
      BY <1>5, <3>1 DEF TakenInv
    <3> QED BY <3>2
  <2> QED BY <2>1, <2>2 DEF TakenInv
<1>15. FatesInv(u, after)
  <2>1. ASSUME NEW d \in Entities
        PROVE  /\ after[d] = "alive" <=> u.live[index(d)] = generation(d)
               /\ waits(after, d) =>
                    /\ index(d) \in InRange /\ u.live[index(d)] = 0
                    /\ generation(d) = u.last[index(d)] + 1
                    /\ index(d) \notin ToSet(u.despawned)
               /\ index(d) \in InRange /\ after[d] \in {"ended", "burned"} =>
                    generation(d) <= u.last[index(d)]
    <3>1. index(d) \in Indices /\ generation(d) \in Nat /\ generation(d) # 0
      BY Parts
    <3>2. /\ fates[d] = "alive" <=> t.live[index(d)] = generation(d)
          /\ waits(fates, d) =>
               /\ index(d) \in InRange /\ t.live[index(d)] = 0
               /\ generation(d) = t.last[index(d)] + 1
               /\ index(d) \notin ToSet(t.despawned)
          /\ index(d) \in InRange /\ fates[d] \in {"ended", "burned"} =>
               generation(d) <= t.last[index(d)]
      BY <1>5 DEF FatesInv
    <3>3. CASE d = e
      <4>1. u.live[index(d)] = 0 /\ u.last[index(d)] = generation(d) /\ generation(d) <= u.last[index(d)]
        BY <1>2, <1>3, <1>4, <1>6, <3>3
      <4>2. ~waits(after, d)
        BY <1>7, <3>3 DEF waits
      <4> QED BY <1>7, <3>1, <3>3, <4>1, <4>2
    <3>4. CASE d # e /\ index(d) # i
      <4>1. u.live[index(d)] = t.live[index(d)] /\ (index(d) \in ToSet(u.despawned) => index(d) \in ToSet(t.despawned))
        BY <1>4, <1>11, <3>1, <3>4
      <4> QED BY <1>7, <1>8, <3>2, <3>4, <4>1
    <3>5. CASE d # e /\ index(d) = i
      <4>1. generation(d) # g
        BY <1>2, <3>5, Parts
      <4>2. fates[d] # "alive" /\ after[d] # "alive" /\ u.live[i] = 0
        BY <1>3, <1>4, <1>7, <3>2, <3>5, <4>1
      <4>3. ~waits(after, d)
        BY <1>8, <1>10, <3>5 DEF held
      <4> QED BY <1>7, <3>1, <3>2, <3>5, <4>2, <4>3
    <3> QED BY <3>3, <3>4, <3>5
  <2> QED BY <2>1 DEF FatesInv
<1>16. SlotsInv(u)
  <2>1. ASSUME NEW x \in Indices
        PROVE  /\ u.live[x] # 0 => u.last[x] = u.live[x] /\ u.live[x] <= MaxGeneration
               /\ u.live[x] = 0 => u.mask[x] = {}
    <3>1. /\ t.live[x] # 0 => t.last[x] = t.live[x] /\ t.live[x] <= MaxGeneration
          /\ t.live[x] = 0 => t.mask[x] = {}
      BY <1>5 DEF SlotsInv
    <3> QED BY <1>4, <3>1
  <2>2. \A x \in ToSet(u.despawned) : u.live[x] = 0
    <3>1. \A x \in ToSet(t.despawned) : x \in Indices /\ t.live[x] = 0
      BY <1>1, <1>5 DEF Tables, ToSet, SlotsInv
    <3> QED BY <1>3, <1>4, <1>11, <3>1
  <2> QED BY <2>1, <2>2 DEF SlotsInv
<1>17. PlacesInv(u, after)
  <2>1. ASSUME NEW x \in InRange
        PROVE  \/ \E d \in toHandOut(u) : index(d) = x
               \/ held(after, x) \/ u.live[x] # 0 \/ x \in ToSet(u.despawned)
    <3>1. x \in Indices
      BY DEF Indices
    <3>2. CASE x = i
      <4>1. CASE t.observing
        BY <3>2, <4>1
      <4>2. CASE ~t.observing
        <5>1. nextAt(t, i) \in toHandOut(u) /\ index(nextAt(t, i)) = i
          BY <3>2, <4>2, Parts DEF nextAt
        <5> QED BY <3>2, <5>1
      <4> QED BY <4>1, <4>2
    <3>3. CASE x # i
      <4>1. u.live[x] = t.live[x] /\ toHandOut(t) \subseteq toHandOut(u)
        BY <1>4, <3>1, <3>3
      <4>2. \/ \E d \in toHandOut(t) : index(d) = x
            \/ held(fates, x) \/ t.live[x] # 0 \/ x \in ToSet(t.despawned)
        BY <1>5 DEF PlacesInv
      <4> QED BY <1>9, <1>11, <4>1, <4>2
    <3> QED BY <3>2, <3>3
  <2> QED BY <2>1 DEF PlacesInv
<1> QED BY <1>7, <1>13, <1>14, <1>15, <1>16, <1>17 DEF TableInv

\* A sequence one longer.
LEMMA OneMore ==
  ASSUME NEW S, NEW q \in Seq(S), NEW x \in S
  PROVE  ToSet(Append(q, x)) = ToSet(q) \cup {x}
<1>1. PICK N : N = Len(q)
  OBVIOUS
<1>2. N \in Nat /\ DOMAIN q = 1..N
  BY <1>1, LenProperties
<1>3. PICK p : p = Append(q, x)
  OBVIOUS
<1>4. p \in Seq(S) /\ Len(p) = N + 1 /\ (\A n \in 1..N : p[n] = q[n]) /\ p[N + 1] = x
  BY <1>1, <1>2, <1>3, AppendProperties
<1>5. DOMAIN p = (1..N) \cup {N + 1}
  BY <1>2, <1>4, LenProperties
<1>6. ToSet(p) = ToSet(q) \cup {x}
  BY <1>2, <1>4, <1>5 DEF ToSet
<1> QED BY <1>3, <1>6

\* It has nothing twice if what is appended is new.
LEMMA OneMoreOnce ==
  ASSUME NEW S, NEW q \in Seq(S), NEW x \in S, IsInjective(q), x \notin ToSet(q)
  PROVE  IsInjective(Append(q, x))
<1>1. PICK N : N = Len(q)
  OBVIOUS
<1>2. N \in Nat /\ DOMAIN q = 1..N
  BY <1>1, LenProperties
<1>3. PICK p : p = Append(q, x)
  OBVIOUS
<1>4. p \in Seq(S) /\ Len(p) = N + 1 /\ (\A n \in 1..N : p[n] = q[n]) /\ p[N + 1] = x
  BY <1>1, <1>2, <1>3, AppendProperties
<1>5. DOMAIN p = (1..N) \cup {N + 1} /\ N + 1 \notin 1..N
  BY <1>2, <1>4, LenProperties
<1>6. IsInjective(p)
  BY <1>2, <1>4, <1>5 DEF ToSet, IsInjective
<1> QED BY <1>3, <1>6

\* The slot of an index emptied, in a world that observes until the window ends.
emptiedSlot(u, t, i) ==
  /\ u.live = [t.live EXCEPT ![i] = 0] /\ u.mask = [t.mask EXCEPT ![i] = {}]
  /\ u.observing = t.observing
  /\ t.observing => ToSet(u.despawned) = ToSet(t.despawned) \cup {i}
  /\ ~t.observing => u.despawned = t.despawned

\* despawn.
LEMMA DespawnKeeps ==
  ASSUME NEW t, NEW fates, TableInv(t, fates), NEW e \in Entities, alive(t, e),
         NEW u, u = despawn(t, e), NEW after, after = [fates EXCEPT ![e] = "ended"]
  PROVE  TableInv(u, after) /\ emptiedSlot(u, t, index(e))
<1>1. t \in Tables /\ FreeInv(t) /\ SlotsInv(t)
  BY DEF TableInv
<1>2. PICK i : i = index(e)
  OBVIOUS
<1>3. i \in Indices /\ t.live[i] # 0
  BY <1>2, Parts DEF alive
<1>4. PICK l, m : l = [t.live EXCEPT ![i] = 0] /\ m = [t.mask EXCEPT ![i] = {}]
  OBVIOUS
<1>5. l \in [Indices -> Nat] /\ m \in [Indices -> SUBSET Components]
  BY <1>1, <1>3, <1>4 DEF Tables
<1>6. PICK gone : gone = [t EXCEPT !.mask = m, !.live = l]
  OBVIOUS
<1>7. /\ gone \in Tables /\ gone.live = l /\ gone.mask = m /\ gone.last = t.last
      /\ gone.free = t.free /\ gone.fresh = t.fresh /\ gone.count = t.count
      /\ gone.observing = t.observing /\ gone.despawned = t.despawned /\ gone.outside = t.outside
  <2>1. gone \in Tables
    BY ONLY <1>1, <1>5, <1>6 DEF Tables
  <2> QED BY ONLY <1>1, <1>6, <2>1 DEF Tables
<1>8. toHandOut(gone) = toHandOut(t) /\ handedOut(gone) = handedOut(t) /\ FreeInv(gone)
  BY <1>1, <1>7, SameHandOuts
<1>9. t.despawned \in Seq(Indices)
  BY <1>1 DEF Tables
<1>10. CASE t.observing
  <2>1. PICK p, o : p = Append(t.despawned, i) /\ o = t.outside \cup ({i} \ InRange)
    OBVIOUS
  <2>2. u = [gone EXCEPT !.despawned = p, !.outside = o]
    BY <1>2, <1>4, <1>6, <1>7, <1>10, <2>1 DEF despawn
  <2>3. /\ p \in Seq(Indices) /\ ToSet(p) = ToSet(t.despawned) \cup {i} /\ IsInjective(p)
    <3>1. i \notin ToSet(t.despawned) /\ IsInjective(t.despawned)
      BY <1>1, <1>3 DEF SlotsInv
    <3>2. PICK q \in Seq(Indices) : q = t.despawned
      BY <1>9
    <3>3. p = Append(q, i) /\ i \in Indices
      BY <1>3, <2>1, <3>2
    <3>4. p \in Seq(Indices)
      BY ONLY <3>3, q \in Seq(Indices), AppendProperties
    <3>5. ToSet(Append(q, i)) = ToSet(q) \cup {i}
      BY ONLY <3>3, q \in Seq(Indices), OneMore
    <3>6. IsInjective(Append(q, i))
      BY <3>1, <3>2, <3>3, OneMoreOnce
    <3> QED BY <3>2, <3>3, <3>4, <3>5, <3>6
  <2>4. o = ToSet(p) \ InRange /\ o \in SUBSET Outside
    <3>1. t.outside = ToSet(t.despawned) \ InRange
      BY <1>1 DEF SlotsInv
    <3>2. t.outside \in SUBSET Outside
      BY <1>1 DEF Tables
    <3> QED BY <1>3, <2>1, <2>3, <3>1, <3>2 DEF Indices
  <2>5. /\ u \in Tables /\ u.live = l /\ u.mask = m /\ u.last = t.last
        /\ u.free = t.free /\ u.fresh = t.fresh /\ u.count = t.count
        /\ u.observing = t.observing /\ u.despawned = p /\ u.outside = o
    <3>1. u \in Tables
      BY ONLY <1>7, <2>2, <2>3, <2>4 DEF Tables
    <3>2. /\ u.live = gone.live /\ u.mask = gone.mask /\ u.last = gone.last
          /\ u.free = gone.free /\ u.fresh = gone.fresh /\ u.count = gone.count
          /\ u.observing = gone.observing /\ u.despawned = p /\ u.outside = o
      BY ONLY <1>7, <2>2 DEF Tables
    <3> QED BY <1>7, <3>1, <3>2
  <2>6. toHandOut(u) = toHandOut(t) /\ handedOut(u) = handedOut(t) /\ FreeInv(u)
    BY <1>1, <2>5, SameHandOuts
  <2>7. TableInv(u, after)
    <3>1. /\ u.live = [t.live EXCEPT ![i] = 0] /\ u.mask = [t.mask EXCEPT ![i] = {}]
          /\ IsInjective(u.despawned) /\ u.outside = ToSet(u.despawned) \ InRange
          /\ ToSet(u.despawned) = ToSet(t.despawned) \cup {i}
      BY <1>4, <2>3, <2>4, <2>5
    <3> QED BY <1>2, <1>10, <2>5, <2>6, <3>1, GoneKeeps
  <2> QED BY <1>2, <1>4, <1>10, <2>3, <2>5, <2>7 DEF emptiedSlot
<1>11. CASE ~t.observing
  <2>1. PICK s : s = settleReservations(gone, FALSE)
    OBVIOUS
  <2>2. u = free(s, i)
    BY <1>2, <1>4, <1>6, <1>11, <2>1 DEF despawn
  <2>3. PICK j, x : j = untaken(t) /\ x = t.fresh + takenFresh(t)
    OBVIOUS
  <2>4. takenFree(gone) = takenFree(t) /\ takenFresh(gone) = takenFresh(t) /\ untaken(gone) = untaken(t)
    <3>1. takenFree(gone) = takenFree(t)
      BY <1>7 DEF takenFree
    <3>2. takenFresh(gone) = takenFresh(t)
      BY <1>7, <3>1 DEF takenFresh
    <3> QED BY <1>7, <3>1, <3>2 DEF untaken
  <2>5. s = [gone EXCEPT !.free = j, !.fresh = x, !.count = 0]
    <3>1. s = [[gone EXCEPT !.free = j] EXCEPT !.fresh = @ + takenFresh(t), !.count = 0]
      BY <2>1, <2>3, <2>4 DEF settleReservations
    <3> QED BY <1>7, <2>3, <3>1 DEF Tables
  <2>6. j \in Seq(Pairs) /\ x \in FirstIndex..LastIndex + 1
    <3>1. j \in Seq(Pairs)
      BY <1>1, <2>3, Counts
    <3>2. PICK n : n = takenFresh(t)
      OBVIOUS
    <3>3. n \in Nat /\ t.fresh \in Int /\ t.fresh + n <= LastIndex + 1 /\ FirstIndex <= t.fresh
      BY <1>1, <3>2, Counts
    <3>4. FirstIndex \in Nat /\ LastIndex \in Nat
      BY EntityTableAssumption
    <3> QED BY <2>3, <3>1, <3>2, <3>3, <3>4
  <2>7. /\ s \in Tables /\ s.free = j /\ s.fresh = x /\ s.count = 0 /\ sameSlots(s, gone) /\ s.last = gone.last
    <3>1. s \in Tables
      BY ONLY <1>7, <2>5, <2>6 DEF Tables
    <3> QED BY ONLY <1>7, <2>5, <3>1 DEF Tables, sameSlots
  <2>8. FreeInv(s) /\ toHandOut(s) = toHandOut(t) /\ handedOut(s) = {}
    BY <1>1, <2>3, <2>7, Settled
  <2>9. /\ s.live = l /\ s.mask = m /\ s.observing = t.observing /\ s.despawned = t.despawned
        /\ s.outside = t.outside /\ s.last = t.last
    BY <1>7, <2>7 DEF sameSlots
  <2>10. u \in Tables /\ u.count = 0 /\ sameSlots(u, s) /\ u.last = s.last
    BY <1>3, <2>2, <2>7, FreeTypes
  <2>11. /\ u.live = l /\ u.mask = m /\ u.observing = t.observing /\ u.despawned = t.despawned
         /\ u.outside = t.outside /\ u.last = t.last
    BY <2>9, <2>10 DEF sameSlots
  <2>12. FreeInv(u) /\ toHandOut(u) = toHandOut(t) \cup {nextAt(t, y) : y \in {i} \cap InRange}
    <3>1. CASE i \in InRange
      <4>1. \A d \in toHandOut(t) : t.live[index(d)] = 0
        BY DEF TableInv, FreshInv
      <4>2. \A d \in toHandOut(s) : index(d) # i
        BY <1>3, <2>8, <4>1
      <4>3. FreeInv(u) /\ toHandOut(u) = toHandOut(s) \cup {nextAt(s, i)}
        BY <2>2, <2>7, <2>8, <3>1, <4>2, FreeOne
      <4>4. nextAt(s, i) = nextAt(t, i)
        BY <2>9 DEF nextAt
      <4> QED BY <2>8, <3>1, <4>3, <4>4
    <3>2. CASE i \notin InRange
      <4>1. u = s
        BY <1>3, <2>2, <2>7, <3>2, FreeTypes
      <4>2. {nextAt(t, y) : y \in {i} \cap InRange} = {}
        BY <3>2
      <4> QED BY <2>8, <4>1, <4>2
    <3> QED BY <3>1, <3>2
  <2>13. handedOut(u) = {}
    BY <2>10, NoneTaken
  <2>14. TableInv(u, after)
    <3>1. /\ u.live = [t.live EXCEPT ![i] = 0] /\ u.mask = [t.mask EXCEPT ![i] = {}]
          /\ IsInjective(u.despawned) /\ u.outside = ToSet(u.despawned) \ InRange
          /\ u.despawned = <<>>
      BY <1>1, <1>4, <1>11, <2>11 DEF SlotsInv
    <3> QED BY <1>2, <1>11, <2>10, <2>11, <2>12, <2>13, <3>1, GoneKeeps, ZenonT(40)
  <2> QED BY <1>2, <1>4, <1>11, <2>11, <2>14 DEF emptiedSlot
<1> QED BY <1>10, <1>11

\* The mask of an index set to m.
masked(t, i, m) == [t EXCEPT !.mask = [t.mask EXCEPT ![i] = m]]

\* What an entity's components are does not matter to the table while it lives.
LEMMA MaskKeeps ==
  ASSUME NEW t, NEW fates, TableInv(t, fates), NEW i \in Indices, t.live[i] # 0,
         NEW m \in SUBSET Components, NEW u, u = masked(t, i, m)
  PROVE  /\ TableInv(u, fates) /\ u.mask = [t.mask EXCEPT ![i] = m]
         /\ u.live = t.live /\ u.observing = t.observing /\ u.despawned = t.despawned
<1>1. t \in Tables /\ FreeInv(t) /\ fates \in [Entities -> Fates]
  BY DEF TableInv
<1>2. PICK k : k = [t.mask EXCEPT ![i] = m]
  OBVIOUS
<1>3. k \in [Indices -> SUBSET Components] /\ u = [t EXCEPT !.mask = k]
  BY <1>1, <1>2 DEF Tables, masked
<1>4. /\ u \in Tables /\ u.live = t.live /\ u.last = t.last /\ u.mask = k
      /\ u.free = t.free /\ u.fresh = t.fresh /\ u.count = t.count
      /\ u.observing = t.observing /\ u.despawned = t.despawned /\ u.outside = t.outside
  <2>1. u \in Tables
    BY ONLY <1>1, <1>3 DEF Tables
  <2> QED BY ONLY <1>1, <1>3, <2>1 DEF Tables
<1>5. toHandOut(u) = toHandOut(t) /\ handedOut(u) = handedOut(t) /\ FreeInv(u)
  BY <1>1, <1>4, SameHandOuts
<1>6. FreshInv(t, fates) /\ TakenInv(t, fates) /\ FatesInv(t, fates) /\ PlacesInv(t, fates) /\ SlotsInv(t)
  BY DEF TableInv
<1>7. FreshInv(u, fates)
  BY <1>4, <1>5, <1>6 DEF FreshInv
<1>8. TakenInv(u, fates)
  BY <1>4, <1>5, <1>6 DEF TakenInv
<1>9. FatesInv(u, fates)
  BY <1>4, <1>6 DEF FatesInv
<1>10. PlacesInv(u, fates)
  BY <1>4, <1>5, <1>6 DEF PlacesInv
<1>11. SlotsInv(u)
  <2>1. \A x \in Indices : x # i => u.mask[x] = t.mask[x]
    BY <1>1, <1>2, <1>4 DEF Tables
  <2> QED BY <1>4, <1>6, <2>1 DEF SlotsInv
<1> QED BY <1>1, <1>2, <1>4, <1>5, <1>7, <1>8, <1>9, <1>10, <1>11 DEF TableInv

\* The first end of a window.
LEMMA FirstEndKeeps ==
  ASSUME NEW t, NEW fates, TableInv(t, fates), ~t.observing, NEW u, u = endWindow(t)
  PROVE  TableInv(u, fates) /\ u.live = t.live /\ u.mask = t.mask /\ u.observing /\ u.despawned = <<>>
<1>1. PICK s : s = settleReservations(t, FALSE)
  OBVIOUS
<1>2. TableInv(s, fates) /\ handedOut(s) = {} /\ sameSlots(s, t) /\ s.last = t.last
  BY <1>1, SettleKeeps
<1>3. s \in Tables /\ FreeInv(s) /\ fates \in [Entities -> Fates]
  BY <1>2 DEF TableInv
<1>4. u = [s EXCEPT !.observing = TRUE]
  BY <1>1 DEF endWindow
<1>5. /\ u \in Tables /\ u.live = s.live /\ u.last = s.last /\ u.mask = s.mask
      /\ u.free = s.free /\ u.fresh = s.fresh /\ u.count = s.count
      /\ u.observing = TRUE /\ u.despawned = s.despawned /\ u.outside = s.outside
  <2>1. u \in Tables
    BY ONLY <1>3, <1>4 DEF Tables
  <2> QED BY ONLY <1>3, <1>4, <2>1 DEF Tables
<1>6. toHandOut(u) = toHandOut(s) /\ handedOut(u) = {} /\ FreeInv(u)
  BY <1>2, <1>3, <1>5, SameHandOuts
<1>7. FreshInv(s, fates) /\ TakenInv(s, fates) /\ FatesInv(s, fates) /\ PlacesInv(s, fates) /\ SlotsInv(s)
  BY <1>2 DEF TableInv
<1>8. FreshInv(u, fates)
  BY <1>5, <1>6, <1>7 DEF FreshInv
<1>9. TakenInv(u, fates)
  <2>1. \A e \in Entities : fates[e] # "waiting"
    BY <1>2, <1>7 DEF TakenInv
  <2> QED BY <1>6, <2>1 DEF TakenInv
<1>10. FatesInv(u, fates)
  BY <1>5, <1>7 DEF FatesInv
<1>11. PlacesInv(u, fates)
  BY <1>5, <1>6, <1>7 DEF PlacesInv
<1>12. SlotsInv(u)
  BY <1>5, <1>7 DEF SlotsInv
<1>13. t.despawned = <<>>
  BY DEF TableInv, SlotsInv
<1>14. u.live = t.live /\ u.mask = t.mask /\ u.observing /\ u.despawned = <<>>
  BY <1>2, <1>5, <1>13 DEF sameSlots
<1> QED BY <1>3, <1>5, <1>6, <1>8, <1>9, <1>10, <1>11, <1>12, <1>14 DEF TableInv

\* What the end of a window leaves to hand out, and the generations it burns.
LEMMA EndHandsBack ==
  ASSUME NEW t, NEW fates, TableInv(t, fates), t.observing, NEW u, u = endWindow(t)
  PROVE  /\ u \in Tables /\ FreeInv(u) /\ handedOut(u) = {}
         /\ u.live = t.live /\ u.mask = t.mask /\ u.observing /\ u.despawned = <<>> /\ u.outside = {}
         /\ toHandOut(u) = (toHandOut(t) \cup reclaims(t)) \cup nextAll(u, ToSet(t.despawned))
         /\ \A e \in handedOut(t) : u.last[index(e)] = generation(e)
         /\ \A i \in Indices : (\A e \in handedOut(t) : index(e) # i) => u.last[i] = t.last[i]
<1>1. t \in Tables /\ FreeInv(t)
  BY DEF TableInv
<1>2. FreshInv(t, fates) /\ TakenInv(t, fates) /\ FatesInv(t, fates) /\ SlotsInv(t)
  BY DEF TableInv
<1>3. PICK s, q : s = settleReservations(t, TRUE) /\ q = t.despawned
  OBVIOUS
<1>4. /\ s \in Tables /\ FreeInv(s) /\ s.count = 0
      /\ s.live = t.live /\ s.mask = t.mask
      /\ s.observing = t.observing /\ s.despawned = t.despawned /\ s.outside = t.outside
  BY <1>1, <1>3, Reclaimed
<1>5. toHandOut(s) = toHandOut(t) \cup reclaims(t)
  <2>1. s = settleReservations(t, TRUE)
    BY <1>3
  <2> QED BY ONLY <1>1, <2>1, Reclaimed
<1>6. /\ \A e \in handedOut(t) : s.last[index(e)] = generation(e)
      /\ \A i \in Indices : (\A e \in handedOut(t) : index(e) # i) => s.last[i] = t.last[i]
  <2>1. s = settleReservations(t, TRUE)
    BY <1>3
  <2>2. \A e \in handedOut(t) : s.last[index(e)] = generation(e)
    BY ONLY <1>1, <2>1, Reclaimed
  <2>3. \A i \in Indices : (\A e \in handedOut(t) : index(e) # i) => s.last[i] = t.last[i]
    BY ONLY <1>1, <2>1, Reclaimed
  <2> QED BY <2>2, <2>3
<1>7. q \in Seq(Indices) /\ IsInjective(q)
  BY <1>1, <1>2, <1>3 DEF Tables, SlotsInv
<1>8. \A e \in toHandOut(s) : index(e) \notin ToSet(q)
  <2>1. \A e \in toHandOut(t) : index(e) \notin ToSet(q)
    BY <1>2, <1>3 DEF FreshInv
  <2>2. ASSUME NEW d \in handedOut(t), unspawned(t, d) PROVE index(backOf(d)) \notin ToSet(q)
    <3>1. d \in Entities /\ waits(fates, d)
      BY <1>2, <2>2 DEF TakenInv, unspawned
    <3>2. index(d) \notin ToSet(q)
      BY <1>2, <1>3, <3>1 DEF FatesInv
    <3> QED BY <3>2, Parts DEF backOf
  <2> QED BY <1>5, <2>1, <2>2 DEF reclaims
<1>9. PICK z : z = freeAll(s, q)
  OBVIOUS
<1>10. z \in Tables /\ FreeInv(z) /\ z.count = 0 /\ handedOut(z) = {} /\ sameSlots(z, s) /\ z.last = s.last
  BY <1>4, <1>7, <1>8, <1>9, FreedAll
<1>11. toHandOut(z) = toHandOut(s) \cup nextAll(s, ToSet(q))
  BY <1>4, <1>7, <1>8, <1>9, FreedAll
<1>12. u = [z EXCEPT !.despawned = <<>>, !.outside = {}]
  <2>1. u = [z EXCEPT !.despawned = <<>>, !.outside = @ \ ToSet(q)]
    BY <1>3, <1>9 DEF endWindow, freeAll
  <2>2. z.outside \ ToSet(q) = {}
    BY <1>2, <1>3, <1>4, <1>10 DEF sameSlots, SlotsInv
  <2> QED BY <1>10, <2>1, <2>2 DEF Tables
<1>13. /\ u \in Tables /\ u.live = z.live /\ u.last = z.last /\ u.mask = z.mask
       /\ u.free = z.free /\ u.fresh = z.fresh /\ u.count = z.count
       /\ u.observing = z.observing /\ u.despawned = <<>> /\ u.outside = {}
  <2>1. <<>> \in Seq(Indices) /\ {} \in SUBSET Outside
    OBVIOUS
  <2>2. u \in Tables
    BY ONLY <1>10, <1>12, <2>1 DEF Tables
  <2> QED BY ONLY <1>10, <1>12, <2>2 DEF Tables
<1>14. toHandOut(u) = toHandOut(z) /\ handedOut(u) = {} /\ FreeInv(u)
  BY <1>10, <1>13, SameHandOuts
<1>15. u.live = t.live /\ u.mask = t.mask /\ u.observing
  BY <1>4, <1>10, <1>13 DEF sameSlots
<1>16. u.last = s.last
  BY <1>10, <1>13
<1>17. \A i : nextAt(u, i) = nextAt(s, i)
  BY <1>16 DEF nextAt
<1>18. toHandOut(u) = toHandOut(s) \cup nextAll(u, ToSet(t.despawned))
  <2>1. nextAll(u, ToSet(q)) = nextAll(s, ToSet(q))
    BY <1>17 DEF nextAll
  <2> QED BY <1>3, <1>11, <1>14, <2>1
<1> QED BY <1>5, <1>6, <1>13, <1>14, <1>15, <1>16, <1>18

\* What becomes of the entities at the end of a window.
burnedFates(fates) == [e \in Entities |-> IF fates[e] = "waiting" THEN "burned" ELSE fates[e]]

\* Every other end of a window.
LEMMA EndKeeps ==
  ASSUME NEW t, NEW fates, TableInv(t, fates), t.observing, NEW u, u = endWindow(t),
         NEW after, after = burnedFates(fates)
  PROVE  TableInv(u, after) /\ u.live = t.live /\ u.mask = t.mask /\ u.observing /\ u.despawned = <<>>
<1>1. t \in Tables /\ FreeInv(t) /\ fates \in [Entities -> Fates]
  BY DEF TableInv
<1>2. FreshInv(t, fates) /\ TakenInv(t, fates) /\ FatesInv(t, fates) /\ PlacesInv(t, fates) /\ SlotsInv(t)
  BY DEF TableInv
<1>3. /\ u \in Tables /\ FreeInv(u) /\ handedOut(u) = {}
      /\ u.live = t.live /\ u.mask = t.mask /\ u.observing /\ u.despawned = <<>> /\ u.outside = {}
  BY EndHandsBack
<1>4. toHandOut(u) = (toHandOut(t) \cup reclaims(t)) \cup nextAll(u, ToSet(t.despawned))
  BY EndHandsBack
<1>5. \A e \in handedOut(t) : u.last[index(e)] = generation(e)
  BY EndHandsBack
<1>6. \A i \in Indices : (\A e \in handedOut(t) : index(e) # i) => u.last[i] = t.last[i]
  BY EndHandsBack
<1>7. /\ after \in [Entities -> Fates]
      /\ \A d \in Entities : after[d] = IF fates[d] = "waiting" THEN "burned" ELSE fates[d]
  BY <1>1 DEF burnedFates, Fates
<1>8. \A d \in Entities : waits(after, d) <=> fates[d] = "early"
  BY <1>7 DEF waits
<1>9. \A d \in Entities : fates[d] = "early" => waits(fates, d)
  BY DEF waits
<1>10. \A d \in handedOut(t) : /\ d \in Entities /\ fates[d] # "early"
                               /\ d \in Pairs /\ index(d) \in InRange /\ index(d) \in Indices
                               /\ generation(d) \in Nat
  <2>1. handedOut(t) \subseteq Pairs
    BY <1>1, Counts
  <2> QED BY <1>2, <2>1, Parts DEF TakenInv
<1>11. ASSUME NEW d \in handedOut(t), unspawned(t, d)
       PROVE  /\ waits(fates, d) /\ t.live[index(d)] = 0 /\ generation(d) = t.last[index(d)] + 1
  BY <1>2, <1>10, <1>11 DEF TakenInv, FatesInv, unspawned
<1>12. ASSUME NEW d \in Entities, fates[d] = "early"
       PROVE  \A e \in handedOut(t) : index(e) # index(d)
  <2>1. ASSUME NEW e \in handedOut(t), index(e) = index(d) PROVE FALSE
    <3>1. waits(fates, d) /\ held(fates, index(d))
      BY <1>9, <1>12 DEF held
    <3>2. waits(fates, e)
      BY <1>2, <2>1, <3>1 DEF TakenInv
    <3>3. d = e
      BY <1>2, <1>10, <2>1, <3>1, <3>2, OneWaits
    <3> QED BY <1>10, <1>12, <3>3
  <2> QED BY <2>1
<1>13. \A i \in Indices : /\ t.last[i] \in Nat /\ u.last[i] \in Nat /\ t.last[i] <= u.last[i]
                          /\ t.live[i] # 0 => u.last[i] = t.last[i]
  <2>1. ASSUME NEW i \in Indices
        PROVE  /\ t.last[i] \in Nat /\ u.last[i] \in Nat /\ t.last[i] <= u.last[i]
               /\ t.live[i] # 0 => u.last[i] = t.last[i]
    <3>1. t.last[i] \in Nat /\ u.last[i] \in Nat
      BY <1>1, <1>3 DEF Tables
    <3>2. CASE \A e \in handedOut(t) : index(e) # i
      BY <1>6, <3>1, <3>2
    <3>3. ASSUME NEW e \in handedOut(t), index(e) = i
          PROVE  t.last[i] <= u.last[i] /\ (t.live[i] # 0 => u.last[i] = t.last[i])
      <4>1. u.last[i] = generation(e)
        BY <1>5, <3>3
      <4>2. CASE unspawned(t, e)
        BY <1>11, <3>1, <3>3, <4>1, <4>2
      <4>3. CASE ~unspawned(t, e)
        BY <3>1, <3>3, <4>1, <4>3 DEF unspawned
      <4> QED BY <4>2, <4>3
    <3> QED BY <3>1, <3>2, <3>3
  <2> QED BY <2>1
<1>14. \A i : held(after, i) <=> \E d \in Entities : index(d) = i /\ fates[d] = "early"
  BY <1>8 DEF held
<1>15. ToSet(u.despawned) = {}
  BY <1>3 DEF ToSet
<1>16. FreshInv(u, after)
  <2>1. ASSUME NEW d \in toHandOut(t)
        PROVE  /\ generation(d) = u.last[index(d)] + 1 /\ u.live[index(d)] = 0
               /\ ~held(after, index(d))
    <3>1. /\ generation(d) = t.last[index(d)] + 1 /\ t.live[index(d)] = 0 /\ ~held(fates, index(d))
      BY <1>2 DEF FreshInv
    <3>2. d \in Pairs /\ index(d) \in Indices
      <4>1. d \in Pairs
        BY <1>1, Counts
      <4> QED BY <4>1, Parts
    <3>3. \A e \in handedOut(t) : index(e) # index(d)
      <4>1. \A e \in handedOut(t) : index(e) = index(d) => e = d
        BY <1>1, HandOutsApart
      <4>2. d \notin handedOut(t)
        BY <1>1, HandOutsApart
      <4> QED BY <4>1, <4>2
    <3>4. u.last[index(d)] = t.last[index(d)]
      BY <1>6, <3>2, <3>3
    <3>5. ~held(after, index(d))
      BY <1>9, <1>14, <3>1 DEF held
    <3> QED BY <1>3, <3>1, <3>4, <3>5
  <2>2. ASSUME NEW d \in reclaims(t)
        PROVE  /\ generation(d) = u.last[index(d)] + 1 /\ u.live[index(d)] = 0
               /\ ~held(after, index(d))
    <3>1. PICK e \in handedOut(t) : unspawned(t, e) /\ d = backOf(e)
      BY DEF reclaims
    <3>2. index(d) = index(e) /\ generation(d) = generation(e) + 1
      BY <3>1, Parts DEF backOf
    <3>3. ~held(after, index(d))
      BY <1>12, <1>14, <3>2
    <3> QED BY <1>3, <1>5, <1>11, <3>1, <3>2, <3>3
  <2>3. ASSUME NEW d \in nextAll(u, ToSet(t.despawned))
        PROVE  /\ generation(d) = u.last[index(d)] + 1 /\ u.live[index(d)] = 0
               /\ ~held(after, index(d))
    <3>1. PICK i \in ToSet(t.despawned) : d = nextAt(u, i)
      BY DEF nextAll
    <3>2. index(d) = i /\ generation(d) = u.last[i] + 1
      BY <3>1, Parts DEF nextAt
    <3>3. t.live[i] = 0
      BY <1>2 DEF SlotsInv
    <3>4. ~held(after, i)
      BY <1>2, <1>9, <1>14 DEF FatesInv
    <3> QED BY <1>3, <3>2, <3>3, <3>4
  <2> QED BY <1>4, <1>15, <2>1, <2>2, <2>3 DEF FreshInv
<1>17. TakenInv(u, after)
  <2>1. \A d \in Entities : after[d] # "waiting"
    BY <1>7
  <2> QED BY <1>3, <2>1 DEF TakenInv
<1>18. FatesInv(u, after)
  <2>1. ASSUME NEW d \in Entities
        PROVE  /\ after[d] = "alive" <=> u.live[index(d)] = generation(d)
               /\ waits(after, d) =>
                    /\ index(d) \in InRange /\ u.live[index(d)] = 0
                    /\ generation(d) = u.last[index(d)] + 1
                    /\ index(d) \notin ToSet(u.despawned)
               /\ index(d) \in InRange /\ after[d] \in {"ended", "burned"} =>
                    generation(d) <= u.last[index(d)]
    <3>1. index(d) \in Indices /\ generation(d) \in Nat
      BY Parts
    <3>2. /\ fates[d] = "alive" <=> t.live[index(d)] = generation(d)
          /\ waits(fates, d) =>
               /\ index(d) \in InRange /\ t.live[index(d)] = 0
               /\ generation(d) = t.last[index(d)] + 1
               /\ index(d) \notin ToSet(t.despawned)
          /\ index(d) \in InRange /\ fates[d] \in {"ended", "burned"} =>
               generation(d) <= t.last[index(d)]
      BY <1>2 DEF FatesInv
    <3>3. after[d] = "alive" <=> u.live[index(d)] = generation(d)
      BY <1>3, <1>7, <3>2
    <3>4. waits(after, d) =>
            /\ index(d) \in InRange /\ u.live[index(d)] = 0
            /\ generation(d) = u.last[index(d)] + 1
            /\ index(d) \notin ToSet(u.despawned)
      <4>1. ASSUME waits(after, d) PROVE u.last[index(d)] = t.last[index(d)]
        BY <1>6, <1>8, <1>12, <3>1, <4>1
      <4> QED BY <1>3, <1>8, <1>9, <1>15, <3>2, <4>1
    <3>5. ASSUME index(d) \in InRange, after[d] \in {"ended", "burned"}
          PROVE  generation(d) <= u.last[index(d)]
      <4>1. CASE fates[d] = "waiting"
        <5>1. d \in handedOut(t)
          BY <1>2, <4>1 DEF TakenInv
        <5> QED BY <1>5, <3>1, <5>1
      <4>2. CASE fates[d] # "waiting"
        <5>1. generation(d) <= t.last[index(d)]
          BY <1>7, <3>2, <3>5, <4>2
        <5> QED BY <1>13, <3>1, <5>1
      <4> QED BY <4>1, <4>2
    <3> QED BY <3>3, <3>4, <3>5
  <2> QED BY <2>1 DEF FatesInv
<1>19. SlotsInv(u)
  <2>1. \A i \in Indices :
          /\ u.live[i] # 0 => u.last[i] = u.live[i] /\ u.live[i] <= MaxGeneration
          /\ u.live[i] = 0 => u.mask[i] = {}
    BY <1>2, <1>3, <1>13 DEF SlotsInv
  <2>2. IsInjective(u.despawned)
    BY <1>3 DEF IsInjective
  <2>3. u.outside = ToSet(u.despawned) \ InRange
    BY <1>3, <1>15
  <2> QED BY <1>3, <1>15, <2>1, <2>2, <2>3 DEF SlotsInv
<1>20. PlacesInv(u, after)
  <2>1. ASSUME NEW i \in InRange
        PROVE  (\E d \in toHandOut(u) : index(d) = i) \/ held(after, i) \/ u.live[i] # 0
    <3>1. \/ \E d \in toHandOut(t) : index(d) = i
          \/ held(fates, i) \/ t.live[i] # 0 \/ i \in ToSet(t.despawned)
      BY <1>2 DEF PlacesInv
    <3>2. ASSUME NEW d \in toHandOut(t), index(d) = i PROVE \E x \in toHandOut(u) : index(x) = i
      BY <1>4, <3>2
    <3>3. ASSUME held(fates, i) PROVE (\E d \in toHandOut(u) : index(d) = i) \/ held(after, i)
      <4>1. PICK d \in Entities : index(d) = i /\ waits(fates, d)
        BY <3>3 DEF held
      <4>2. CASE fates[d] = "early"
        BY <1>14, <4>1, <4>2
      <4>3. CASE fates[d] = "waiting"
        <5>1. d \in handedOut(t)
          BY <1>2, <4>3 DEF TakenInv
        <5>2. generation(d) = t.last[index(d)] + 1 /\ t.last[index(d)] \in Nat
          BY <1>1, <1>2, <4>1, Parts DEF FatesInv, Tables
        <5>3. unspawned(t, d)
          BY <5>2 DEF unspawned
        <5>4. backOf(d) \in toHandOut(u)
          BY <1>4, <5>1, <5>3 DEF reclaims
        <5>5. index(backOf(d)) = i
          BY <4>1, Parts DEF backOf
        <5> QED BY <5>4, <5>5
      <4> QED BY <4>1, <4>2, <4>3 DEF waits
    <3>4. ASSUME i \in ToSet(t.despawned) PROVE \E d \in toHandOut(u) : index(d) = i
      <4>1. nextAt(u, i) \in toHandOut(u)
        BY <1>4, <3>4 DEF nextAll
      <4>2. index(nextAt(u, i)) = i
        BY Parts DEF nextAt
      <4> QED BY <4>1, <4>2
    <3> QED BY <1>3, <3>1, <3>2, <3>3, <3>4
  <2> QED BY <2>1 DEF PlacesInv
<1> QED BY <1>3, <1>7, <1>16, <1>17, <1>18, <1>19, <1>20 DEF TableInv

-----------------------------------------------------------------------------
(* The rows of a store *)

Shape(s) == s \in Stores /\ LinksInv(s) /\ s.liveRows <= Len(s.rows)
RowsOf(s) == LiveRows(s) \cup TailRows(s)
sameList(u, s) == u.changed = s.changed /\ u.overflowed = s.overflowed
sameKind(u, s) == u.observation = s.observation
\* The rows from a to b.
span(q, a, b) == {q[n] : n \in a..b}
\* The rows whose owner is another entity.
without(R, e) == {x \in R : x.owner # e}

\* The parts of a store.
LEMMA StoreParts ==
  ASSUME NEW s \in Stores
  PROVE  /\ s.rows \in Seq(Rows) /\ Len(s.rows) \in Nat /\ DOMAIN s.rows = 1..Len(s.rows)
         /\ \A r \in 1..Len(s.rows) : /\ s.rows[r] \in Rows /\ s.rows[r].owner \in Entities
                                      /\ index(s.rows[r].owner) \in Indices
         /\ s.liveRows \in Nat /\ s.rowByIndex \in [Indices -> Nat]
         /\ s.changed \in Seq(Entities) /\ s.overflowed \in BOOLEAN
<1>1. /\ s.rows \in Seq(Rows) /\ s.liveRows \in Nat /\ s.rowByIndex \in [Indices -> Nat]
      /\ s.changed \in Seq(Entities) /\ s.overflowed \in BOOLEAN
  BY DEF Stores
<1>2. Len(s.rows) \in Nat /\ DOMAIN s.rows = 1..Len(s.rows)
  BY <1>1, LenProperties
<1>3. \A r \in 1..Len(s.rows) : s.rows[r] \in Rows
  BY <1>1, ElementOfSeq
<1>4. \A x \in Rows : x.owner \in Entities
  BY DEF Rows
<1>5. \A r \in 1..Len(s.rows) : s.rows[r].owner \in Entities
  BY <1>3, <1>4
<1> QED BY <1>1, <1>2, <1>3, <1>5, Parts

\* Rows and links name each other.
LEMMA Linked ==
  ASSUME NEW s, Shape(s)
  PROVE  /\ \A r \in 1..Len(s.rows) : s.rowByIndex[index(s.rows[r].owner)] = r
         /\ \A i \in Indices : s.rowByIndex[i] # 0 =>
              s.rowByIndex[i] \in 1..Len(s.rows) /\ index(s.rows[s.rowByIndex[i]].owner) = i
BY StoreParts DEF Shape, LinksInv

\* The rows are of different indices, and a row is live or in the tail.
LEMMA RowsApart ==
  ASSUME NEW s, Shape(s)
  PROVE  /\ \A x, y \in RowsOf(s) : index(x.owner) = index(y.owner) => x = y
         /\ LiveRows(s) \cap TailRows(s) = {}
         /\ \A x \in RowsOf(s) : x \in Rows /\ x.owner \in Entities
         /\ RowsOf(s) = {s.rows[r] : r \in 1..Len(s.rows)}
<1>1. s \in Stores /\ Len(s.rows) \in Nat /\ s.liveRows \in Nat /\ s.liveRows <= Len(s.rows)
  BY StoreParts DEF Shape
<1>2. \A r \in 1..Len(s.rows) : s.rowByIndex[index(s.rows[r].owner)] = r
  BY Linked
<1>3. \A x \in LiveRows(s) : \E r \in 1..Len(s.rows) : r <= s.liveRows /\ x = s.rows[r]
  BY <1>1 DEF LiveRows
<1>4. \A x \in TailRows(s) : \E r \in 1..Len(s.rows) : ~(r <= s.liveRows) /\ x = s.rows[r]
  BY <1>1 DEF TailRows
<1>5. \A x \in RowsOf(s) : \E r \in 1..Len(s.rows) : x = s.rows[r]
  BY <1>3, <1>4 DEF RowsOf
<1>6. \A r \in 1..Len(s.rows) : s.rows[r] \in RowsOf(s)
  BY <1>1 DEF RowsOf, LiveRows, TailRows
<1>7. \A x, y \in RowsOf(s) : index(x.owner) = index(y.owner) => x = y
  BY <1>2, <1>5
<1>8. LiveRows(s) \cap TailRows(s) = {}
  BY <1>2, <1>3, <1>4
<1>9. \A x \in RowsOf(s) : x \in Rows /\ x.owner \in Entities
  BY <1>1, <1>5, StoreParts
<1>10. RowsOf(s) = {s.rows[r] : r \in 1..Len(s.rows)}
  BY <1>5, <1>6
<1> QED BY <1>7, <1>8, <1>9, <1>10

\* The row that an entity finds by its index.
LEMMA Finds ==
  ASSUME NEW s, Shape(s), NEW e \in Entities
  PROVE  /\ has(s, e) <=> \E x \in LiveRows(s) : x.owner = e
         /\ inTail(s, e) <=> \E x \in TailRows(s) : x.owner = e
         /\ has(s, e) => /\ linked(s, e) \in 1..s.liveRows /\ linked(s, e) \in 1..Len(s.rows)
                         /\ s.rows[linked(s, e)] \in LiveRows(s) /\ s.rows[linked(s, e)].owner = e
         /\ inTail(s, e) => /\ linked(s, e) \in s.liveRows + 1..Len(s.rows) /\ linked(s, e) \in 1..Len(s.rows)
                            /\ s.rows[linked(s, e)] \in TailRows(s) /\ s.rows[linked(s, e)].owner = e
         /\ linked(s, e) = 0 <=> \A x \in RowsOf(s) : index(x.owner) # index(e)
<1>1. s \in Stores /\ Len(s.rows) \in Nat /\ s.liveRows \in Nat /\ s.liveRows <= Len(s.rows)
  BY StoreParts DEF Shape
<1>2. PICK n : n = linked(s, e)
  OBVIOUS
<1>3. n \in Nat /\ n = s.rowByIndex[index(e)] /\ index(e) \in Indices
  BY <1>1, <1>2, StoreParts, Parts DEF linked
<1>4. \A r \in 1..Len(s.rows) : s.rowByIndex[index(s.rows[r].owner)] = r
  BY Linked
<1>5. n # 0 => n \in 1..Len(s.rows) /\ index(s.rows[n].owner) = index(e)
  BY <1>3, Linked
<1>6. has(s, e) => /\ n \in 1..s.liveRows /\ n \in 1..Len(s.rows)
                   /\ s.rows[n] \in LiveRows(s) /\ s.rows[n].owner = e
  BY <1>1, <1>2, <1>3 DEF has, LiveRows
<1>7. inTail(s, e) => /\ n \in s.liveRows + 1..Len(s.rows) /\ n \in 1..Len(s.rows)
                      /\ s.rows[n] \in TailRows(s) /\ s.rows[n].owner = e
  BY <1>1, <1>2, <1>3 DEF inTail, TailRows
<1>8. ASSUME NEW x \in LiveRows(s), x.owner = e PROVE has(s, e)
  <2>1. PICK r \in 1..s.liveRows : x = s.rows[r]
    BY DEF LiveRows
  <2>2. r \in 1..Len(s.rows)
    BY <1>1
  <2>3. n = r
    BY <1>3, <1>4, <1>8, <2>1, <2>2
  <2> QED BY <1>1, <1>2, <1>8, <2>1, <2>3 DEF has
<1>9. ASSUME NEW x \in TailRows(s), x.owner = e PROVE inTail(s, e)
  <2>1. PICK r \in s.liveRows + 1..Len(s.rows) : x = s.rows[r]
    BY DEF TailRows
  <2>2. r \in 1..Len(s.rows)
    BY <1>1
  <2>3. n = r
    BY <1>3, <1>4, <1>9, <2>1, <2>2
  <2> QED BY <1>1, <1>2, <1>9, <2>1, <2>3 DEF inTail
<1>10. n = 0 <=> \A x \in RowsOf(s) : index(x.owner) # index(e)
  <2>1. RowsOf(s) = {s.rows[r] : r \in 1..Len(s.rows)}
    BY RowsApart
  <2>2. ASSUME n = 0, NEW r \in 1..Len(s.rows) PROVE index(s.rows[r].owner) # index(e)
    <3>1. s.rowByIndex[index(s.rows[r].owner)] # 0
      <4>1. r # 0
        OBVIOUS
      <4> QED BY <1>4, <4>1
    <3> QED BY <1>3, <2>2, <3>1
  <2> QED BY <1>5, <2>1, <2>2
<1> QED BY <1>2, <1>6, <1>7, <1>8, <1>9, <1>10

rewritten(s, r, x) == [s EXCEPT !.rows = [s.rows EXCEPT ![r] = x]]
grown(s, x, o, k) ==
  [s EXCEPT !.overflowed = o, !.rows = Append(s.rows, x),
            !.rowByIndex = [s.rowByIndex EXCEPT ![index(x.owner)] = k]]

\* A row rewritten in place, for the same owner.
LEMMA Rewritten ==
  ASSUME NEW s, Shape(s), NEW r \in 1..Len(s.rows), NEW x \in Rows, x.owner = s.rows[r].owner,
         NEW u, u = rewritten(s, r, x)
  PROVE  /\ Shape(u) /\ sameKind(u, s) /\ sameList(u, s) /\ u.liveRows = s.liveRows
         /\ u.rows[r] = x /\ Len(u.rows) = Len(s.rows)
         /\ r <= s.liveRows => /\ LiveRows(u) = without(LiveRows(s), x.owner) \cup {x}
                               /\ TailRows(u) = without(TailRows(s), x.owner)
         /\ ~(r <= s.liveRows) => /\ LiveRows(u) = without(LiveRows(s), x.owner)
                                  /\ TailRows(u) = without(TailRows(s), x.owner) \cup {x}
<1>1. s \in Stores /\ Len(s.rows) \in Nat /\ s.liveRows \in Nat /\ s.liveRows <= Len(s.rows)
  BY StoreParts DEF Shape
<1>2. PICK q : q = [s.rows EXCEPT ![r] = x]
  OBVIOUS
<1>3. s.rows \in Seq(Rows) /\ DOMAIN s.rows = 1..Len(s.rows)
  BY <1>1, StoreParts
<1>4. /\ q \in Seq(Rows) /\ Len(q) = Len(s.rows) /\ DOMAIN q = 1..Len(s.rows)
      /\ \A n \in 1..Len(s.rows) : q[n] = IF n = r THEN x ELSE s.rows[n]
  <2>1. q \in [1..Len(s.rows) -> Rows]
    BY <1>1, <1>2, <1>3, StoreParts
  <2>2. q \in Seq(Rows)
    BY <1>1, <2>1, SeqDef
  <2> QED BY <1>1, <1>2, <1>3, <2>1, <2>2, LenProperties
<1>5. u \in Stores
  BY ONLY <1>1, <1>2, <1>4, u = rewritten(s, r, x) DEF Stores, rewritten
<1>6. /\ u.rows = q /\ u.liveRows = s.liveRows /\ u.rowByIndex = s.rowByIndex
      /\ sameKind(u, s) /\ sameList(u, s)
  BY ONLY <1>1, <1>2, u = rewritten(s, r, x) DEF Stores, sameKind, sameList, rewritten
<1>7. \A n \in 1..Len(s.rows) : q[n].owner = s.rows[n].owner
  BY <1>4
<1>8. LinksInv(u)
  BY <1>3, <1>4, <1>6, <1>7 DEF LinksInv, Shape
<1>9. Shape(u)
  BY <1>1, <1>4, <1>5, <1>6, <1>8 DEF Shape
<1>10. \A n \in 1..Len(s.rows) : s.rows[n].owner = x.owner <=> n = r
  <2>1. \A n \in 1..Len(s.rows) : s.rowByIndex[index(s.rows[n].owner)] = n
    BY Linked
  <2> QED BY <2>1
<1>11. ASSUME NEW a \in Nat, NEW b \in Nat, 1 <= a, b <= Len(s.rows)
       PROVE  /\ r \in a..b => span(q, a, b) = without(span(s.rows, a, b), x.owner) \cup {x}
              /\ r \notin a..b => span(q, a, b) = without(span(s.rows, a, b), x.owner)
  <2>1. a..b \subseteq 1..Len(s.rows)
    BY <1>1, <1>11
  <2> QED BY <1>4, <1>10, <2>1, SMTT(30) DEF without, span
<1>12. LiveRows(u) = span(q, 1, s.liveRows) /\ LiveRows(s) = span(s.rows, 1, s.liveRows)
  BY <1>6 DEF LiveRows, span
<1>13. /\ TailRows(u) = span(q, s.liveRows + 1, Len(s.rows))
       /\ TailRows(s) = span(s.rows, s.liveRows + 1, Len(s.rows))
  BY <1>4, <1>6 DEF TailRows, span
<1>14. s.liveRows + 1 \in Nat /\ 1 <= s.liveRows + 1
  BY <1>1
<1>15. ASSUME r <= s.liveRows
       PROVE  /\ LiveRows(u) = without(LiveRows(s), x.owner) \cup {x}
              /\ TailRows(u) = without(TailRows(s), x.owner)
  <2>1. r \in 1..s.liveRows /\ r \notin s.liveRows + 1..Len(s.rows)
    BY <1>1, <1>15
  <2> QED BY <1>1, <1>11, <1>12, <1>13, <1>14, <2>1
<1>16. ASSUME ~(r <= s.liveRows)
       PROVE  /\ LiveRows(u) = without(LiveRows(s), x.owner)
              /\ TailRows(u) = without(TailRows(s), x.owner) \cup {x}
  <2>1. r \notin 1..s.liveRows /\ r \in s.liveRows + 1..Len(s.rows)
    BY <1>1, <1>16
  <2> QED BY <1>1, <1>11, <1>12, <1>13, <1>14, <2>1
<1> QED BY <1>4, <1>6, <1>9, <1>15, <1>16

\* Two rows exchanged.
LEMMA Exchanged ==
  ASSUME NEW s, Shape(s), NEW a \in 1..Len(s.rows), NEW b \in 1..Len(s.rows), NEW u, u = swap(s, a, b)
  PROVE  /\ Shape(u) /\ sameKind(u, s) /\ sameList(u, s) /\ u.liveRows = s.liveRows
         /\ Len(u.rows) = Len(s.rows) /\ u.rows[b] = s.rows[a]
         /\ (a <= s.liveRows <=> b <= s.liveRows) =>
              LiveRows(u) = LiveRows(s) /\ TailRows(u) = TailRows(s)
<1>1. s \in Stores /\ Len(s.rows) \in Nat /\ s.liveRows \in Nat /\ s.liveRows <= Len(s.rows)
  BY StoreParts DEF Shape
<1>2. CASE a = b
  <2>1. u = s
    BY <1>2 DEF swap
  <2> QED BY <1>2, <2>1 DEF sameKind, sameList
<1>3. CASE a # b
  <2>1. s.rows \in Seq(Rows) /\ DOMAIN s.rows = 1..Len(s.rows) /\ s.rowByIndex \in [Indices -> Nat]
    BY <1>1, StoreParts
  <2>2. PICK i, j : i = index(s.rows[a].owner) /\ j = index(s.rows[b].owner)
    OBVIOUS
  <2>3. i \in Indices /\ j \in Indices
    BY <1>1, <2>2, StoreParts
  <2>4. s.rowByIndex[i] = a /\ s.rowByIndex[j] = b /\ i # j
    BY <1>3, <2>2, Linked
  <2>5. PICK k, q : k = [[s.rowByIndex EXCEPT ![i] = b] EXCEPT ![j] = a]
                    /\ q = [s.rows EXCEPT ![a] = s.rows[b], ![b] = s.rows[a]]
    OBVIOUS
  <2>6. u = [s EXCEPT !.rowByIndex = k, !.rows = q]
    BY <1>3, <2>2, <2>4, <2>5 DEF swap
  <2>7. /\ k \in [Indices -> Nat]
        /\ \A n \in Indices : k[n] = IF n = i THEN b ELSE IF n = j THEN a ELSE s.rowByIndex[n]
    BY <1>1, <2>1, <2>3, <2>4, <2>5
  <2>8. /\ q \in Seq(Rows) /\ Len(q) = Len(s.rows) /\ DOMAIN q = 1..Len(s.rows)
        /\ \A n \in 1..Len(s.rows) : q[n] = IF n = a THEN s.rows[b] ELSE IF n = b THEN s.rows[a] ELSE s.rows[n]
    <3>1. q \in [1..Len(s.rows) -> Rows]
      BY <1>1, <2>1, <2>5, StoreParts
    <3>2. q \in Seq(Rows)
      BY <1>1, <3>1, SeqDef
    <3> QED BY <1>1, <1>3, <2>1, <2>5, <3>1, <3>2, LenProperties
  <2>9. u \in Stores
    BY ONLY <1>1, <2>6, <2>7, <2>8 DEF Stores
  <2>10. /\ u.rows = q /\ u.liveRows = s.liveRows /\ u.rowByIndex = k
         /\ sameKind(u, s) /\ sameList(u, s)
    BY ONLY <1>1, <2>6 DEF Stores, sameKind, sameList
  <2>11. ASSUME NEW n \in 1..Len(s.rows) PROVE k[index(q[n].owner)] = n
    <3>1. s.rowByIndex[index(s.rows[n].owner)] = n /\ index(s.rows[n].owner) \in Indices
      BY <1>1, StoreParts, Linked
    <3>2. CASE n = a
      BY <2>2, <2>3, <2>4, <2>7, <2>8, <3>2
    <3>3. CASE n = b /\ n # a
      BY <2>2, <2>3, <2>7, <2>8, <3>3
    <3>4. CASE n # a /\ n # b
      <4>1. index(s.rows[n].owner) # i /\ index(s.rows[n].owner) # j
        BY <2>4, <3>1, <3>4
      <4> QED BY <2>7, <2>8, <3>1, <3>4, <4>1
    <3> QED BY <3>2, <3>3, <3>4
  <2>12. ASSUME NEW n \in Indices, k[n] # 0 PROVE k[n] \in 1..Len(s.rows) /\ index(q[k[n]].owner) = n
    <3>1. s.rowByIndex[n] # 0 => s.rowByIndex[n] \in 1..Len(s.rows) /\ index(s.rows[s.rowByIndex[n]].owner) = n
      BY Linked
    <3>2. CASE n = i
      BY <1>3, <2>2, <2>7, <2>8, <3>2
    <3>3. CASE n = j /\ n # i
      BY <1>3, <2>2, <2>7, <2>8, <3>3
    <3>4. CASE n # i /\ n # j
      <4>1. PICK m : m = s.rowByIndex[n]
        OBVIOUS
      <4>2. k[n] = m /\ m \in 1..Len(s.rows) /\ index(s.rows[m].owner) = n
        BY <2>7, <2>12, <3>1, <3>4, <4>1
      <4>3. m # a /\ m # b
        BY <2>2, <3>4, <4>2
      <4> QED BY <2>8, <4>2, <4>3
    <3> QED BY <3>2, <3>3, <3>4
  <2>13. Shape(u)
    <3>1. DOMAIN u.rows = 1..Len(s.rows)
      BY <2>8, <2>10
    <3>2. LinksInv(u)
      BY <2>10, <2>11, <2>12, <3>1 DEF LinksInv
    <3> QED BY <1>1, <2>8, <2>9, <2>10, <3>2 DEF Shape
  <2>14. ASSUME NEW c \in Nat, NEW d \in Nat, 1 <= c, d <= Len(s.rows), a \in c..d <=> b \in c..d
         PROVE  span(q, c, d) = span(s.rows, c, d)
    <3>1. c..d \subseteq 1..Len(s.rows)
      BY <1>1, <2>14
    <3>2. \A n \in c..d : q[n] \in {s.rows[m] : m \in c..d}
      BY <2>8, <2>14, <3>1
    <3>3. \A n \in c..d : \E m \in c..d : q[m] = s.rows[n]
      <4>1. ASSUME NEW n \in c..d PROVE \E m \in c..d : q[m] = s.rows[n]
        <5>1. CASE n = a
          BY <1>3, <2>8, <2>14, <3>1, <5>1
        <5>2. CASE n = b
          BY <2>8, <2>14, <3>1, <5>2
        <5>3. CASE n # a /\ n # b
          BY <2>8, <3>1, <5>3
        <5> QED BY <5>1, <5>2, <5>3
      <4> QED BY <4>1
    <3> QED BY <3>2, <3>3 DEF span
  <2>15. LiveRows(u) = span(q, 1, s.liveRows) /\ LiveRows(s) = span(s.rows, 1, s.liveRows)
    BY <2>10 DEF LiveRows, span
  <2>16. /\ TailRows(u) = span(q, s.liveRows + 1, Len(s.rows))
         /\ TailRows(s) = span(s.rows, s.liveRows + 1, Len(s.rows))
    BY <2>8, <2>10 DEF TailRows, span
  <2>17. s.liveRows + 1 \in Nat /\ 1 <= s.liveRows + 1
    BY <1>1
  <2>18. ASSUME a <= s.liveRows <=> b <= s.liveRows
         PROVE  LiveRows(u) = LiveRows(s) /\ TailRows(u) = TailRows(s)
    <3>1. a \in 1..s.liveRows <=> b \in 1..s.liveRows
      BY <1>1, <2>18
    <3>2. a \in s.liveRows + 1..Len(s.rows) <=> b \in s.liveRows + 1..Len(s.rows)
      BY <1>1, <2>18
    <3>3. LiveRows(u) = LiveRows(s)
      BY <1>1, <2>14, <2>15, <3>1
    <3>4. TailRows(u) = TailRows(s)
      BY <1>1, <2>14, <2>16, <2>17, <3>2
    <3> QED BY <3>3, <3>4
  <2>19. u.rows[b] = s.rows[a]
    BY <1>3, <2>8, <2>10
  <2> QED BY <2>8, <2>10, <2>13, <2>18, <2>19
<1> QED BY <1>2, <1>3

\* The boundary of the live rows moved by one.
LEMMA OneMoreLive ==
  ASSUME NEW s, Shape(s), s.liveRows < Len(s.rows), NEW u, u = [s EXCEPT !.liveRows = s.liveRows + 1],
         NEW x, x = s.rows[s.liveRows + 1]
  PROVE  /\ Shape(u) /\ sameKind(u, s) /\ sameList(u, s) /\ u.rows = s.rows /\ u.liveRows = s.liveRows + 1
         /\ LiveRows(u) = without(LiveRows(s), x.owner) \cup {x} /\ TailRows(u) = without(TailRows(s), x.owner)
<1>1. s \in Stores /\ Len(s.rows) \in Nat /\ s.liveRows \in Nat
  BY StoreParts DEF Shape
<1>2. PICK k : k = s.liveRows + 1
  OBVIOUS
<1>3. k \in Nat /\ k \in 1..Len(s.rows) /\ k <= Len(s.rows)
  BY <1>1, <1>2
<1>4. u \in Stores
  BY ONLY <1>1, <1>2, <1>3, u = [s EXCEPT !.liveRows = s.liveRows + 1] DEF Stores
<1>5. /\ u.rows = s.rows /\ u.liveRows = k /\ u.rowByIndex = s.rowByIndex
      /\ sameKind(u, s) /\ sameList(u, s)
  BY ONLY <1>1, <1>2, u = [s EXCEPT !.liveRows = s.liveRows + 1] DEF Stores, sameKind, sameList
<1>6. Shape(u)
  BY <1>3, <1>4, <1>5 DEF Shape, LinksInv
<1>7. \A n \in 1..Len(s.rows) : s.rows[n].owner = x.owner <=> n = k
  <2>1. \A n \in 1..Len(s.rows) : s.rowByIndex[index(s.rows[n].owner)] = n
    BY Linked
  <2> QED BY <1>2, <1>3, <2>1
<1>8. LiveRows(u) = without(LiveRows(s), x.owner) \cup {x}
  <2>1. \A n \in 1..k : n \in 1..Len(s.rows) /\ (n = k \/ n \in 1..s.liveRows)
    BY <1>1, <1>2, <1>3
  <2>2. \A n \in 1..s.liveRows : n \in 1..k /\ n # k
    BY <1>1, <1>2, <1>3
  <2>3. k \in 1..k
    BY <1>3
  <2> QED BY <1>2, <1>5, <1>7, <2>1, <2>2, <2>3 DEF LiveRows, without
<1>9. TailRows(u) = without(TailRows(s), x.owner)
  <2>1. \A n \in k + 1..Len(s.rows) : n \in 1..Len(s.rows) /\ n # k /\ n \in s.liveRows + 1..Len(s.rows)
    BY <1>1, <1>2, <1>3
  <2>2. \A n \in s.liveRows + 1..Len(s.rows) : n \in 1..Len(s.rows) /\ (n # k => n \in k + 1..Len(s.rows))
    BY <1>1, <1>2, <1>3
  <2> QED BY <1>5, <1>7, <2>1, <2>2 DEF TailRows, without
<1> QED BY <1>2, <1>5, <1>6, <1>8, <1>9

\* The other way.
LEMMA OneLessLive ==
  ASSUME NEW s, Shape(s), s.liveRows # 0, NEW u, u = [s EXCEPT !.liveRows = s.liveRows - 1],
         NEW x, x = s.rows[s.liveRows]
  PROVE  /\ Shape(u) /\ sameKind(u, s) /\ sameList(u, s) /\ u.rows = s.rows /\ u.liveRows = s.liveRows - 1
         /\ LiveRows(u) = without(LiveRows(s), x.owner) /\ TailRows(u) = without(TailRows(s), x.owner) \cup {x}
<1>1. s \in Stores /\ Len(s.rows) \in Nat /\ s.liveRows \in Nat /\ s.liveRows <= Len(s.rows)
  BY StoreParts DEF Shape
<1>2. PICK j, k : j = s.liveRows - 1 /\ k = s.liveRows
  OBVIOUS
<1>3. j \in Nat /\ k \in 1..Len(s.rows) /\ j <= Len(s.rows) /\ k = j + 1
  BY <1>1, <1>2
<1>4. u \in Stores
  BY ONLY <1>1, <1>2, <1>3, u = [s EXCEPT !.liveRows = s.liveRows - 1] DEF Stores
<1>5. /\ u.rows = s.rows /\ u.liveRows = j /\ u.rowByIndex = s.rowByIndex
      /\ sameKind(u, s) /\ sameList(u, s)
  BY ONLY <1>1, <1>2, u = [s EXCEPT !.liveRows = s.liveRows - 1] DEF Stores, sameKind, sameList
<1>6. Shape(u)
  BY <1>3, <1>4, <1>5 DEF Shape, LinksInv
<1>7. \A n \in 1..Len(s.rows) : s.rows[n].owner = x.owner <=> n = k
  <2>1. \A n \in 1..Len(s.rows) : s.rowByIndex[index(s.rows[n].owner)] = n
    BY Linked
  <2> QED BY <1>2, <1>3, <2>1
<1>8. LiveRows(u) = without(LiveRows(s), x.owner)
  <2>1. \A n \in 1..j : n \in 1..Len(s.rows) /\ n # k /\ n \in 1..s.liveRows
    BY <1>1, <1>2, <1>3
  <2>2. \A n \in 1..s.liveRows : n \in 1..Len(s.rows) /\ (n # k => n \in 1..j)
    BY <1>1, <1>2, <1>3
  <2> QED BY <1>5, <1>7, <2>1, <2>2 DEF LiveRows, without
<1>9. TailRows(u) = without(TailRows(s), x.owner) \cup {x}
  <2>1. \A n \in j + 1..Len(s.rows) : n \in 1..Len(s.rows) /\ (n = k \/ n \in s.liveRows + 1..Len(s.rows))
    BY <1>1, <1>2, <1>3
  <2>2. \A n \in s.liveRows + 1..Len(s.rows) : n \in 1..Len(s.rows) /\ n # k /\ n \in j + 1..Len(s.rows)
    BY <1>1, <1>2, <1>3
  <2>3. k \in j + 1..Len(s.rows)
    BY <1>3
  <2> QED BY <1>2, <1>5, <1>7, <2>1, <2>2, <2>3 DEF TailRows, without
<1> QED BY <1>2, <1>5, <1>6, <1>8, <1>9

\* A row appended for an index without one.
LEMMA Grown ==
  ASSUME NEW s, Shape(s), NEW x \in Rows, linked(s, x.owner) = 0,
         NEW o \in BOOLEAN, NEW k, k = Len(s.rows) + 1,
         NEW u, u = grown(s, x, o, k)
  PROVE  /\ Shape(u) /\ sameKind(u, s) /\ u.changed = s.changed /\ u.overflowed = o
         /\ u.liveRows = s.liveRows /\ Len(u.rows) = k /\ u.rows[k] = x
         /\ LiveRows(u) = LiveRows(s) /\ TailRows(u) = TailRows(s) \cup {x}
<1>1. s \in Stores /\ Len(s.rows) \in Nat /\ s.liveRows \in Nat /\ s.liveRows <= Len(s.rows)
  BY StoreParts DEF Shape
<1>2. s.rows \in Seq(Rows) /\ DOMAIN s.rows = 1..Len(s.rows) /\ s.rowByIndex \in [Indices -> Nat]
  BY <1>1, StoreParts
<1>3. PICK q, i : q = Append(s.rows, x) /\ i = index(x.owner)
  OBVIOUS
<1>4. i \in Indices
  <2>1. x.owner \in Entities
    BY DEF Rows
  <2> QED BY <1>3, <2>1, Parts
<1>5. k \in Nat /\ k # 0 /\ k = Len(s.rows) + 1
  BY <1>1
<1>6. /\ q \in Seq(Rows) /\ Len(q) = k /\ DOMAIN q = 1..k /\ q[k] = x
      /\ \A n \in 1..Len(s.rows) : q[n] = s.rows[n]
  BY <1>2, <1>3, <1>5, AppendProperties, LenProperties
<1>7. PICK l : l = [s.rowByIndex EXCEPT ![i] = k]
  OBVIOUS
<1>8. l \in [Indices -> Nat] /\ \A n \in Indices : l[n] = IF n = i THEN k ELSE s.rowByIndex[n]
  BY <1>2, <1>4, <1>5, <1>7
<1>9. u = [s EXCEPT !.overflowed = o, !.rows = q, !.rowByIndex = l]
  BY <1>3, <1>7 DEF grown
<1>10. u \in Stores
  BY ONLY <1>1, <1>6, <1>8, <1>9, o \in BOOLEAN DEF Stores
<1>11. /\ u.rows = q /\ u.liveRows = s.liveRows /\ u.rowByIndex = l
       /\ sameKind(u, s) /\ u.changed = s.changed /\ u.overflowed = o
  BY ONLY <1>1, <1>9 DEF Stores, sameKind
<1>12. s.rowByIndex[i] = 0
  BY <1>3 DEF linked
<1>13. \A n \in 1..k : n = k \/ (n \in 1..Len(s.rows) /\ n # k)
  BY <1>1, <1>5
<1>14. \A n \in 1..Len(s.rows) : n \in 1..k /\ n # k /\ n # 0
  BY <1>1, <1>5
<1>15. ASSUME NEW n \in 1..k PROVE l[index(q[n].owner)] = n
  <2>1. CASE n = k
    BY <1>3, <1>4, <1>6, <1>8, <2>1
  <2>2. CASE n # k
    <3>1. n \in 1..Len(s.rows) /\ n # 0
      BY <1>13, <1>14, <2>2
    <3>2. s.rowByIndex[index(s.rows[n].owner)] = n /\ index(s.rows[n].owner) \in Indices
      BY <1>1, <3>1, StoreParts, Linked
    <3> QED BY <1>6, <1>8, <1>12, <3>1, <3>2
  <2> QED BY <2>1, <2>2
<1>16. ASSUME NEW n \in Indices, l[n] # 0 PROVE l[n] \in 1..k /\ index(q[l[n]].owner) = n
  <2>1. CASE n = i
    <3>1. l[n] = k /\ k \in 1..k
      BY <1>5, <1>8, <2>1
    <3> QED BY <1>3, <1>6, <2>1, <3>1
  <2>2. CASE n # i
    <3>1. l[n] = s.rowByIndex[n]
      BY <1>8, <2>2
    <3>2. l[n] \in 1..Len(s.rows) /\ index(s.rows[l[n]].owner) = n
      BY <1>16, <3>1, Linked
    <3> QED BY <1>6, <1>14, <3>2
  <2> QED BY <2>1, <2>2
<1>17. Shape(u)
  <2>1. LinksInv(u)
    <3>1. u.rows = q /\ u.rowByIndex = l /\ DOMAIN q = 1..k
      BY <1>6, <1>11
    <3> QED BY <1>15, <1>16, <3>1 DEF LinksInv
  <2>2. s.liveRows <= k
    BY <1>1, <1>5
  <2> QED BY <1>6, <1>10, <1>11, <2>1, <2>2 DEF Shape
<1>18. LiveRows(u) = LiveRows(s)
  <2>1. \A n \in 1..s.liveRows : n \in 1..Len(s.rows)
    BY <1>1
  <2>2. \A n \in 1..s.liveRows : q[n] = s.rows[n]
    BY <1>6, <2>1
  <2> QED BY <1>11, <2>2 DEF LiveRows
<1>19. TailRows(u) = TailRows(s) \cup {x}
  <2>1. \A n \in s.liveRows + 1..k : n = k \/ (n \in s.liveRows + 1..Len(s.rows) /\ n \in 1..Len(s.rows))
    BY <1>1, <1>5
  <2>2. \A n \in s.liveRows + 1..Len(s.rows) : n \in s.liveRows + 1..k /\ n \in 1..Len(s.rows)
    BY <1>1, <1>5
  <2>3. k \in s.liveRows + 1..k
    BY <1>1, <1>5
  <2> QED BY <1>6, <1>11, <2>1, <2>2, <2>3 DEF TailRows
<1> QED BY <1>6, <1>11, <1>17, <1>18, <1>19

\* An unobserved store drops a row for good.
LEMMA Dropped ==
  ASSUME NEW s, Shape(s), s.liveRows = Len(s.rows), NEW e \in Entities, has(s, e), NEW u, u = drop(s, e)
  PROVE  /\ Shape(u) /\ sameKind(u, s) /\ sameList(u, s) /\ u.liveRows = Len(u.rows)
         /\ LiveRows(u) = without(LiveRows(s), e) /\ TailRows(u) = {}
<1>1. s \in Stores /\ Len(s.rows) \in Nat /\ s.liveRows \in Nat
  BY StoreParts DEF Shape
<1>2. s.rows \in Seq(Rows) /\ DOMAIN s.rows = 1..Len(s.rows) /\ s.rowByIndex \in [Indices -> Nat]
  BY <1>1, StoreParts
<1>3. PICK a, b, i, j : a = linked(s, e) /\ b = s.liveRows /\ i = index(e) /\ j = index(s.rows[b].owner)
  OBVIOUS
<1>4. a \in 1..b /\ s.rows[a].owner = e /\ b = Len(s.rows)
  BY <1>3, Finds
<1>5. b \in Nat /\ b \in 1..b /\ b - 1 \in Nat /\ a \in Nat /\ i \in Indices /\ j \in Indices
  <2>1. b \in Nat /\ b \in 1..b /\ b - 1 \in Nat /\ a \in Nat
    BY <1>1, <1>4
  <2> QED BY <1>1, <1>3, <1>4, <2>1, Parts, StoreParts
<1>6. PICK m : m = [s.rows EXCEPT ![a] = s.rows[b]]
  OBVIOUS
<1>7. /\ m \in Seq(Rows) /\ Len(m) = b
      /\ \A n \in 1..b : m[n] = IF n = a THEN s.rows[b] ELSE s.rows[n]
  <2>1. m \in [1..b -> Rows]
    BY <1>1, <1>2, <1>4, <1>5, <1>6, StoreParts
  <2>2. m \in Seq(Rows)
    BY <1>5, <2>1, SeqDef
  <2> QED BY <1>2, <1>4, <1>5, <1>6, <2>1, <2>2, LenProperties
<1>8. PICK q, k : q = SubSeq(m, 1, b - 1) /\ k = b - 1
  OBVIOUS
<1>9. /\ q \in Seq(Rows) /\ Len(q) = k /\ DOMAIN q = 1..k
      /\ \A n \in 1..k : q[n] = IF n = a THEN s.rows[b] ELSE s.rows[n]
  <2>1. q \in Seq(Rows) /\ Len(q) = k /\ \A n \in 1..k : q[n] = m[n]
    <3>1. 1 \in 1..Len(m) + 1 /\ k \in 0..Len(m) /\ k - 1 + 1 = k
      BY <1>5, <1>7, <1>8
    <3>2. q \in Seq(Rows) /\ Len(q) = IF 1 <= k THEN k - 1 + 1 ELSE 0
      BY <1>5, <1>7, <1>8, <3>1, SubSeqProperties
    <3>3. k \in Nat /\ Len(q) = k
      BY <1>5, <1>8, <3>2
    <3>4. \A n \in 1..k : q[n] = m[n]
      BY <1>5, <1>7, <1>8, <3>1, SubSeqProperties
    <3> QED BY <3>2, <3>3, <3>4
  <2>2. \A n \in 1..k : n \in 1..b
    BY <1>5, <1>8
  <2> QED BY <1>7, <2>1, <2>2, LenProperties
<1>10. PICK l : l = [n \in Indices |-> IF n = i THEN 0 ELSE IF n = j THEN a ELSE s.rowByIndex[n]]
  OBVIOUS
<1>11. l \in [Indices -> Nat] /\ \A n \in Indices : l[n] = IF n = i THEN 0 ELSE IF n = j THEN a ELSE s.rowByIndex[n]
  BY <1>2, <1>5, <1>10
<1>12. u = [s EXCEPT !.rows = q, !.liveRows = k, !.rowByIndex = l]
  BY <1>3, <1>6, <1>8, <1>10 DEF drop
<1>13. k \in Nat /\ b = k + 1
  BY <1>5, <1>8
<1>14. u \in Stores
  BY ONLY <1>1, <1>9, <1>11, <1>12, <1>13 DEF Stores
<1>15. /\ u.rows = q /\ u.liveRows = k /\ u.rowByIndex = l
       /\ sameKind(u, s) /\ sameList(u, s)
  BY ONLY <1>1, <1>12 DEF Stores, sameKind, sameList
<1>16. \A n \in 1..b : s.rowByIndex[index(s.rows[n].owner)] = n /\ index(s.rows[n].owner) \in Indices
  BY <1>1, <1>4, StoreParts, Linked
<1>17. s.rowByIndex[i] = a /\ s.rowByIndex[j] = b
  BY <1>3, <1>4, <1>5, <1>16
<1>18. ASSUME NEW n \in 1..k PROVE n \in 1..b /\ n # b /\ l[index(q[n].owner)] = n
  <2>1. n \in 1..b /\ n # b
    BY <1>13
  <2>2. CASE n = a
    <3>1. i # j
      BY <1>17, <2>1, <2>2
    <3>2. q[n] = s.rows[b]
      BY <1>9, <2>2
    <3> QED BY <1>3, <1>5, <1>11, <2>1, <2>2, <3>1, <3>2
  <2>3. CASE n # a
    <3>1. PICK x : x = index(s.rows[n].owner)
      OBVIOUS
    <3>2. x \in Indices /\ s.rowByIndex[x] = n
      BY <1>16, <2>1, <3>1
    <3>3. x # i /\ x # j
      BY <1>17, <2>1, <2>3, <3>2
    <3>4. q[n] = s.rows[n]
      BY <1>9, <2>3
    <3> QED BY <1>11, <2>1, <3>1, <3>2, <3>3, <3>4
  <2> QED BY <2>2, <2>3
<1>19. ASSUME NEW n \in Indices, l[n] # 0 PROVE l[n] \in 1..k /\ index(q[l[n]].owner) = n
  <2>1. n # i
    BY <1>11, <1>19
  <2>2. CASE n = j
    <3>1. l[n] = a
      BY <1>11, <2>1, <2>2
    <3>2. a # b
      BY <1>3, <1>4, <2>1, <2>2
    <3>3. a \in 1..k
      BY <1>4, <1>13, <3>2
    <3> QED BY <1>3, <1>9, <2>2, <3>1, <3>3
  <2>3. CASE n # j
    <3>1. l[n] = s.rowByIndex[n]
      BY <1>11, <2>1, <2>3
    <3>2. l[n] \in 1..b /\ index(s.rows[l[n]].owner) = n
      BY <1>4, <1>19, <3>1, Linked
    <3>3. l[n] # b /\ l[n] # a
      BY <1>3, <1>4, <2>1, <2>3, <3>2
    <3>4. l[n] \in 1..k
      BY <1>13, <3>2, <3>3
    <3> QED BY <1>9, <3>2, <3>3, <3>4
  <2> QED BY <2>2, <2>3
<1>20. Shape(u)
  <2>1. LinksInv(u)
    BY <1>9, <1>15, <1>18, <1>19 DEF LinksInv
  <2>2. k <= k
    BY <1>13
  <2> QED BY <1>9, <1>14, <1>15, <2>1, <2>2 DEF Shape
<1>21. LiveRows(u) = without(LiveRows(s), e)
  <2>1. \A n \in 1..b : s.rows[n].owner = e <=> n = a
    BY <1>3, <1>4, <1>5, <1>16
  <2>2. ASSUME NEW n \in 1..k PROVE \E r \in 1..b : r # a /\ q[n] = s.rows[r]
    <3>1. n \in 1..b /\ n # b
      BY <1>18
    <3>2. CASE n = a
      BY <1>5, <1>9, <3>1, <3>2
    <3>3. CASE n # a
      BY <1>9, <3>1, <3>3
    <3> QED BY <3>2, <3>3
  <2>3. ASSUME NEW r \in 1..b, r # a PROVE \E n \in 1..k : q[n] = s.rows[r]
    <3>1. CASE r = b
      <4>1. a \in 1..k
        BY <1>4, <1>13, <2>3, <3>1
      <4> QED BY <1>9, <3>1, <4>1
    <3>2. CASE r # b
      <4>1. r \in 1..k
        BY <1>13, <3>2
      <4> QED BY <1>9, <2>3, <4>1
    <3> QED BY <3>1, <3>2
  <2>4. LiveRows(u) = span(q, 1, k) /\ LiveRows(s) = span(s.rows, 1, b)
    BY <1>3, <1>15 DEF LiveRows, span
  <2>5. span(q, 1, k) = without(span(s.rows, 1, b), e)
    <3>1. \A y : y \in span(q, 1, k) <=> \E n \in 1..k : y = q[n]
      BY DEF span
    <3>2. \A y : y \in without(span(s.rows, 1, b), e) <=> \E r \in 1..b : y = s.rows[r] /\ s.rows[r].owner # e
      BY DEF span, without
    <3>3. \A y : y \in span(q, 1, k) => y \in without(span(s.rows, 1, b), e)
      BY <2>1, <2>2, <3>1, <3>2
    <3>4. \A y : y \in without(span(s.rows, 1, b), e) => y \in span(q, 1, k)
      BY <2>1, <2>3, <3>1, <3>2
    <3> QED BY <3>3, <3>4
  <2> QED BY <2>4, <2>5
<1>22. TailRows(u) = {}
  <2>1. k + 1..k = {}
    BY <1>13
  <2> QED BY <1>9, <1>15, <2>1 DEF TailRows
<1> QED BY <1>9, <1>15, <1>20, <1>21, <1>22

\* A row put among the live ones, or in the tail, in place of what the entity had.
Puts(s, u, e, x) ==
  /\ Shape(u) /\ sameKind(u, s) /\ x \in Rows /\ x.owner = e
  /\ LiveRows(u) = without(LiveRows(s), e) \cup {x} /\ TailRows(u) = without(TailRows(s), e)
Tails(s, u, e, x) ==
  /\ Shape(u) /\ sameKind(u, s) /\ x \in Rows /\ x.owner = e
  /\ LiveRows(u) = without(LiveRows(s), e) /\ TailRows(u) = without(TailRows(s), e) \cup {x}
\* The entity is listed, or the listing stopped.
Lists(u, s, e) ==
  u.overflowed \/ (u.changed = Append(s.changed, e) /\ u.overflowed = s.overflowed)

\* Taking an entity's rows away twice.
LEMMA WithoutTwice ==
  ASSUME NEW R, NEW e, NEW S, S = without(R, e)
  PROVE  without(S, e) = without(R, e)
BY DEF without

\* Taking them away, and putting one back in between.
LEMMA WithoutPut ==
  ASSUME NEW R, NEW e, NEW x, x.owner = e, NEW S, S = without(R, e) \cup {x}
  PROVE  without(S, e) = without(R, e)
BY DEF without

\* What listing leaves alone.
LEMMA Listing ==
  ASSUME NEW s, Shape(s), NEW e \in Entities, NEW u, u = listChanged(s, e)
  PROVE  /\ Shape(u) /\ sameKind(u, s) /\ Lists(u, s, e) /\ u.rows = s.rows /\ u.liveRows = s.liveRows
         /\ LiveRows(u) = LiveRows(s) /\ TailRows(u) = TailRows(s)
<1>1. s \in Stores /\ s.changed \in Seq(Entities)
  BY StoreParts DEF Shape
<1>2. PICK q, o : u = [s EXCEPT !.changed = q, !.overflowed = o] /\ q \in Seq(Entities) /\ o \in BOOLEAN
                  /\ (o \/ (q = Append(s.changed, e) /\ o = s.overflowed))
  <2>1. CASE Len(s.changed) < s.liveRows \div 2^ChangedEntitiesShift
    <3>1. PICK q, o : q = Append(s.changed, e) /\ o = s.overflowed
      OBVIOUS
    <3>2. q \in Seq(Entities)
      BY <1>1, <3>1, AppendProperties
    <3>3. o \in BOOLEAN
      BY <1>1, <3>1, StoreParts
    <3>4. u = [s EXCEPT !.changed = q]
      BY <2>1, <3>1 DEF listChanged
    <3>5. u = [s EXCEPT !.changed = q, !.overflowed = o]
      BY ONLY <1>1, <3>1, <3>4 DEF Stores
    <3> QED BY <3>1, <3>2, <3>3, <3>5
  <2>2. CASE ~(Len(s.changed) < s.liveRows \div 2^ChangedEntitiesShift)
    <3>1. PICK q : q = s.changed
      OBVIOUS
    <3>2. u = [s EXCEPT !.overflowed = TRUE]
      BY <2>2 DEF listChanged
    <3>3. u = [s EXCEPT !.changed = q, !.overflowed = TRUE]
      BY ONLY <1>1, <3>1, <3>2 DEF Stores
    <3> QED BY <1>1, <3>1, <3>3
  <2> QED BY <2>1, <2>2
<1>3. u \in Stores
  BY ONLY <1>1, <1>2 DEF Stores
<1>4. /\ u.rows = s.rows /\ u.liveRows = s.liveRows /\ u.rowByIndex = s.rowByIndex
      /\ sameKind(u, s) /\ u.changed = q /\ u.overflowed = o
  BY ONLY <1>1, <1>2 DEF Stores, sameKind
<1>5. Lists(u, s, e)
  BY <1>2, <1>4 DEF Lists
<1>6. Shape(u)
  BY <1>3, <1>4 DEF Shape, LinksInv
<1>7. LiveRows(u) = LiveRows(s) /\ TailRows(u) = TailRows(s)
  BY <1>4 DEF LiveRows, TailRows
<1> QED BY <1>4, <1>5, <1>6, <1>7

\* The row a write makes of x, and what it does.
stale(s, x) == s.observation = "observed" /\ x.state = "Unchanged"
writtenRow(s, x, v) ==
  [x EXCEPT !.state = IF stale(s, x) THEN "Changed" ELSE @, !.value = v]

\* What write does.
LEMMA WriteDoes ==
  ASSUME NEW s, Shape(s), BoundsInv(s), NEW e \in Entities, has(s, e), NEW v \in Values,
         NEW x, x = s.rows[linked(s, e)], NEW u, u = write(s, e, v)
  PROVE  /\ Puts(s, u, e, writtenRow(s, x, v)) /\ BoundsInv(u)
         /\ stale(s, x) => Lists(u, s, e)
         /\ ~stale(s, x) => sameList(u, s)
<1>1. s \in Stores
  BY DEF Shape
<1>2. PICK n : n = linked(s, e)
  OBVIOUS
<1>3. n \in 1..s.liveRows /\ n \in 1..Len(s.rows) /\ x = s.rows[n] /\ x.owner = e
  BY <1>2, Finds
<1>4. x \in Rows
  BY <1>1, <1>3, StoreParts
<1>5. n <= s.liveRows
  BY <1>1, <1>3, StoreParts
<1>6. PICK m : m = markChanged(s, n)
  OBVIOUS
<1>7. PICK z : z = [x EXCEPT !.state = IF stale(s, x) THEN "Changed" ELSE @]
  OBVIOUS
<1>8. z \in Rows /\ z.owner = e /\ writtenRow(s, x, v) = [z EXCEPT !.value = v]
  <2>1. z \in Rows /\ z.owner = e
    BY <1>3, <1>4, <1>7 DEF Rows, States
  <2>2. writtenRow(s, x, v) = [z EXCEPT !.value = v]
    BY <1>4, <1>7 DEF Rows, writtenRow
  <2> QED BY <2>1, <2>2
<1>9. /\ Shape(m) /\ sameKind(m, s) /\ m.liveRows = s.liveRows /\ Len(m.rows) = Len(s.rows) /\ m.rows[n] = z
      /\ LiveRows(m) = without(LiveRows(s), e) \cup {z} /\ TailRows(m) = without(TailRows(s), e)
      /\ stale(s, x) => Lists(m, s, e)
      /\ ~stale(s, x) => sameList(m, s)
  <2>1. CASE stale(s, x)
    <3>1. PICK k : k = rewritten(s, n, z)
      OBVIOUS
    <3>2. /\ Shape(k) /\ sameKind(k, s) /\ sameList(k, s) /\ k.liveRows = s.liveRows
          /\ k.rows[n] = z /\ Len(k.rows) = Len(s.rows)
          /\ LiveRows(k) = without(LiveRows(s), e) \cup {z} /\ TailRows(k) = without(TailRows(s), e)
      BY <1>3, <1>5, <1>8, <3>1, Rewritten
    <3>3. m = listChanged(k, e)
      <4>1. z = [s.rows[n] EXCEPT !.state = "Changed"]
        BY <1>3, <1>7, <2>1
      <4>2. m = listChanged([s EXCEPT !.rows[n].state = "Changed"], s.rows[n].owner)
        BY <1>3, <1>6, <2>1 DEF markChanged, stale
      <4>3. [s EXCEPT !.rows[n].state = "Changed"] = k
        BY <3>1, <4>1 DEF rewritten
      <4> QED BY <1>3, <4>2, <4>3
    <3>4. /\ Shape(m) /\ sameKind(m, k) /\ Lists(m, k, e) /\ m.rows = k.rows /\ m.liveRows = k.liveRows
          /\ LiveRows(m) = LiveRows(k) /\ TailRows(m) = TailRows(k)
      BY <3>2, <3>3, Listing
    <3>5. sameKind(m, s) /\ Lists(m, s, e)
      BY <3>2, <3>4 DEF sameKind, Lists, sameList
    <3> QED BY <2>1, <3>2, <3>4, <3>5
  <2>2. CASE ~stale(s, x)
    <3>1. m = s
      BY <1>3, <1>6, <2>2 DEF markChanged, stale
    <3>2. z = x
      BY <1>4, <1>7, <2>2 DEF Rows
    <3>3. \A y \in RowsOf(s) : y.owner = e => y = x
      <4>1. x \in RowsOf(s)
        BY <1>3, Finds DEF RowsOf, LiveRows
      <4> QED BY <1>3, <4>1, RowsApart
    <3>4. x \in LiveRows(s) /\ x \notin TailRows(s)
      <4>1. x \in LiveRows(s)
        BY <1>3 DEF LiveRows
      <4> QED BY <4>1, RowsApart
    <3>5. LiveRows(s) = without(LiveRows(s), e) \cup {x} /\ TailRows(s) = without(TailRows(s), e)
      BY <3>3, <3>4 DEF without, RowsOf
    <3> QED BY <1>3, <2>2, <3>1, <3>2, <3>5 DEF sameKind, sameList
  <2> QED BY <2>1, <2>2
<1>10. PICK y : y = writtenRow(s, x, v)
  OBVIOUS
<1>11. y \in Rows /\ y.owner = e
  BY <1>8, <1>10 DEF Rows
<1>12. u = rewritten(m, n, y)
  BY <1>2, <1>6, <1>8, <1>9, <1>10 DEF write, rewritten
<1>13. /\ Shape(u) /\ sameKind(u, m) /\ sameList(u, m) /\ u.liveRows = m.liveRows /\ Len(u.rows) = Len(m.rows)
       /\ LiveRows(u) = without(LiveRows(m), e) \cup {y} /\ TailRows(u) = without(TailRows(m), e)
  <2>1. Shape(m) /\ n \in 1..Len(m.rows) /\ y \in Rows /\ y.owner = m.rows[n].owner /\ n <= m.liveRows
    BY <1>3, <1>5, <1>8, <1>9, <1>11
  <2> QED BY ONLY <1>11, <1>12, <2>1, Rewritten
<1>14. LiveRows(u) = without(LiveRows(s), e) \cup {y} /\ TailRows(u) = without(TailRows(s), e)
  <2>1. without(LiveRows(m), e) = without(LiveRows(s), e)
    BY ONLY <1>8, <1>9, WithoutPut
  <2>2. without(TailRows(m), e) = without(TailRows(s), e)
    BY ONLY <1>9, WithoutTwice
  <2> QED BY <1>13, <2>1, <2>2
<1>15. sameKind(u, s) /\ (stale(s, x) => Lists(u, s, e)) /\ (~stale(s, x) => sameList(u, s))
  BY <1>9, <1>13 DEF sameKind, Lists, sameList
<1>16. BoundsInv(u)
  BY <1>9, <1>13, <1>15 DEF BoundsInv, sameKind
<1> QED BY <1>10, <1>11, <1>13, <1>14, <1>15, <1>16 DEF Puts

\* No other entity has a row at the index of e.
Alone(s, e) == \A x \in RowsOf(s) : index(x.owner) = index(e) => x.owner = e
\* The row that comes back from the tail, and a new one.
readdedRow(x, v) ==
  [x EXCEPT !.state = IF @ = "Discarded" THEN "Added" ELSE "Changed", !.value = v]
newRow(s, e, v) ==
  [owner |-> e, value |-> v, shadow |-> Unset,
   state |-> IF s.observation = "observed" THEN "Added" ELSE "Unchanged"]

\* A value written to the row that was added last.
LEMMA ValueWritten ==
  ASSUME NEW s, NEW m, NEW e \in Entities, NEW z, Puts(s, m, e, z), z = m.rows[m.liveRows],
         m.liveRows # 0, NEW v \in Values, NEW u, u = [m EXCEPT !.rows[m.liveRows].value = v],
         NEW y, y = [z EXCEPT !.value = v]
  PROVE  Puts(s, u, e, y) /\ sameList(u, m) /\ u.liveRows = m.liveRows /\ Len(u.rows) = Len(m.rows)
<1>1. Shape(m) /\ z \in Rows /\ z.owner = e
  BY DEF Puts
<1>2. m \in Stores /\ m.liveRows \in Nat /\ m.liveRows <= Len(m.rows) /\ Len(m.rows) \in Nat
  BY <1>1, StoreParts DEF Shape
<1>3. PICK n : n = m.liveRows
  OBVIOUS
<1>4. n \in 1..Len(m.rows) /\ n <= m.liveRows
  BY <1>2, <1>3
<1>5. y \in Rows /\ y.owner = e
  BY <1>1 DEF Rows
<1>6. u = rewritten(m, n, y)
  BY <1>3 DEF rewritten
<1>7. y.owner = m.rows[n].owner
  BY <1>1, <1>3, <1>5
<1>8. /\ Shape(u) /\ sameKind(u, m) /\ sameList(u, m) /\ u.liveRows = m.liveRows /\ Len(u.rows) = Len(m.rows)
      /\ LiveRows(u) = without(LiveRows(m), e) \cup {y} /\ TailRows(u) = without(TailRows(m), e)
  BY ONLY <1>1, <1>4, <1>5, <1>6, <1>7, Rewritten
<1>9. LiveRows(u) = without(LiveRows(s), e) \cup {y} /\ TailRows(u) = without(TailRows(s), e)
  <2>1. LiveRows(m) = without(LiveRows(s), e) \cup {z} /\ TailRows(m) = without(TailRows(s), e)
    BY DEF Puts
  <2>2. without(LiveRows(m), e) = without(LiveRows(s), e)
    BY ONLY <1>1, <2>1, WithoutPut
  <2>3. without(TailRows(m), e) = without(TailRows(s), e)
    BY ONLY <2>1, WithoutTwice
  <2> QED BY <1>8, <2>2, <2>3
<1>10. sameKind(u, s)
  BY <1>8 DEF sameKind, Puts
<1> QED BY <1>5, <1>8, <1>9, <1>10 DEF Puts

\* What add does with the row an entity left in the tail.
LEMMA ReaddDoes ==
  ASSUME NEW s, Shape(s), NEW e \in Entities, inTail(s, e), s.observation = "observed", NEW v \in Values,
         NEW x, x = s.rows[linked(s, e)], NEW u, u = add(s, e, v)
  PROVE  Puts(s, u, e, readdedRow(x, v)) /\ sameList(u, s) /\ BoundsInv(u)
<1>1. s \in Stores /\ s.liveRows \in Nat /\ Len(s.rows) \in Nat /\ s.liveRows <= Len(s.rows)
  BY StoreParts DEF Shape
<1>2. PICK a, b : a = linked(s, e) /\ b = s.liveRows + 1
  OBVIOUS
<1>3. a \in b..Len(s.rows) /\ a \in 1..Len(s.rows) /\ x = s.rows[a] /\ x.owner = e /\ x \in Rows
  BY <1>1, <1>2, Finds, StoreParts
<1>4. b \in 1..Len(s.rows) /\ ~(a <= s.liveRows) /\ ~(b <= s.liveRows) /\ s.liveRows < Len(s.rows)
  BY <1>1, <1>2, <1>3
<1>5. PICK k : k = swap(s, a, b)
  OBVIOUS
<1>6. /\ Shape(k) /\ sameKind(k, s) /\ sameList(k, s) /\ k.liveRows = s.liveRows
      /\ Len(k.rows) = Len(s.rows) /\ k.rows[b] = x
      /\ LiveRows(k) = LiveRows(s) /\ TailRows(k) = TailRows(s)
  BY <1>3, <1>4, <1>5, Exchanged
<1>7. PICK l : l = [k EXCEPT !.liveRows = k.liveRows + 1]
  OBVIOUS
<1>8. /\ Shape(l) /\ sameKind(l, k) /\ sameList(l, k) /\ l.rows = k.rows /\ l.liveRows = k.liveRows + 1
      /\ LiveRows(l) = without(LiveRows(k), e) \cup {x} /\ TailRows(l) = without(TailRows(k), e)
  <2>1. x = k.rows[k.liveRows + 1] /\ k.liveRows < Len(k.rows)
    BY <1>2, <1>4, <1>6
  <2> QED BY <1>3, <1>6, <1>7, <2>1, OneMoreLive
<1>9. l.liveRows = b /\ l.rows[b] = x /\ b \in 1..Len(l.rows) /\ b <= l.liveRows
  BY <1>1, <1>2, <1>4, <1>6, <1>8
<1>10. PICK z : z = [x EXCEPT !.state = IF @ = "Discarded" THEN "Added" ELSE "Changed"]
  OBVIOUS
<1>11. z \in Rows /\ z.owner = e /\ readdedRow(x, v) = [z EXCEPT !.value = v]
  <2>1. z \in Rows /\ z.owner = e
    BY <1>3, <1>10 DEF Rows, States
  <2>2. readdedRow(x, v) = [z EXCEPT !.value = v]
    BY <1>3, <1>10 DEF Rows, readdedRow
  <2> QED BY <2>1, <2>2
<1>12. PICK m : m = rewritten(l, b, z)
  OBVIOUS
<1>13. /\ Shape(m) /\ sameKind(m, l) /\ sameList(m, l) /\ m.liveRows = l.liveRows
       /\ m.rows[b] = z /\ Len(m.rows) = Len(l.rows)
       /\ LiveRows(m) = without(LiveRows(l), e) \cup {z} /\ TailRows(m) = without(TailRows(l), e)
  <2>1. z.owner = l.rows[b].owner
    BY <1>3, <1>9, <1>11
  <2>2. Shape(l) /\ b \in 1..Len(l.rows) /\ b <= l.liveRows /\ z \in Rows
    BY <1>8, <1>9, <1>11
  <2>3. /\ Shape(m) /\ sameKind(m, l) /\ sameList(m, l) /\ m.liveRows = l.liveRows
        /\ m.rows[b] = z /\ Len(m.rows) = Len(l.rows)
    BY ONLY <1>12, <2>1, <2>2, Rewritten
  <2>4. LiveRows(m) = without(LiveRows(l), z.owner) \cup {z} /\ TailRows(m) = without(TailRows(l), z.owner)
    BY ONLY <1>12, <2>1, <2>2, Rewritten
  <2> QED BY <1>11, <2>3, <2>4
<1>14. readd(s, e) = m
  <2>1. readd(s, e) = [k EXCEPT !.rows[b].state = IF @ = "Discarded" THEN "Added" ELSE "Changed", !.liveRows = b]
    BY <1>2, <1>5 DEF readd
  <2>2. b = k.liveRows + 1
    BY <1>2, <1>6
  <2>3. k \in Stores
    BY <1>6 DEF Shape
  <2> QED BY <1>6, <1>7, <1>8, <1>10, <1>12, <2>1, <2>2, <2>3 DEF Stores, rewritten
<1>15. Puts(s, m, e, z) /\ z = m.rows[m.liveRows] /\ m.liveRows # 0
  <2>1. LiveRows(m) = without(LiveRows(s), e) \cup {z} /\ TailRows(m) = without(TailRows(s), e)
    <3>1. LiveRows(l) = without(LiveRows(s), e) \cup {x} /\ TailRows(l) = without(TailRows(s), e)
      BY <1>6, <1>8
    <3>2. without(LiveRows(l), e) = without(LiveRows(s), e)
      <4>1. x.owner = e
        BY <1>3
      <4> QED BY ONLY <3>1, <4>1, WithoutPut
    <3>3. without(TailRows(l), e) = without(TailRows(s), e)
      BY ONLY <3>1, WithoutTwice
    <3> QED BY <1>13, <3>2, <3>3
  <2>2. sameKind(m, s)
    BY <1>6, <1>8, <1>13 DEF sameKind
  <2>3. m.liveRows = b /\ b # 0
    BY <1>4, <1>9, <1>13
  <2> QED BY <1>11, <1>13, <2>1, <2>2, <2>3 DEF Puts
<1>16. u = [m EXCEPT !.rows[m.liveRows].value = v]
  BY <1>14 DEF add
<1>17. Puts(s, u, e, readdedRow(x, v)) /\ sameList(u, m)
  <2>1. PICK y : y = readdedRow(x, v)
    OBVIOUS
  <2>2. y = [z EXCEPT !.value = v]
    BY <1>11, <2>1
  <2>3. Puts(s, u, e, y) /\ sameList(u, m)
    BY ONLY <1>15, <1>16, <2>2, e \in Entities, v \in Values, ValueWritten, SMTT(30)
  <2> QED BY <2>1, <2>3
<1>18. sameList(u, s)
  BY <1>6, <1>8, <1>13, <1>17 DEF sameList
<1>19. BoundsInv(u)
  BY <1>17 DEF BoundsInv, Puts, Shape, sameKind
<1> QED BY <1>17, <1>18, <1>19

\* What add does for an entity without a row.
LEMMA AppendDoes ==
  ASSUME NEW s, Shape(s), BoundsInv(s), NEW e \in Entities, ~has(s, e), ~inTail(s, e), Alone(s, e),
         NEW v \in Values, NEW u, u = add(s, e, v)
  PROVE  /\ Puts(s, u, e, newRow(s, e, v)) /\ BoundsInv(u)
         /\ s.observation = "observed" => Lists(u, s, e)
<1>1. s \in Stores /\ s.liveRows \in Nat /\ Len(s.rows) \in Nat /\ s.liveRows <= Len(s.rows)
      /\ s.overflowed \in BOOLEAN
  BY StoreParts DEF Shape
<1>2. \A x \in RowsOf(s) : x.owner # e
  BY Finds DEF RowsOf
<1>3. linked(s, e) = 0
  BY <1>2, Finds DEF Alone
<1>4. without(LiveRows(s), e) = LiveRows(s) /\ without(TailRows(s), e) = TailRows(s)
  BY <1>2 DEF without, RowsOf
<1>5. PICK z : z = newRow(s, e, Unset)
  OBVIOUS
<1>6. z \in Rows /\ z.owner = e /\ newRow(s, e, v) = [z EXCEPT !.value = v]
  BY <1>5 DEF Rows, newRow, States
<1>7. PICK k, l : k = Len(s.rows) + 1 /\ l = s.liveRows + 1
  OBVIOUS
<1>8. PICK o, g : o = s.overflowed /\ g = grown(s, z, o, k)
  OBVIOUS
<1>9. /\ Shape(g) /\ sameKind(g, s) /\ g.changed = s.changed /\ g.overflowed = o
      /\ g.liveRows = s.liveRows /\ Len(g.rows) = k /\ g.rows[k] = z
      /\ LiveRows(g) = LiveRows(s) /\ TailRows(g) = TailRows(s) \cup {z}
  <2>1. linked(s, z.owner) = 0 /\ o \in BOOLEAN /\ z \in Rows
    BY <1>1, <1>3, <1>6, <1>8
  <2> QED BY ONLY <1>7, <1>8, <2>1, Shape(s), Grown
<1>10. PICK p : p = IF s.observation = "observed" THEN swap(listChanged(g, e), k, l) ELSE g
  OBVIOUS
<1>11. append(s, e) = [p EXCEPT !.liveRows = @ + 1]
  <2>1. g = [s EXCEPT !.overflowed = @ \/ (s.observation = "observed" /\ linked(s, e) # 0),
                      !.rows = Append(@, z), !.rowByIndex[index(e)] = k]
    BY <1>1, <1>3, <1>6, <1>8 DEF Stores, grown
  <2> QED BY <1>5, <1>7, <1>10, <2>1 DEF append, newRow
<1>12. k \in Nat /\ l \in Nat /\ l # 0 /\ l \in 1..k /\ k \in 1..k /\ ~(k <= s.liveRows) /\ ~(l <= s.liveRows)
       /\ s.liveRows < k
  BY <1>1, <1>7
<1>13. /\ Shape(p) /\ sameKind(p, s) /\ p.liveRows = s.liveRows /\ Len(p.rows) = k /\ p.rows[l] = z
       /\ LiveRows(p) = LiveRows(s) /\ TailRows(p) = TailRows(s) \cup {z}
       /\ s.observation = "observed" => Lists(p, s, e)
  <2>1. CASE s.observation = "observed"
    <3>1. PICK h : h = listChanged(g, e)
      OBVIOUS
    <3>2. /\ Shape(h) /\ sameKind(h, g) /\ Lists(h, g, e) /\ h.rows = g.rows /\ h.liveRows = g.liveRows
          /\ LiveRows(h) = LiveRows(g) /\ TailRows(h) = TailRows(g)
      BY <1>9, <3>1, Listing
    <3>3. p = swap(h, k, l) /\ k \in 1..Len(h.rows) /\ l \in 1..Len(h.rows)
          /\ ~(k <= h.liveRows) /\ ~(l <= h.liveRows)
      BY <1>9, <1>10, <1>12, <2>1, <3>1, <3>2
    <3>4. /\ Shape(p) /\ sameKind(p, h) /\ sameList(p, h) /\ p.liveRows = h.liveRows
          /\ Len(p.rows) = Len(h.rows) /\ p.rows[l] = h.rows[k]
          /\ LiveRows(p) = LiveRows(h) /\ TailRows(p) = TailRows(h)
      BY <3>2, <3>3, Exchanged
    <3>5. sameKind(p, s) /\ Lists(p, s, e)
      BY <1>8, <1>9, <3>2, <3>4 DEF sameKind, sameList, Lists
    <3> QED BY <1>9, <3>2, <3>4, <3>5
  <2>2. CASE s.observation # "observed"
    <3>1. p = g /\ k = l
      BY <1>7, <1>10, <2>2 DEF BoundsInv
    <3> QED BY <1>9, <2>2, <3>1
  <2> QED BY <2>1, <2>2
<1>14. PICK m : m = [p EXCEPT !.liveRows = p.liveRows + 1]
  OBVIOUS
<1>15. /\ Shape(m) /\ sameKind(m, p) /\ sameList(m, p) /\ m.rows = p.rows /\ m.liveRows = p.liveRows + 1
       /\ LiveRows(m) = without(LiveRows(p), e) \cup {z} /\ TailRows(m) = without(TailRows(p), e)
  <2>1. z = p.rows[p.liveRows + 1] /\ p.liveRows < Len(p.rows)
    BY <1>7, <1>12, <1>13
  <2>2. Shape(p) /\ z.owner = e
    BY <1>6, <1>13
  <2>3. /\ Shape(m) /\ sameKind(m, p) /\ sameList(m, p) /\ m.rows = p.rows /\ m.liveRows = p.liveRows + 1
        /\ LiveRows(m) = without(LiveRows(p), z.owner) \cup {z} /\ TailRows(m) = without(TailRows(p), z.owner)
    BY ONLY <1>14, <2>1, <2>2, OneMoreLive
  <2> QED BY <2>2, <2>3
<1>16. Puts(s, m, e, z) /\ z = m.rows[m.liveRows] /\ m.liveRows # 0
  <2>1. without(TailRows(s) \cup {z}, e) = TailRows(s)
    BY <1>4, <1>6 DEF without
  <2>2. LiveRows(m) = without(LiveRows(s), e) \cup {z} /\ TailRows(m) = without(TailRows(s), e)
    BY <1>4, <1>13, <1>15, <2>1
  <2>3. sameKind(m, s)
    BY <1>13, <1>15 DEF sameKind
  <2>4. m.liveRows = l
    BY <1>7, <1>13, <1>15
  <2> QED BY <1>6, <1>12, <1>13, <1>15, <2>2, <2>3, <2>4 DEF Puts
<1>17. u = [m EXCEPT !.rows[m.liveRows].value = v]
  BY <1>11, <1>14 DEF add
<1>18. /\ Puts(s, u, e, newRow(s, e, v)) /\ sameList(u, m)
       /\ u.liveRows = m.liveRows /\ Len(u.rows) = Len(m.rows)
  <2>1. PICK y : y = newRow(s, e, v)
    OBVIOUS
  <2>2. y = [z EXCEPT !.value = v]
    BY <1>6, <2>1
  <2>3. /\ Puts(s, u, e, y) /\ sameList(u, m)
        /\ u.liveRows = m.liveRows /\ Len(u.rows) = Len(m.rows)
    BY ONLY <1>16, <1>17, <2>2, e \in Entities, v \in Values, ValueWritten, SMTT(30)
  <2> QED BY <2>1, <2>3
<1>19. s.observation = "observed" => Lists(u, s, e)
  BY <1>13, <1>15, <1>18 DEF sameList, Lists
<1>20. BoundsInv(u)
  <2>1. Shape(u) /\ sameKind(u, s)
    BY <1>18 DEF Puts
  <2>2. u.liveRows = l /\ Len(u.rows) = k
    BY <1>7, <1>13, <1>15, <1>18
  <2>3. u.observation # "observed" => l = k
    BY <1>7, <2>1 DEF BoundsInv, sameKind
  <2> QED BY <2>1, <2>2, <2>3 DEF BoundsInv, Shape
<1> QED BY <1>18, <1>19, <1>20

\* The row a removal leaves in the tail.
removedRow(x) == [x EXCEPT !.state = IF @ = "Added" THEN "Discarded" ELSE "Removed"]

\* What remove does in an observed store.
LEMMA TailDoes ==
  ASSUME NEW s, Shape(s), NEW e \in Entities, has(s, e), s.observation = "observed",
         NEW x, x = s.rows[linked(s, e)], NEW u, u = remove(s, e)
  PROVE  /\ Tails(s, u, e, removedRow(x)) /\ BoundsInv(u)
         /\ x.state = "Unchanged" => Lists(u, s, e)
         /\ x.state # "Unchanged" => sameList(u, s)
<1>1. s \in Stores /\ s.liveRows \in Nat /\ Len(s.rows) \in Nat /\ s.liveRows <= Len(s.rows)
  BY StoreParts DEF Shape
<1>2. PICK a, b : a = linked(s, e) /\ b = s.liveRows
  OBVIOUS
<1>3. a \in 1..b /\ a \in 1..Len(s.rows) /\ x = s.rows[a] /\ x.owner = e /\ x \in Rows
  BY <1>1, <1>2, Finds, StoreParts
<1>4. b \in 1..Len(s.rows) /\ a <= s.liveRows /\ b <= s.liveRows /\ s.liveRows # 0
  BY <1>1, <1>2, <1>3
<1>5. PICK k : k = swap(s, a, b)
  OBVIOUS
<1>6. /\ Shape(k) /\ sameKind(k, s) /\ sameList(k, s) /\ k.liveRows = s.liveRows
      /\ Len(k.rows) = Len(s.rows) /\ k.rows[b] = x
      /\ LiveRows(k) = LiveRows(s) /\ TailRows(k) = TailRows(s)
  BY <1>3, <1>4, <1>5, Exchanged
<1>7. PICK l : l = [k EXCEPT !.liveRows = k.liveRows - 1]
  OBVIOUS
<1>8. /\ Shape(l) /\ sameKind(l, k) /\ sameList(l, k) /\ l.rows = k.rows /\ l.liveRows = k.liveRows - 1
      /\ LiveRows(l) = without(LiveRows(k), e) /\ TailRows(l) = without(TailRows(k), e) \cup {x}
  <2>1. x = k.rows[k.liveRows] /\ k.liveRows # 0
    BY <1>2, <1>4, <1>6
  <2> QED BY <1>3, <1>6, <1>7, <2>1, OneLessLive
<1>9. swap([s EXCEPT !.liveRows = b - 1], a, b) = l
  BY <1>1, <1>2, <1>5, <1>6, <1>7 DEF swap, Stores
<1>10. PICK h : h = IF x.state = "Unchanged" THEN listChanged(l, e) ELSE l
  OBVIOUS
<1>11. /\ Shape(h) /\ sameKind(h, l) /\ h.rows = l.rows /\ h.liveRows = l.liveRows
       /\ LiveRows(h) = LiveRows(l) /\ TailRows(h) = TailRows(l)
       /\ x.state = "Unchanged" => Lists(h, l, e)
       /\ x.state # "Unchanged" => sameList(h, l)
  <2>1. CASE x.state = "Unchanged"
    BY <1>8, <1>10, <2>1, Listing
  <2>2. CASE x.state # "Unchanged"
    BY <1>8, <1>10, <2>2 DEF sameKind, sameList
  <2> QED BY <2>1, <2>2
<1>12. PICK z : z = removedRow(x)
  OBVIOUS
<1>13. z \in Rows /\ z.owner = e
  BY <1>3, <1>12 DEF Rows, States, removedRow
<1>14. u = rewritten(h, b, z)
  <2>1. u = [h EXCEPT !.rows[b].state = IF x.state = "Added" THEN "Discarded" ELSE "Removed"]
    BY <1>2, <1>3, <1>9, <1>10 DEF remove, toTail
  <2>2. h.rows[b] = x
    BY <1>6, <1>8, <1>11
  <2>3. z = [h.rows[b] EXCEPT !.state = IF x.state = "Added" THEN "Discarded" ELSE "Removed"]
    BY <1>3, <1>12, <2>2 DEF removedRow, Rows
  <2> QED BY <2>1, <2>3 DEF rewritten
<1>15. b \in 1..Len(h.rows) /\ ~(b <= h.liveRows) /\ z.owner = h.rows[b].owner
  BY <1>1, <1>2, <1>3, <1>4, <1>6, <1>8, <1>11, <1>13
<1>16. /\ Shape(u) /\ sameKind(u, h) /\ sameList(u, h)
       /\ LiveRows(u) = without(LiveRows(h), e) /\ TailRows(u) = without(TailRows(h), e) \cup {z}
  BY ONLY <1>11, <1>13, <1>14, <1>15, Rewritten
<1>17. LiveRows(u) = without(LiveRows(s), e) /\ TailRows(u) = without(TailRows(s), e) \cup {z}
  <2>1. LiveRows(h) = without(LiveRows(s), e) /\ TailRows(h) = without(TailRows(s), e) \cup {x}
    BY <1>6, <1>8, <1>11
  <2>2. without(LiveRows(h), e) = without(LiveRows(s), e)
    BY ONLY <2>1, WithoutTwice
  <2>3. without(TailRows(h), e) = without(TailRows(s), e)
    <3>1. x.owner = e
      BY <1>3
    <3> QED BY ONLY <2>1, <3>1, WithoutPut
  <2> QED BY <1>16, <2>2, <2>3
<1>18. sameKind(u, s)
  BY <1>6, <1>8, <1>11, <1>16 DEF sameKind
<1>19. (x.state = "Unchanged" => Lists(u, s, e)) /\ (x.state # "Unchanged" => sameList(u, s))
  BY <1>6, <1>8, <1>11, <1>16 DEF sameList, Lists
<1>20. BoundsInv(u)
  BY <1>16, <1>18 DEF BoundsInv, Shape, sameKind
<1> QED BY <1>12, <1>13, <1>16, <1>17, <1>18, <1>19, <1>20 DEF Tails

-----------------------------------------------------------------------------
(* What the rows tell *)

Valuations == [Entities -> Values \cup {Unset}]

\* An entity is given a value, or none.
given(v, e, x) == [v EXCEPT ![e] = x]

\* What is given to one entity.
LEMMA Giving ==
  ASSUME NEW v \in Valuations, NEW e \in Entities, NEW x \in Values \cup {Unset}, NEW w, w = given(v, e, x)
  PROVE  w \in Valuations /\ w[e] = x /\ \A d \in Entities : d # e => w[d] = v[d]
BY DEF Valuations, given

\* The values, of a row put among the live ones.
LEMMA ValuesPut ==
  ASSUME NEW L \in SUBSET Rows, NEW T \in SUBSET Rows, NEW v \in Valuations, ValuesInv(L, T, v),
         NEW e \in Entities, NEW x \in Rows, x.owner = e, x.value # Unset,
         NEW w, w[e] = x.value, \A d \in Entities : d # e => w[d] = v[d]
  PROVE  ValuesInv(without(L, e) \cup {x}, without(T, e), w)
<1>1. \A y \in Rows : y.owner \in Entities
  BY DEF Rows
<1>2. \A y \in without(L, e) : y \in L /\ y.owner # e /\ y.owner \in Entities
  BY <1>1 DEF without
<1>3. \A y \in without(T, e) : y \in T /\ y.owner # e /\ y.owner \in Entities
  BY <1>1 DEF without
<1>4. \A y \in L \cup T : y.owner # e => y \in without(L, e) \cup without(T, e)
  BY DEF without
<1>5. \A y \in without(L, e) \cup {x} : w[y.owner] = y.value /\ y.value # Unset
  BY <1>2 DEF ValuesInv
<1>6. \A y \in without(T, e) : w[y.owner] = Unset
  BY <1>3 DEF ValuesInv
<1>7. ASSUME NEW d \in Entities, \A y \in (without(L, e) \cup {x}) \cup without(T, e) : y.owner # d
      PROVE  w[d] = Unset
  <2>1. d # e
    BY <1>7
  <2>2. \A y \in L \cup T : y.owner # d
    BY <1>4, <1>7, <2>1
  <2> QED BY <2>1, <2>2 DEF ValuesInv
<1> QED BY <1>5, <1>6, <1>7 DEF ValuesInv

\* The values, of rows left without the entity's, or with one in the tail.
LEMMA ValuesTaken ==
  ASSUME NEW L \in SUBSET Rows, NEW T \in SUBSET Rows, NEW v \in Valuations, ValuesInv(L, T, v),
         NEW e \in Entities, NEW X, \A y \in X : y.owner = e,
         NEW w, w[e] = Unset, \A d \in Entities : d # e => w[d] = v[d]
  PROVE  ValuesInv(without(L, e), without(T, e) \cup X, w)
<1>1. \A y \in Rows : y.owner \in Entities
  BY DEF Rows
<1>2. \A y \in without(L, e) : y \in L /\ y.owner # e /\ y.owner \in Entities
  BY <1>1 DEF without
<1>3. \A y \in without(T, e) : y \in T /\ y.owner # e /\ y.owner \in Entities
  BY <1>1 DEF without
<1>4. \A y \in L \cup T : y.owner # e => y \in without(L, e) \cup without(T, e)
  BY DEF without
<1>5. \A y \in without(L, e) : w[y.owner] = y.value /\ y.value # Unset
  BY <1>2 DEF ValuesInv
<1>6. \A y \in without(T, e) \cup X : w[y.owner] = Unset
  BY <1>3 DEF ValuesInv
<1>7. ASSUME NEW d \in Entities, \A y \in without(L, e) \cup (without(T, e) \cup X) : y.owner # d
      PROVE  w[d] = Unset
  <2>1. CASE d = e
    BY <2>1
  <2>2. CASE d # e
    <3>1. \A y \in L \cup T : y.owner # d
      BY <1>4, <1>7, <2>2
    <3> QED BY <2>2, <3>1 DEF ValuesInv
  <2> QED BY <2>1, <2>2
<1> QED BY <1>5, <1>6, <1>7 DEF ValuesInv

\* What the state of one row tells.
Tells(x, v, b) ==
  /\ x.state \in {"Added", "Discarded"} <=> b[x.owner] = Unset
  /\ x.state \in {"Unchanged", "Changed", "Removed"} => x.shadow = b[x.owner]
  /\ x.state = "Unchanged" => v[x.owner] = b[x.owner]

\* The states, of a row put among the live ones or in the tail.
LEMMA StatesPut ==
  ASSUME NEW L \in SUBSET Rows, NEW T \in SUBSET Rows, NEW v, NEW b, StatesInv(L, T, v, b),
         NEW e \in Entities, NEW x, x.owner = e, NEW w, Tells(x, w, b),
         \A d \in Entities : d # e => w[d] = v[d]
  PROVE  /\ x.state \in {"Unchanged", "Changed", "Added"} =>
              StatesInv(without(L, e) \cup {x}, without(T, e), w, b)
         /\ x.state \in {"Removed", "Discarded"} =>
              StatesInv(without(L, e), without(T, e) \cup {x}, w, b)
<1>1. \A y \in Rows : y.owner \in Entities
  BY DEF Rows
<1>2. \A y \in without(L, e) : y \in L /\ y.owner # e /\ y.owner \in Entities
  BY <1>1 DEF without
<1>3. \A y \in without(T, e) : y \in T /\ y.owner # e /\ y.owner \in Entities
  BY <1>1 DEF without
<1>4. \A y \in L \cup T : y.owner # e => y \in without(L, e) \cup without(T, e)
  BY DEF without
<1>5. \A y \in without(L, e) : y.state \in {"Unchanged", "Changed", "Added"}
  BY <1>2 DEF StatesInv
<1>6. \A y \in without(T, e) : y.state \in {"Removed", "Discarded"}
  BY <1>3 DEF StatesInv
<1>7. \A y \in without(L, e) \cup without(T, e) : Tells(y, w, b)
  <2>1. \A y \in L \cup T : Tells(y, v, b)
    BY DEF StatesInv, Tells
  <2>2. \A y \in without(L, e) \cup without(T, e) : Tells(y, v, b) /\ w[y.owner] = v[y.owner]
    BY <1>2, <1>3, <2>1
  <2> QED BY <2>2 DEF Tells
<1>8. ASSUME NEW d \in Entities, d # e, \A y \in without(L, e) \cup without(T, e) : y.owner # d
      PROVE  b[d] = Unset
  <2>1. \A y \in L \cup T : y.owner # d
    BY <1>4, <1>8
  <2> QED BY <2>1 DEF StatesInv
<1>9. ASSUME x.state \in {"Unchanged", "Changed", "Added"}
      PROVE  StatesInv(without(L, e) \cup {x}, without(T, e), w, b)
  <2>1. \A y \in (without(L, e) \cup {x}) \cup without(T, e) : Tells(y, w, b)
    BY <1>7
  <2>2. \A y \in without(L, e) \cup {x} : y.state \in {"Unchanged", "Changed", "Added"}
    BY <1>5, <1>9
  <2>3. \A d \in Entities : (\A y \in (without(L, e) \cup {x}) \cup without(T, e) : y.owner # d) => b[d] = Unset
    BY <1>8
  <2> QED BY <1>6, <2>1, <2>2, <2>3 DEF StatesInv, Tells
<1>10. ASSUME x.state \in {"Removed", "Discarded"}
       PROVE  StatesInv(without(L, e), without(T, e) \cup {x}, w, b)
  <2>1. \A y \in without(L, e) \cup (without(T, e) \cup {x}) : Tells(y, w, b)
    BY <1>7
  <2>2. \A y \in without(T, e) \cup {x} : y.state \in {"Removed", "Discarded"}
    BY <1>6, <1>10
  <2>3. \A d \in Entities : (\A y \in without(L, e) \cup (without(T, e) \cup {x}) : y.owner # d) => b[d] = Unset
    BY <1>8
  <2> QED BY <1>5, <2>1, <2>2, <2>3 DEF StatesInv, Tells
<1> QED BY <1>9, <1>10

\* The list has e too.
Told(q, p, e) == IsInjective(p) /\ ToSet(p) = ToSet(q) \cup {e}

\* The list, of a row that is not unchanged put among the others.
LEMMA ListPut ==
  ASSUME NEW R, NEW q, ListInv(R, q), NEW e, NEW x, x.owner = e, x.state # "Unchanged",
         NEW p, Told(q, p, e), NEW S, S = without(R, e) \cup {x}
  PROVE  ListInv(S, p)
<1>1. \A y \in without(R, e) : y \in R /\ y.owner # e
  BY DEF without
<1>2. \A y \in R : y.owner # e => y \in without(R, e)
  BY DEF without
<1>3. ASSUME NEW d \in ToSet(p) PROVE \E y \in S : y.owner = d
  <2>1. CASE d = e
    BY <2>1
  <2>2. CASE d # e
    <3>1. d \in ToSet(q)
      BY <2>2 DEF Told
    <3>2. PICK y \in R : y.owner = d
      BY <3>1 DEF ListInv
    <3> QED BY <1>2, <2>2, <3>2
  <2> QED BY <2>1, <2>2
<1>4. ASSUME NEW y \in S PROVE y.state # "Unchanged" <=> y.owner \in ToSet(p)
  <2>1. CASE y = x
    BY <2>1 DEF Told
  <2>2. CASE y # x
    <3>1. y \in R /\ y.owner # e
      BY <1>1, <2>2
    <3>2. y.state # "Unchanged" <=> y.owner \in ToSet(q)
      BY <3>1 DEF ListInv
    <3> QED BY <3>1, <3>2 DEF Told
  <2> QED BY <2>1, <2>2
<1> QED BY <1>3, <1>4 DEF ListInv, Told

\* Listing, when it is done, and when the entity is listed already.
LEMMA ListTold ==
  ASSUME NEW s, Shape(s), ListInv(RowsOf(s), s.changed), NEW e \in Entities, NEW u
  PROVE  /\ Lists(u, s, e) /\ ~u.overflowed /\ (\A y \in RowsOf(s) : y.owner = e => y.state = "Unchanged") =>
              Told(s.changed, u.changed, e)
         /\ \A x \in RowsOf(s) : sameList(u, s) /\ x.owner = e /\ x.state # "Unchanged" =>
              Told(s.changed, u.changed, e)
<1>1. s.changed \in Seq(Entities)
  BY StoreParts DEF Shape
<1>2. ASSUME Lists(u, s, e), ~u.overflowed, \A y \in RowsOf(s) : y.owner = e => y.state = "Unchanged"
      PROVE  Told(s.changed, u.changed, e)
  <2>1. u.changed = Append(s.changed, e)
    BY <1>2 DEF Lists
  <2>2. e \notin ToSet(s.changed)
    BY <1>2 DEF ListInv
  <2>3. IsInjective(s.changed)
    BY DEF ListInv
  <2>4. ToSet(Append(s.changed, e)) = ToSet(s.changed) \cup {e}
    BY <1>1, OneMore
  <2>5. IsInjective(Append(s.changed, e))
    BY <1>1, <2>2, <2>3, OneMoreOnce
  <2> QED BY <2>1, <2>4, <2>5 DEF Told
<1>3. ASSUME NEW x \in RowsOf(s), sameList(u, s), x.owner = e, x.state # "Unchanged"
      PROVE  Told(s.changed, u.changed, e)
  <2>1. e \in ToSet(s.changed) /\ IsInjective(s.changed)
    BY <1>3 DEF ListInv
  <2> QED BY <1>3, <2>1 DEF Told, sameList
<1> QED BY <1>2, <1>3

\* The parts of what is known of the rows.
LEMMA RowsParts ==
  ASSUME NEW s, NEW v, NEW b, RowsInv(s, v, b)
  PROVE  /\ Shape(s) /\ BoundsInv(s) /\ ValuesInv(LiveRows(s), TailRows(s), v)
         /\ LiveRows(s) \in SUBSET Rows /\ TailRows(s) \in SUBSET Rows
         /\ s.observation = "observed" =>
              /\ StatesInv(LiveRows(s), TailRows(s), v, b)
              /\ ~s.overflowed => ListInv(RowsOf(s), s.changed)
         /\ s.observation # "observed" => TailRows(s) = {}
<1>1. s \in Stores /\ LinksInv(s) /\ BoundsInv(s) /\ ValuesInv(LiveRows(s), TailRows(s), v) /\ ObservedInv(s, v, b)
  BY DEF RowsInv
<1>2. Shape(s)
  BY <1>1 DEF Shape, BoundsInv
<1>3. LiveRows(s) \in SUBSET Rows /\ TailRows(s) \in SUBSET Rows
  BY <1>2, RowsApart DEF RowsOf
<1>4. s.observation = "observed" =>
         /\ StatesInv(LiveRows(s), TailRows(s), v, b)
         /\ ~s.overflowed => ListInv(RowsOf(s), s.changed)
  BY <1>1 DEF ObservedInv, RowsOf
<1>5. s.observation # "observed" => TailRows(s) = {}
  <2>1. Len(s.rows) \in Nat /\ Len(s.rows) + 1..Len(s.rows) = {}
    BY <1>1, StoreParts
  <2> QED BY <1>1, <2>1 DEF BoundsInv, TailRows
<1> QED BY <1>1, <1>2, <1>3, <1>4, <1>5

\* The list of an observed store has e too, or is not needed any more.
Relisted(s, u, e) == u.overflowed \/ (~s.overflowed /\ Told(s.changed, u.changed, e))

\* A row put among the live ones keeps what is known of the rows.
LEMMA PutsKeeps ==
  ASSUME NEW s, NEW v \in Valuations, NEW b, RowsInv(s, v, b), NEW e \in Entities, NEW u, NEW y,
         Puts(s, u, e, y), BoundsInv(u), y.value # Unset, NEW w, w = given(v, e, y.value),
         s.observation = "observed" =>
           y.state \in {"Changed", "Added"} /\ Tells(y, w, b) /\ Relisted(s, u, e)
  PROVE  RowsInv(u, w, b) /\ \A z \in RowsOf(u) : z.owner = e \/ z \in RowsOf(s)
<1>1. PICK L, T, M, U : L = LiveRows(s) /\ T = TailRows(s) /\ M = LiveRows(u) /\ U = TailRows(u)
  OBVIOUS
<1>2. /\ Shape(s) /\ ValuesInv(L, T, v) /\ L \in SUBSET Rows /\ T \in SUBSET Rows
      /\ s.observation = "observed" =>
           StatesInv(L, T, v, b) /\ (~s.overflowed => ListInv(RowsOf(s), s.changed))
  BY <1>1, RowsParts
<1>3. /\ Shape(u) /\ u.observation = s.observation /\ y \in Rows /\ y.owner = e
      /\ M = without(L, e) \cup {y} /\ U = without(T, e)
  BY <1>1 DEF Puts, sameKind
<1>4. w[e] = y.value /\ \A d \in Entities : d # e => w[d] = v[d]
  <2>1. y.value \in Values \cup {Unset}
    BY <1>3 DEF Rows
  <2> QED BY <2>1, Giving
<1>5. ValuesInv(M, U, w)
  BY <1>2, <1>3, <1>4, ValuesPut
<1>6. RowsOf(u) = without(RowsOf(s), e) \cup {y}
  BY <1>1, <1>3 DEF RowsOf, without
<1>7. ASSUME u.observation = "observed" PROVE StatesInv(M, U, w, b) /\ (u.overflowed \/ ListInv(RowsOf(u), u.changed))
  <2>1. y.state \in {"Changed", "Added"} /\ Tells(y, w, b) /\ Relisted(s, u, e)
        /\ StatesInv(L, T, v, b) /\ (~s.overflowed => ListInv(RowsOf(s), s.changed))
    BY <1>2, <1>3, <1>7
  <2>2. StatesInv(M, U, w, b)
    <3>1. StatesInv(without(L, e) \cup {y}, without(T, e), w, b)
      <4>1. y.owner = e /\ y.state \in {"Unchanged", "Changed", "Added"} /\ Tells(y, w, b)
        BY <1>3, <2>1
      <4>2. L \in SUBSET Rows /\ T \in SUBSET Rows /\ StatesInv(L, T, v, b)
        BY <1>2, <2>1
      <4> QED BY ONLY <1>4, <4>1, <4>2, e \in Entities, StatesPut
    <3> QED BY <1>3, <3>1
  <2>3. ASSUME ~u.overflowed PROVE ListInv(RowsOf(u), u.changed)
    <3>1. Told(s.changed, u.changed, e) /\ ListInv(RowsOf(s), s.changed)
      BY <2>1, <2>3 DEF Relisted
    <3>2. y.state # "Unchanged"
      BY <2>1
    <3> QED BY <1>3, <1>6, <3>1, <3>2, ListPut
  <2> QED BY <2>2, <2>3
<1>8. RowsInv(u, w, b)
  <2>1. u \in Stores /\ LinksInv(u)
    BY <1>3 DEF Shape
  <2>2. ObservedInv(u, w, b)
    BY <1>1, <1>7 DEF ObservedInv, RowsOf
  <2> QED BY <1>1, <1>5, <2>1, <2>2 DEF RowsInv
<1> QED BY <1>3, <1>6, <1>8 DEF without

\* So does one left in the tail, its value gone.
LEMMA TailsKeeps ==
  ASSUME NEW s, NEW v \in Valuations, NEW b, RowsInv(s, v, b), NEW e \in Entities, NEW u, NEW y,
         Tails(s, u, e, y), BoundsInv(u), NEW w, w = given(v, e, Unset),
         s.observation = "observed", y.state \in {"Removed", "Discarded"}, Tells(y, w, b), Relisted(s, u, e)
  PROVE  RowsInv(u, w, b) /\ \A z \in RowsOf(u) : z.owner = e \/ z \in RowsOf(s)
<1>1. PICK L, T, M, U : L = LiveRows(s) /\ T = TailRows(s) /\ M = LiveRows(u) /\ U = TailRows(u)
  OBVIOUS
<1>2. /\ Shape(s) /\ ValuesInv(L, T, v) /\ L \in SUBSET Rows /\ T \in SUBSET Rows
      /\ StatesInv(L, T, v, b) /\ (~s.overflowed => ListInv(RowsOf(s), s.changed))
  BY <1>1, RowsParts
<1>3. /\ Shape(u) /\ u.observation = s.observation /\ y \in Rows /\ y.owner = e
      /\ M = without(L, e) /\ U = without(T, e) \cup {y}
  BY <1>1 DEF Tails, sameKind
<1>4. w[e] = Unset /\ \A d \in Entities : d # e => w[d] = v[d]
  BY Giving
<1>5. ValuesInv(M, U, w)
  <2>1. \A z \in {y} : z.owner = e
    BY <1>3
  <2>2. PICK X : X = {y}
    OBVIOUS
  <2>3. ValuesInv(without(L, e), without(T, e) \cup X, w)
    BY <1>2, <1>4, <2>1, <2>2, ValuesTaken
  <2> QED BY <1>3, <2>2, <2>3
<1>6. RowsOf(u) = without(RowsOf(s), e) \cup {y}
  BY <1>1, <1>3 DEF RowsOf, without
<1>7. StatesInv(M, U, w, b)
  BY <1>2, <1>3, <1>4, StatesPut, ZenonT(40)
<1>8. ASSUME ~u.overflowed PROVE ListInv(RowsOf(u), u.changed)
  <2>1. Told(s.changed, u.changed, e) /\ ListInv(RowsOf(s), s.changed)
    BY <1>2, <1>8 DEF Relisted
  <2>2. y.state # "Unchanged"
    OBVIOUS
  <2> QED BY <1>3, <1>6, <2>1, <2>2, ListPut
<1>9. RowsInv(u, w, b)
  <2>1. u \in Stores /\ LinksInv(u)
    BY <1>3 DEF Shape
  <2>2. ObservedInv(u, w, b)
    BY <1>1, <1>7, <1>8 DEF ObservedInv, RowsOf
  <2> QED BY <1>1, <1>5, <2>1, <2>2 DEF RowsInv
<1> QED BY <1>3, <1>6, <1>9 DEF without

\* What the tables of the store know of an entity's row.
LEMMA RowTells ==
  ASSUME NEW s, NEW v, NEW b, RowsInv(s, v, b), NEW x \in RowsOf(s), s.observation = "observed"
  PROVE  /\ x \in Rows /\ Tells(x, v, b)
         /\ x \in LiveRows(s) => x.state \in {"Unchanged", "Changed", "Added"}
         /\ x \in TailRows(s) => x.state \in {"Removed", "Discarded"}
<1>1. StatesInv(LiveRows(s), TailRows(s), v, b) /\ Shape(s)
  BY RowsParts
<1>2. x \in Rows
  BY <1>1, RowsApart
<1> QED BY <1>1, <1>2 DEF StatesInv, Tells, RowsOf

\* Written or added, an entity has its value.
LEMMA PutKeeps ==
  ASSUME NEW s, NEW v \in Valuations, NEW b, RowsInv(s, v, b), NEW e \in Entities, Alone(s, e),
         NEW x \in Values, NEW u, u = IF has(s, e) THEN write(s, e, x) ELSE add(s, e, x),
         NEW w, w = given(v, e, x)
  PROVE  /\ RowsInv(u, w, b) /\ sameKind(u, s)
         /\ \A z \in RowsOf(u) : z.owner = e \/ z \in RowsOf(s)
<1>1. /\ Shape(s) /\ BoundsInv(s)
      /\ s.observation = "observed" => (~s.overflowed => ListInv(RowsOf(s), s.changed))
      /\ s.observation # "observed" => TailRows(s) = {}
  BY RowsParts
<1>2. x # Unset /\ \A y \in Rows : y.value # x \/ y.value # Unset
  BY StoreAssumption
<1>3. PICK r : r = s.rows[linked(s, e)]
  OBVIOUS
<1>4. \A y \in RowsOf(s) : r \in RowsOf(s) /\ y.owner = r.owner => y = r
  BY <1>1, RowsApart
<1>5. CASE has(s, e)
  <2>1. PICK y : y = writtenRow(s, r, x)
    OBVIOUS
  <2>2. /\ Puts(s, u, e, y) /\ BoundsInv(u)
        /\ stale(s, r) => Lists(u, s, e)
        /\ ~stale(s, r) => sameList(u, s)
    BY <1>1, <1>3, <1>5, <2>1, WriteDoes
  <2>3. r \in LiveRows(s) /\ r \in RowsOf(s) /\ r.owner = e
    BY <1>1, <1>3, <1>5, Finds DEF RowsOf
  <2>4. r \in Rows
    BY <1>1, <2>3, RowsApart
  <2>5. /\ y.value = x /\ y.owner = e /\ y.shadow = r.shadow
        /\ y.state = IF stale(s, r) THEN "Changed" ELSE r.state
    BY <2>1, <2>3, <2>4 DEF writtenRow, Rows
  <2>6. ASSUME s.observation = "observed"
        PROVE  y.state \in {"Changed", "Added"} /\ Tells(y, w, b) /\ Relisted(s, u, e)
    <3>1. Tells(r, v, b) /\ r.state \in {"Unchanged", "Changed", "Added"}
      BY <2>3, <2>6, RowTells
    <3>2. y.state \in {"Changed", "Added"} /\ (y.state = "Added" <=> r.state = "Added")
      BY <2>5, <2>6, <3>1 DEF stale
    <3>3. Tells(y, w, b)
      BY <2>3, <2>5, <3>1, <3>2 DEF Tells
    <3>4. Relisted(s, u, e)
      <4>1. CASE stale(s, r)
        <5>1. ASSUME ~u.overflowed PROVE ~s.overflowed /\ Told(s.changed, u.changed, e)
          <6>1. Lists(u, s, e) /\ ~s.overflowed
            BY <2>2, <4>1, <5>1 DEF Lists
          <6>2. \A z \in RowsOf(s) : z.owner = e => z.state = "Unchanged"
            BY <1>4, <2>3, <4>1 DEF stale
          <6>3. ListInv(RowsOf(s), s.changed)
            BY <1>1, <2>6, <6>1
          <6>4. Told(s.changed, u.changed, e)
            BY <1>1, <5>1, <6>1, <6>2, <6>3, ListTold
          <6> QED BY <6>1, <6>4
        <5> QED BY <5>1 DEF Relisted
      <4>2. CASE ~stale(s, r)
        <5>1. ASSUME ~u.overflowed PROVE ~s.overflowed /\ Told(s.changed, u.changed, e)
          <6>1. sameList(u, s) /\ ~s.overflowed
            BY <2>2, <4>2, <5>1 DEF sameList
          <6>2. r.state # "Unchanged"
            BY <2>6, <4>2 DEF stale
          <6>3. ListInv(RowsOf(s), s.changed)
            BY <1>1, <2>6, <6>1
          <6>4. Told(s.changed, u.changed, e)
            BY <1>1, <2>3, <6>1, <6>2, <6>3, ListTold
          <6> QED BY <6>1, <6>4
        <5> QED BY <5>1 DEF Relisted
      <4> QED BY <4>1, <4>2
    <3> QED BY <3>2, <3>3, <3>4
  <2>7. w = given(v, e, y.value) /\ y.value # Unset
    BY <1>2, <2>5
  <2>8. RowsInv(u, w, b) /\ \A z \in RowsOf(u) : z.owner = e \/ z \in RowsOf(s)
    BY <2>2, <2>6, <2>7, PutsKeeps
  <2> QED BY <2>2, <2>8 DEF Puts
<1>6. CASE ~has(s, e) /\ inTail(s, e)
  <2>1. PICK y : y = readdedRow(r, x)
    OBVIOUS
  <2>2. r \in TailRows(s) /\ r \in RowsOf(s) /\ r.owner = e
    BY <1>1, <1>3, <1>6, Finds DEF RowsOf
  <2>3. s.observation = "observed"
    BY <1>1, <2>2
  <2>4. Puts(s, u, e, y) /\ sameList(u, s) /\ BoundsInv(u)
    BY <1>1, <1>3, <1>6, <2>1, <2>3, ReaddDoes
  <2>5. r \in Rows
    BY <1>1, <2>2, RowsApart
  <2>6. /\ y.value = x /\ y.owner = e /\ y.shadow = r.shadow
        /\ y.state = IF r.state = "Discarded" THEN "Added" ELSE "Changed"
    BY <2>1, <2>2, <2>5 DEF readdedRow, Rows
  <2>7. Tells(r, v, b) /\ r.state \in {"Removed", "Discarded"}
    BY <2>2, <2>3, RowTells
  <2>8. y.state \in {"Changed", "Added"} /\ Tells(y, w, b)
    BY <2>2, <2>6, <2>7 DEF Tells
  <2>9. Relisted(s, u, e)
    <3>1. ASSUME ~u.overflowed PROVE ~s.overflowed /\ Told(s.changed, u.changed, e)
      <4>1. sameList(u, s) /\ ~s.overflowed
        BY <2>4, <3>1 DEF sameList
      <4>2. r.state # "Unchanged"
        BY <2>7
      <4>3. ListInv(RowsOf(s), s.changed)
        BY <1>1, <2>3, <4>1
      <4>4. Told(s.changed, u.changed, e)
        BY <1>1, <2>2, <4>1, <4>2, <4>3, ListTold
      <4> QED BY <4>1, <4>4
    <3> QED BY <3>1 DEF Relisted
  <2>10. w = given(v, e, y.value) /\ y.value # Unset
    BY <1>2, <2>6
  <2>11. RowsInv(u, w, b) /\ \A z \in RowsOf(u) : z.owner = e \/ z \in RowsOf(s)
    BY <2>4, <2>8, <2>9, <2>10, PutsKeeps
  <2> QED BY <2>4, <2>11 DEF Puts
<1>7. CASE ~has(s, e) /\ ~inTail(s, e)
  <2>1. PICK y : y = newRow(s, e, x)
    OBVIOUS
  <2>2. Puts(s, u, e, y) /\ BoundsInv(u) /\ (s.observation = "observed" => Lists(u, s, e))
    BY <1>1, <1>7, <2>1, AppendDoes
  <2>3. /\ y.value = x /\ y.owner = e
        /\ s.observation = "observed" => y.state = "Added"
    BY <2>1 DEF newRow
  <2>4. \A z \in RowsOf(s) : z.owner # e
    BY <1>1, <1>7, Finds DEF RowsOf
  <2>5. ASSUME s.observation = "observed"
        PROVE  y.state \in {"Changed", "Added"} /\ Tells(y, w, b) /\ Relisted(s, u, e)
    <3>1. b[e] = Unset
      <4>1. StatesInv(LiveRows(s), TailRows(s), v, b)
        BY <2>5, RowsParts
      <4> QED BY <2>4, <4>1 DEF StatesInv, RowsOf
    <3>2. Tells(y, w, b)
      BY <2>3, <2>5, <3>1 DEF Tells
    <3>3. ASSUME ~u.overflowed PROVE ~s.overflowed /\ Told(s.changed, u.changed, e)
      <4>1. Lists(u, s, e) /\ ~s.overflowed
        BY <2>2, <2>5, <3>3 DEF Lists
      <4>2. ListInv(RowsOf(s), s.changed)
        BY <1>1, <2>5, <4>1
      <4>3. Told(s.changed, u.changed, e)
        BY <1>1, <2>4, <3>3, <4>1, <4>2, ListTold
      <4> QED BY <4>1, <4>3
    <3> QED BY <2>3, <2>5, <3>2, <3>3 DEF Relisted
  <2>6. w = given(v, e, y.value) /\ y.value # Unset
    BY <1>2, <2>3
  <2>7. RowsInv(u, w, b) /\ \A z \in RowsOf(u) : z.owner = e \/ z \in RowsOf(s)
    BY <2>2, <2>5, <2>6, PutsKeeps
  <2> QED BY <2>2, <2>7 DEF Puts
<1> QED BY <1>5, <1>6, <1>7

\* Removed, an entity has none; whether a row of it stays depends on the observation.
LEMMA RemoveKeeps ==
  ASSUME NEW s, NEW v \in Valuations, NEW b, RowsInv(s, v, b), NEW e \in Entities, has(s, e),
         NEW u, u = remove(s, e), NEW w, w = given(v, e, Unset)
  PROVE  /\ RowsInv(u, w, b) /\ sameKind(u, s)
         /\ \A z \in RowsOf(u) : z.owner = e \/ z \in RowsOf(s)
         /\ s.observation # "observed" => \A z \in RowsOf(u) : z.owner # e
<1>1. /\ Shape(s) /\ BoundsInv(s) /\ ValuesInv(LiveRows(s), TailRows(s), v)
      /\ LiveRows(s) \in SUBSET Rows /\ TailRows(s) \in SUBSET Rows
      /\ s.observation = "observed" => (~s.overflowed => ListInv(RowsOf(s), s.changed))
      /\ s.observation # "observed" => TailRows(s) = {}
  BY RowsParts
<1>2. CASE s.observation = "observed"
  <2>1. PICK r, y : r = s.rows[linked(s, e)] /\ y = removedRow(r)
    OBVIOUS
  <2>2. /\ Tails(s, u, e, y) /\ BoundsInv(u)
        /\ r.state = "Unchanged" => Lists(u, s, e)
        /\ r.state # "Unchanged" => sameList(u, s)
    BY <1>1, <1>2, <2>1, TailDoes
  <2>3. r \in LiveRows(s) /\ r \in RowsOf(s) /\ r.owner = e
    BY <1>1, <2>1, Finds DEF RowsOf
  <2>4. r \in Rows /\ Tells(r, v, b) /\ r.state \in {"Unchanged", "Changed", "Added"}
    BY <1>2, <2>3, RowTells
  <2>5. /\ y.owner = e /\ y.shadow = r.shadow
        /\ y.state = IF r.state = "Added" THEN "Discarded" ELSE "Removed"
    BY <2>1, <2>3, <2>4 DEF removedRow, Rows
  <2>6. y.state \in {"Removed", "Discarded"} /\ Tells(y, w, b)
    BY <2>3, <2>4, <2>5 DEF Tells
  <2>7. Relisted(s, u, e)
    <3>1. ASSUME ~u.overflowed PROVE ~s.overflowed /\ Told(s.changed, u.changed, e)
      <4>1. CASE r.state = "Unchanged"
        <5>1. Lists(u, s, e) /\ ~s.overflowed
          BY <2>2, <3>1, <4>1 DEF Lists
        <5>2. \A z \in RowsOf(s) : z.owner = e => z.state = "Unchanged"
          BY <1>1, <2>3, <4>1, RowsApart
        <5>3. ListInv(RowsOf(s), s.changed)
          BY <1>1, <1>2, <5>1
        <5>4. Told(s.changed, u.changed, e)
          BY <1>1, <3>1, <5>1, <5>2, <5>3, ListTold
        <5> QED BY <5>1, <5>4
      <4>2. CASE r.state # "Unchanged"
        <5>1. sameList(u, s) /\ ~s.overflowed
          BY <2>2, <3>1, <4>2 DEF sameList
        <5>2. ListInv(RowsOf(s), s.changed)
          BY <1>1, <1>2, <5>1
        <5>3. Told(s.changed, u.changed, e)
          BY <1>1, <2>3, <4>2, <5>1, <5>2, ListTold
        <5> QED BY <5>1, <5>3
      <4> QED BY <4>1, <4>2
    <3> QED BY <3>1 DEF Relisted
  <2>8. RowsInv(u, w, b) /\ \A z \in RowsOf(u) : z.owner = e \/ z \in RowsOf(s)
    BY <1>2, <2>2, <2>6, <2>7, TailsKeeps
  <2> QED BY <1>2, <2>2, <2>8 DEF Tails
<1>3. CASE s.observation # "observed"
  <2>1. s.liveRows = Len(s.rows) /\ u = drop(s, e)
    BY <1>1, <1>3 DEF BoundsInv, remove
  <2>2. /\ Shape(u) /\ sameKind(u, s) /\ u.liveRows = Len(u.rows)
        /\ LiveRows(u) = without(LiveRows(s), e) /\ TailRows(u) = {}
    BY <1>1, <2>1, Dropped
  <2>3. w[e] = Unset /\ \A d \in Entities : d # e => w[d] = v[d]
    BY Giving
  <2>4. ValuesInv(LiveRows(u), TailRows(u), w)
    <3>1. PICK L, T, X : L = LiveRows(s) /\ T = TailRows(s) /\ X = {}
      OBVIOUS
    <3>2. ValuesInv(without(L, e), without(T, e) \cup X, w)
      <4>1. \A y \in X : y.owner = e
        BY <3>1
      <4>2. L \in SUBSET Rows /\ T \in SUBSET Rows /\ ValuesInv(L, T, v)
        BY <1>1, <3>1
      <4> QED BY ONLY <2>3, <4>1, <4>2, v \in Valuations, e \in Entities, ValuesTaken
    <3>3. without(T, e) \cup X = {}
      BY <1>1, <1>3, <3>1 DEF without
    <3> QED BY <2>2, <3>1, <3>2, <3>3
  <2>5. u.observation # "observed"
    BY <1>3, <2>2 DEF sameKind
  <2>6. RowsInv(u, w, b)
    <3>1. u \in Stores /\ LinksInv(u) /\ u.liveRows <= Len(u.rows)
      BY <2>2 DEF Shape
    <3> QED BY <2>2, <2>4, <2>5, <3>1 DEF RowsInv, BoundsInv, ObservedInv
  <2>7. \A z \in RowsOf(u) : z.owner # e /\ z \in RowsOf(s)
    BY <2>2 DEF RowsOf, without
  <2> QED BY <1>3, <2>2, <2>6, <2>7
<1> QED BY <1>2, <1>3

\* A store made of the rows of another, some of them with a new state.
LEMMA FromRows ==
  ASSUME NEW n \in Nat, NEW q, q \in [1..n -> Rows]
  PROVE  q \in Seq(Rows) /\ Len(q) = n /\ DOMAIN q = 1..n
<1>1. q \in Seq(Rows)
  BY SeqDef
<1> QED BY <1>1, LenProperties

\* The start of an observation: whatever there is was added.
LEMMA StartKeeps ==
  ASSUME NEW s, NEW v, NEW b, RowsInv(s, v, b), s.observation # "observed", \A e \in Entities : b[e] = Unset,
         NEW u, u = startObservation(s)
  PROVE  RowsInv(u, v, b) /\ \A z \in RowsOf(u) : \E y \in RowsOf(s) : y.owner = z.owner
<1>1. CASE s.observation # "observerWaiting"
  <2>1. u = s
    BY <1>1 DEF startObservation
  <2> QED BY <2>1
<1>2. CASE s.observation = "observerWaiting"
  <2>1. /\ Shape(s) /\ BoundsInv(s) /\ ValuesInv(LiveRows(s), TailRows(s), v)
        /\ LiveRows(s) \in SUBSET Rows /\ TailRows(s) = {}
    BY RowsParts
  <2>2. s \in Stores /\ Len(s.rows) \in Nat /\ s.liveRows = Len(s.rows)
        /\ \A r \in 1..Len(s.rows) : s.rows[r] \in Rows
    BY <2>1, StoreParts DEF Shape, BoundsInv
  <2>3. DOMAIN s.rows = 1..Len(s.rows)
    BY <2>2, StoreParts
  <2>4. PICK n, q : n = Len(s.rows) /\ q = [r \in 1..n |-> [s.rows[r] EXCEPT !.state = "Added"]]
    OBVIOUS
  <2>5. \A x \in Rows : /\ [x EXCEPT !.state = "Added"] \in Rows
                        /\ [x EXCEPT !.state = "Added"].owner = x.owner
                        /\ [x EXCEPT !.state = "Added"].value = x.value
                        /\ [x EXCEPT !.state = "Added"].state = "Added"
    BY DEF Rows, States
  <2>6. \A r \in 1..n : /\ q[r] \in Rows /\ q[r].owner = s.rows[r].owner /\ q[r].value = s.rows[r].value
                        /\ q[r].state = "Added"
    BY <2>2, <2>4, <2>5
  <2>7. q \in Seq(Rows) /\ Len(q) = n /\ DOMAIN q = 1..n
    <3>1. q \in [1..n -> Rows] /\ n \in Nat
      BY <2>2, <2>4, <2>6
    <3> QED BY <3>1, FromRows
  <2>8. u = [s EXCEPT !.observation = "observed", !.overflowed = TRUE, !.rows = q]
    BY <1>2, <2>3, <2>4 DEF startObservation
  <2>9. u \in Stores
    BY ONLY <2>2, <2>7, <2>8 DEF Stores
  <2>10. /\ u.rows = q /\ u.liveRows = n /\ u.rowByIndex = s.rowByIndex
         /\ u.observation = "observed" /\ u.overflowed
    BY ONLY <2>2, <2>4, <2>8 DEF Stores
  <2>11. LinksInv(u)
    <3>1. \A r \in 1..n : s.rowByIndex[index(s.rows[r].owner)] = r
      BY <2>1, <2>4, Linked
    <3>2. \A i \in Indices : s.rowByIndex[i] # 0 =>
            s.rowByIndex[i] \in 1..n /\ index(s.rows[s.rowByIndex[i]].owner) = i
      BY <2>1, <2>4, Linked
    <3> QED BY <2>6, <2>7, <2>10, <3>1, <3>2 DEF LinksInv
  <2>12. BoundsInv(u)
    BY <2>2, <2>4, <2>7, <2>10 DEF BoundsInv
  <2>13. TailRows(u) = {}
    <3>1. n \in Nat /\ n + 1..n = {}
      BY <2>2, <2>4
    <3> QED BY <2>7, <2>10, <3>1 DEF TailRows
  <2>14. \A z \in LiveRows(u) : \E y \in LiveRows(s) :
           y.owner = z.owner /\ z.value = y.value /\ z.state = "Added"
    <3>1. s.liveRows = n /\ u.liveRows = n /\ u.rows = q
      BY <2>2, <2>4, <2>10
    <3> QED BY <2>6, <3>1 DEF LiveRows
  <2>15. \A y \in LiveRows(s) : \E z \in LiveRows(u) : y.owner = z.owner
    <3>1. s.liveRows = n /\ u.liveRows = n /\ u.rows = q
      BY <2>2, <2>4, <2>10
    <3> QED BY <2>6, <3>1 DEF LiveRows
  <2>16. ValuesInv(LiveRows(u), TailRows(u), v)
    <3>1. \A z \in LiveRows(u) : v[z.owner] = z.value /\ z.value # Unset
      BY <2>1, <2>14 DEF ValuesInv
    <3>2. \A e \in Entities : (\A x \in LiveRows(u) : x.owner # e) => v[e] = Unset
      BY <2>1, <2>15 DEF ValuesInv
    <3> QED BY <2>13, <3>1, <3>2 DEF ValuesInv
  <2>17. StatesInv(LiveRows(u), TailRows(u), v, b)
    <3>1. \A z \in LiveRows(u) : z.state = "Added" /\ b[z.owner] = Unset
      <4>1. \A y \in LiveRows(s) : y.owner \in Entities
        BY <2>1 DEF Rows
      <4> QED BY <2>14, <4>1
    <3> QED BY <2>13, <3>1 DEF StatesInv
  <2>18. RowsInv(u, v, b)
    BY <2>9, <2>10, <2>11, <2>12, <2>16, <2>17 DEF RowsInv, ObservedInv
  <2>19. \A z \in RowsOf(u) : \E y \in RowsOf(s) : y.owner = z.owner
    BY <2>13, <2>14 DEF RowsOf
  <2> QED BY <2>18, <2>19
<1> QED BY <1>1, <1>2

\* The end of a window visits all rows that are not unchanged.
LEMMA AllWalked ==
  ASSUME NEW s, NEW v, NEW b, RowsInv(s, v, b), s.observation = "observed",
         NEW r \in 1..Len(s.rows), s.rows[r].state # "Unchanged"
  PROVE  r \in ToSet(walked(s))
<1>1. Shape(s) /\ (~s.overflowed => ListInv(RowsOf(s), s.changed))
  BY RowsParts
<1>2. DOMAIN s.rows = 1..Len(s.rows) /\ s.changed \in Seq(Entities)
  BY <1>1, StoreParts DEF Shape
<1>3. CASE s.overflowed
  BY <1>2, <1>3 DEF walked, ToSet
<1>4. CASE ~s.overflowed
  <2>1. s.rows[r] \in RowsOf(s)
    BY <1>1, RowsApart
  <2>2. s.rows[r].owner \in ToSet(s.changed)
    BY <1>1, <1>4, <2>1 DEF ListInv
  <2>3. PICK n \in DOMAIN s.changed : s.changed[n] = s.rows[r].owner
    BY <2>2 DEF ToSet
  <2>4. linked(s, s.changed[n]) = r
    BY <1>1, <2>3, Linked DEF linked
  <2> QED BY <1>4, <2>3, <2>4 DEF walked, ToSet
<1> QED BY <1>3, <1>4

\* The end of a window: what there is becomes what there was.
LEMMA ResetKeeps ==
  ASSUME NEW s, NEW v \in Valuations, NEW b, RowsInv(s, v, b), NEW u, u = resetObservation(s)
  PROVE  /\ RowsInv(u, v, v) /\ sameKind(u, s)
         /\ \A z \in RowsOf(u) : \E y \in LiveRows(s) : y.owner = z.owner
<1>1. /\ Shape(s) /\ BoundsInv(s) /\ ValuesInv(LiveRows(s), TailRows(s), v)
      /\ LiveRows(s) \in SUBSET Rows
      /\ s.observation # "observed" => TailRows(s) = {}
  BY RowsParts
<1>2. CASE s.observation # "observed"
  <2>1. u = s
    BY <1>2 DEF resetObservation
  <2>2. RowsInv(u, v, v)
    BY <1>2, <2>1 DEF RowsInv, ObservedInv
  <2> QED BY <1>1, <1>2, <2>1, <2>2 DEF sameKind, RowsOf
<1>3. CASE s.observation = "observed"
  <2>1. /\ s \in Stores /\ Len(s.rows) \in Nat /\ s.liveRows \in Nat /\ s.liveRows <= Len(s.rows)
        /\ s.rowByIndex \in [Indices -> Nat]
        /\ \A r \in 1..Len(s.rows) : s.rows[r] \in Rows /\ index(s.rows[r].owner) \in Indices
    BY <1>1, StoreParts DEF Shape
  <2>2. PICK n : n = s.liveRows
    OBVIOUS
  <2>3. n \in Nat /\ \A r \in 1..n : r \in 1..Len(s.rows)
    BY <2>1, <2>2
  <2>4. PICK q : q = [r \in 1..n |-> IF r \in ToSet(walked(s)) /\ s.rows[r].state # "Unchanged"
                                     THEN [s.rows[r] EXCEPT !.shadow = s.rows[r].value, !.state = "Unchanged"]
                                     ELSE s.rows[r]]
    OBVIOUS
  <2>5. \A x \in Rows : LET z == [x EXCEPT !.shadow = x.value, !.state = "Unchanged"]
                        IN  /\ z \in Rows /\ z.owner = x.owner /\ z.value = x.value
                            /\ z.shadow = x.value /\ z.state = "Unchanged"
    BY DEF Rows, States
  <2>6. ASSUME NEW r \in 1..n
        PROVE  /\ q[r] \in Rows /\ q[r].owner = s.rows[r].owner /\ q[r].value = s.rows[r].value
               /\ q[r].state = "Unchanged" /\ q[r].shadow = v[s.rows[r].owner]
    <3>1. PICK x : x = s.rows[r]
      OBVIOUS
    <3>2. x \in Rows /\ x \in LiveRows(s) /\ x \in RowsOf(s) /\ r \in 1..Len(s.rows)
      BY <2>1, <2>2, <2>3, <3>1 DEF LiveRows, RowsOf
    <3>3. Tells(x, v, b) /\ v[x.owner] = x.value
      BY <1>1, <1>3, <3>2, RowTells DEF ValuesInv
    <3>4. CASE x.state = "Unchanged"
      <4>1. q[r] = x
        BY <2>4, <3>1, <3>4
      <4> QED BY <3>1, <3>2, <3>3, <3>4, <4>1 DEF Tells
    <3>5. CASE x.state # "Unchanged"
      <4>1. r \in ToSet(walked(s))
        BY <1>3, <3>1, <3>2, <3>5, AllWalked
      <4>2. q[r] = [x EXCEPT !.shadow = x.value, !.state = "Unchanged"]
        BY <2>4, <3>1, <3>5, <4>1
      <4> QED BY <2>5, <3>1, <3>2, <3>3, <4>2
    <3> QED BY <3>4, <3>5
  <2>7. q \in Seq(Rows) /\ Len(q) = n /\ DOMAIN q = 1..n
    <3>1. q \in [1..n -> Rows]
      BY <2>4, <2>6
    <3> QED BY <2>3, <3>1, FromRows
  <2>8. PICK l : l = [i \in Indices |-> IF \E r \in n + 1..Len(s.rows) :
                                             index(s.rows[r].owner) = i /\ s.rowByIndex[i] = r
                                        THEN 0 ELSE s.rowByIndex[i]]
    OBVIOUS
  <2>9. l \in [Indices -> Nat]
    BY <2>1, <2>8
  <2>10. u = [s EXCEPT !.rows = q, !.rowByIndex = l, !.changed = <<>>, !.overflowed = FALSE]
    BY <1>3, <2>2, <2>4, <2>8 DEF resetObservation
  <2>11. u \in Stores
    <3>1. <<>> \in Seq(Entities)
      OBVIOUS
    <3> QED BY ONLY <2>1, <2>7, <2>9, <2>10, <3>1 DEF Stores
  <2>12. /\ u.rows = q /\ u.liveRows = n /\ u.rowByIndex = l /\ u.changed = <<>>
         /\ u.observation = "observed" /\ sameKind(u, s)
    BY ONLY <1>3, <2>1, <2>2, <2>10 DEF Stores, sameKind
  <2>13. ASSUME NEW r \in 1..n PROVE l[index(q[r].owner)] = r
    <3>1. PICK i : i = index(s.rows[r].owner)
      OBVIOUS
    <3>2. i \in Indices /\ s.rowByIndex[i] = r /\ index(q[r].owner) = i
      BY <1>1, <2>1, <2>3, <2>6, <3>1, Linked
    <3>3. \A m \in n + 1..Len(s.rows) : m # r
      BY <2>1, <2>3
    <3> QED BY <2>8, <3>2, <3>3
  <2>14. ASSUME NEW i \in Indices, l[i] # 0 PROVE l[i] \in 1..n /\ index(q[l[i]].owner) = i
    <3>1. PICK m : m = s.rowByIndex[i]
      OBVIOUS
    <3>2. /\ l[i] = m /\ m \in 1..Len(s.rows) /\ index(s.rows[m].owner) = i
          /\ m \notin n + 1..Len(s.rows)
      <4>1. ~(\E r \in n + 1..Len(s.rows) : index(s.rows[r].owner) = i /\ s.rowByIndex[i] = r) /\ l[i] = m
        BY <2>8, <2>14, <3>1
      <4>2. m \in 1..Len(s.rows) /\ index(s.rows[m].owner) = i
        BY <1>1, <2>14, <3>1, <4>1, Linked
      <4> QED BY <3>1, <4>1, <4>2
    <3>3. m \in 1..n
      BY <2>1, <2>3, <3>2
    <3> QED BY <2>6, <3>2, <3>3
  <2>15. LinksInv(u)
    <3>1. u.rows = q /\ u.rowByIndex = l /\ DOMAIN q = 1..n
      BY <2>7, <2>12
    <3> QED BY <2>13, <2>14, <3>1 DEF LinksInv
  <2>16. BoundsInv(u)
    BY <2>3, <2>7, <2>12 DEF BoundsInv
  <2>17. TailRows(u) = {}
    <3>1. n + 1..n = {}
      BY <2>3
    <3> QED BY <2>7, <2>12, <3>1 DEF TailRows
  <2>18. \A z \in LiveRows(u) : \E y \in LiveRows(s) :
           /\ y.owner = z.owner /\ z.value = y.value /\ z.state = "Unchanged" /\ z.shadow = v[z.owner]
    BY <2>2, <2>6, <2>12 DEF LiveRows
  <2>19. \A y \in LiveRows(s) : \E z \in LiveRows(u) : y.owner = z.owner
    BY <2>2, <2>6, <2>12 DEF LiveRows
  <2>20. \A z \in LiveRows(u) : v[z.owner] = z.value /\ z.value # Unset
    BY <1>1, <2>18 DEF ValuesInv
  <2>21. ASSUME NEW e \in Entities, \A x \in LiveRows(u) : x.owner # e PROVE v[e] = Unset
    <3>1. \A y \in LiveRows(s) : y.owner # e
      BY <2>19, <2>21
    <3> QED BY <1>1, <3>1 DEF ValuesInv
  <2>22. ValuesInv(LiveRows(u), TailRows(u), v)
    BY <2>17, <2>20, <2>21 DEF ValuesInv
  <2>23. StatesInv(LiveRows(u), TailRows(u), v, v)
    <3>1. \A z \in LiveRows(u) : z.state = "Unchanged" /\ z.shadow = v[z.owner] /\ v[z.owner] # Unset
      BY <2>18, <2>20
    <3> QED BY <2>17, <2>21, <3>1 DEF StatesInv
  <2>24. ListInv(LiveRows(u) \cup TailRows(u), u.changed)
    <3>1. ToSet(u.changed) = {} /\ IsInjective(u.changed)
      BY <2>12 DEF ToSet, IsInjective
    <3>2. \A z \in LiveRows(u) : z.state = "Unchanged"
      BY <2>18
    <3> QED BY <2>17, <3>1, <3>2 DEF ListInv
  <2>25. RowsInv(u, v, v)
    BY <2>11, <2>15, <2>16, <2>22, <2>23, <2>24 DEF RowsInv, ObservedInv
  <2>26. \A z \in RowsOf(u) : \E y \in LiveRows(s) : y.owner = z.owner
    BY <2>17, <2>18 DEF RowsOf
  <2> QED BY <2>12, <2>25, <2>26
<1> QED BY <1>2, <1>3

-----------------------------------------------------------------------------
(* The stores of a world *)

\* The parts of what is known of a store.
LEMMA StoreInvParts ==
  ASSUME NEW s, NEW t, NEW v, NEW b, NEW c, StoreInv(s, t, v, b, c)
  PROVE  /\ RowsInv(s, v, b) /\ Shape(s) /\ MasksInv(t, v, c) /\ OwnersInv(RowsOf(s), t, v)
         /\ s.observation = "observed" => t.observing
BY RowsParts DEF StoreInv, RowsOf

\* An entity that has a row has its value, and is alive; no other entity has a
\* row at the index of one that is alive.
LEMMA Owned ==
  ASSUME NEW s, NEW t, NEW v, NEW b, NEW c, StoreInv(s, t, v, b, c), NEW e \in Entities
  PROVE  /\ has(s, e) <=> v[e] # Unset
         /\ v[e] # Unset => alive(t, e)
         /\ alive(t, e) => Alone(s, e)
         /\ has(s, e) => s.rows[linked(s, e)].value = v[e]
<1>1. RowsInv(s, v, b) /\ Shape(s) /\ OwnersInv(RowsOf(s), t, v)
  BY StoreInvParts
<1>2. ValuesInv(LiveRows(s), TailRows(s), v)
  BY <1>1, RowsParts
<1>3. has(s, e) <=> \E x \in LiveRows(s) : x.owner = e
  BY <1>1, Finds
<1>4. has(s, e) <=> v[e] # Unset
  <2>1. ASSUME has(s, e) PROVE v[e] # Unset
    BY <1>2, <1>3, <2>1 DEF ValuesInv
  <2>2. ASSUME v[e] # Unset PROVE has(s, e)
    <3>1. PICK x \in LiveRows(s) \cup TailRows(s) : x.owner = e
      BY <1>2, <2>2 DEF ValuesInv
    <3>2. x \in LiveRows(s)
      BY <1>2, <2>2, <3>1 DEF ValuesInv
    <3> QED BY <1>3, <3>1, <3>2
  <2> QED BY <2>1, <2>2
<1>5. ASSUME v[e] # Unset PROVE alive(t, e)
  <2>1. PICK x \in LiveRows(s) : x.owner = e
    BY <1>3, <1>4, <1>5
  <2> QED BY <1>1, <1>5, <2>1 DEF OwnersInv, RowsOf
<1>6. ASSUME alive(t, e) PROVE Alone(s, e)
  <2>1. ASSUME NEW x \in RowsOf(s), index(x.owner) = index(e) PROVE x.owner = e
    <3>1. t.live[index(e)] = generation(e) /\ t.live[index(e)] # 0
      BY <1>6 DEF alive
    <3>2. alive(t, x.owner)
      BY <1>1, <2>1, <3>1 DEF OwnersInv
    <3>3. generation(x.owner) = generation(e)
      BY <2>1, <3>1, <3>2 DEF alive
    <3>4. x.owner \in Entities
      BY <1>1, RowsApart
    <3> QED BY <2>1, <3>3, <3>4, Parts
  <2> QED BY <2>1 DEF Alone
<1>7. ASSUME has(s, e) PROVE s.rows[linked(s, e)].value = v[e]
  <2>1. s.rows[linked(s, e)] \in LiveRows(s) /\ s.rows[linked(s, e)].owner = e
    BY <1>1, <1>7, Finds
  <2> QED BY <1>2, <2>1 DEF ValuesInv
<1> QED BY <1>4, <1>5, <1>6, <1>7

\* A write, removal or despawn of an entity that is alive.
LEMMA StoreStep ==
  ASSUME NEW s, NEW t \in Tables, NEW v, NEW b, NEW c, StoreInv(s, t, v, b, c),
         NEW e \in Entities, alive(t, e),
         NEW u, NEW w, RowsInv(u, w, b), \A d \in Entities : d # e => w[d] = v[d],
         \A z \in RowsOf(u) : z.owner = e \/ z \in RowsOf(s),
         NEW n \in Tables, ToSet(t.despawned) \subseteq ToSet(n.despawned),
         \A i \in Indices : i # index(e) => n.live[i] = t.live[i] /\ n.mask[i] = t.mask[i],
         \/ alive(n, e) /\ (c \in n.mask[index(e)] <=> w[e] # Unset)
         \/ /\ n.live[index(e)] = 0 /\ w[e] = Unset
            /\ index(e) \in ToSet(n.despawned) \/ \A z \in RowsOf(u) : z.owner # e,
         u.observation = "observed" => n.observing
  PROVE  StoreInv(u, n, w, b, c)
<1>1. OwnersInv(RowsOf(s), t, v) /\ MasksInv(t, v, c) /\ Shape(s)
  BY StoreInvParts
<1>2. Shape(u)
  BY RowsParts
<1>3. t.live[index(e)] = generation(e) /\ t.live[index(e)] # 0
  BY DEF alive
<1>4. \A d \in Entities : index(d) \in Indices /\ (index(d) = index(e) /\ generation(d) = generation(e) => d = e)
                          /\ generation(d) # 0
  BY Parts
<1>5. ASSUME NEW z \in RowsOf(u)
      PROVE  \/ alive(n, z.owner)
             \/ /\ w[z.owner] = Unset /\ n.live[index(z.owner)] = 0
                /\ index(z.owner) \in ToSet(n.despawned)
  <2>1. CASE z.owner = e
    BY <1>5, <2>1
  <2>2. CASE z.owner # e
    <3>1. PICK d : d = z.owner
      OBVIOUS
    <3>2. d \in Entities /\ z \in RowsOf(s) /\ w[d] = v[d] /\ d # e
      BY <1>2, <2>2, <3>1, RowsApart
    <3>3. \/ alive(t, d)
          \/ v[d] = Unset /\ t.live[index(d)] = 0 /\ index(d) \in ToSet(t.despawned)
      BY <1>1, <3>1, <3>2 DEF OwnersInv
    <3>4. index(d) # index(e)
      BY <1>3, <1>4, <3>2, <3>3 DEF alive
    <3>5. n.live[index(d)] = t.live[index(d)]
      BY <1>4, <3>2, <3>4
    <3> QED BY <3>1, <3>2, <3>3, <3>5 DEF alive
  <2> QED BY <2>1, <2>2
<1>6. ASSUME NEW d \in Entities, alive(n, d) PROVE c \in n.mask[index(d)] <=> w[d] # Unset
  <2>1. CASE index(d) = index(e)
    <3>1. n.live[index(e)] = generation(d) /\ n.live[index(e)] # 0
      BY <1>6, <2>1 DEF alive
    <3>2. alive(n, e) /\ (c \in n.mask[index(e)] <=> w[e] # Unset)
      BY <3>1
    <3>3. d = e
      BY <1>4, <2>1, <3>1, <3>2 DEF alive
    <3> QED BY <3>2, <3>3
  <2>2. CASE index(d) # index(e)
    <3>1. n.live[index(d)] = t.live[index(d)] /\ n.mask[index(d)] = t.mask[index(d)] /\ w[d] = v[d]
      BY <1>4, <2>2
    <3>2. alive(t, d)
      BY <1>6, <3>1 DEF alive
    <3> QED BY <1>1, <3>1, <3>2 DEF MasksInv
  <2> QED BY <2>1, <2>2
<1>7. OwnersInv(RowsOf(u), n, w)
  BY <1>5 DEF OwnersInv
<1>8. MasksInv(n, w, c)
  BY <1>6 DEF MasksInv
<1> QED BY <1>7, <1>8 DEF StoreInv, RowsOf

\* An entity comes alive at an index that is neither alive nor despawned in
\* this window.
LEMMA StoreBorn ==
  ASSUME NEW s, NEW t \in Tables, NEW v, NEW b, NEW c, StoreInv(s, t, v, b, c),
         NEW e \in Entities, t.live[index(e)] = 0, index(e) \notin ToSet(t.despawned), t.mask[index(e)] = {},
         NEW n, n.live = [t.live EXCEPT ![index(e)] = generation(e)],
         n.mask = t.mask, n.observing = t.observing, n.despawned = t.despawned
  PROVE  StoreInv(s, n, v, b, c)
<1>1. OwnersInv(RowsOf(s), t, v) /\ MasksInv(t, v, c) /\ Shape(s)
  BY StoreInvParts
<1>2. \A d \in Entities : index(d) \in Indices /\ (index(d) = index(e) /\ generation(d) = generation(e) => d = e)
                          /\ generation(d) # 0
  BY Parts
<1>3. \A i \in Indices : n.live[i] = IF i = index(e) THEN generation(e) ELSE t.live[i]
  BY DEF Tables
<1>4. ASSUME NEW z \in RowsOf(s)
      PROVE  \/ alive(n, z.owner)
             \/ /\ v[z.owner] = Unset /\ n.live[index(z.owner)] = 0
                /\ index(z.owner) \in ToSet(n.despawned)
  <2>1. PICK d : d = z.owner
    OBVIOUS
  <2>2. d \in Entities
    BY <1>1, <2>1, RowsApart
  <2>3. \/ alive(t, d)
        \/ v[d] = Unset /\ t.live[index(d)] = 0 /\ index(d) \in ToSet(t.despawned)
    BY <1>1, <2>1 DEF OwnersInv
  <2>4. index(d) # index(e)
    BY <2>3 DEF alive
  <2>5. n.live[index(d)] = t.live[index(d)]
    BY <1>2, <1>3, <2>2, <2>4
  <2> QED BY <2>1, <2>3, <2>5 DEF alive
<1>5. ASSUME NEW d \in Entities, alive(n, d) PROVE c \in n.mask[index(d)] <=> v[d] # Unset
  <2>1. CASE index(d) = index(e)
    <3>1. n.live[index(e)] = generation(e)
      BY <1>2, <1>3
    <3>2. d = e
      BY <1>2, <1>5, <2>1, <3>1 DEF alive
    <3>3. ~alive(t, e)
      BY DEF alive
    <3>4. v[e] = Unset
      BY <3>3, Owned
    <3> QED BY <3>2, <3>4
  <2>2. CASE index(d) # index(e)
    <3>1. n.live[index(d)] = t.live[index(d)]
      BY <1>2, <1>3, <2>2
    <3>2. alive(t, d)
      BY <1>5, <3>1 DEF alive
    <3> QED BY <1>1, <3>2 DEF MasksInv
  <2> QED BY <2>1, <2>2
<1>6. OwnersInv(RowsOf(s), n, v) /\ MasksInv(n, v, c)
  BY <1>4, <1>5 DEF OwnersInv, MasksInv
<1> QED BY <1>6 DEF StoreInv, RowsOf

\* A table that only counts otherwise.
LEMMA StoreSame ==
  ASSUME NEW s, NEW t, NEW v, NEW b, NEW c, StoreInv(s, t, v, b, c), NEW n,
         n.live = t.live, n.mask = t.mask, n.observing = t.observing, n.despawned = t.despawned
  PROVE  StoreInv(s, n, v, b, c)
BY DEF StoreInv, OwnersInv, MasksInv, alive

\* The first end of a window.
LEMMA StoreStarts ==
  ASSUME NEW s, NEW t, NEW v, NEW b, NEW c, StoreInv(s, t, v, b, c), ~t.observing,
         \A e \in Entities : b[e] = Unset,
         NEW n, n.live = t.live, n.mask = t.mask, n.observing, ToSet(t.despawned) = {}, NEW u, u = startObservation(s)
  PROVE  StoreInv(u, n, v, b, c)
<1>1. /\ RowsInv(s, v, b) /\ MasksInv(t, v, c) /\ OwnersInv(RowsOf(s), t, v)
      /\ s.observation # "observed"
  BY StoreInvParts
<1>2. RowsInv(u, v, b) /\ \A z \in RowsOf(u) : \E y \in RowsOf(s) : y.owner = z.owner
  BY <1>1, StartKeeps
<1>3. \A y \in RowsOf(s) : alive(t, y.owner)
  BY <1>1 DEF OwnersInv
<1>4. \A z \in RowsOf(u) : alive(n, z.owner)
  BY <1>2, <1>3 DEF alive
<1>5. OwnersInv(RowsOf(u), n, v) /\ MasksInv(n, v, c)
  BY <1>1, <1>4 DEF OwnersInv, MasksInv, alive
<1> QED BY <1>2, <1>5 DEF StoreInv, RowsOf

\* Every other one.
LEMMA StoreResets ==
  ASSUME NEW s, NEW t, NEW v \in Valuations, NEW b, NEW c, StoreInv(s, t, v, b, c),
         NEW n, n.live = t.live, n.mask = t.mask, n.observing, NEW u, u = resetObservation(s)
  PROVE  StoreInv(u, n, v, v, c)
<1>1. RowsInv(s, v, b) /\ MasksInv(t, v, c) /\ OwnersInv(RowsOf(s), t, v)
  BY StoreInvParts
<1>2. RowsInv(u, v, v) /\ \A z \in RowsOf(u) : \E y \in LiveRows(s) : y.owner = z.owner
  BY <1>1, ResetKeeps
<1>3. ValuesInv(LiveRows(s), TailRows(s), v)
  BY <1>1, RowsParts
<1>4. \A y \in LiveRows(s) : alive(t, y.owner)
  BY <1>1, <1>3 DEF OwnersInv, ValuesInv, RowsOf
<1>5. \A z \in RowsOf(u) : alive(n, z.owner)
  BY <1>2, <1>4 DEF alive
<1>6. OwnersInv(RowsOf(u), n, v) /\ MasksInv(n, v, c)
  BY <1>1, <1>5 DEF OwnersInv, MasksInv, alive
<1> QED BY <1>2, <1>6 DEF StoreInv, RowsOf

\* The values of one component.
LEMMA ValuesOf ==
  ASSUME NEW h \in Contents, NEW c \in Components
  PROVE  valuesOf(h, c) \in Valuations /\ \A e \in Entities : valuesOf(h, c)[e] = h[e][c]
BY DEF Contents, Valuations, valuesOf

givenOne(h, e, c, x) == [h EXCEPT ![e][c] = x]

\* What changes of them when one entity is given one component.
LEMMA TruthGiven ==
  ASSUME NEW h \in Contents, NEW e \in Entities, NEW c \in Components, NEW x \in Values \cup {Unset},
         NEW g, g = givenOne(h, e, c, x)
  PROVE  /\ g \in Contents /\ valuesOf(g, c) = given(valuesOf(h, c), e, x)
         /\ \A a \in Components : a # c => valuesOf(g, a) = valuesOf(h, a)
<1>1. g \in Contents
  BY DEF Contents, givenOne
<1>2. \A d \in Entities, a \in Components : g[d][a] = IF d = e /\ a = c THEN x ELSE h[d][a]
  BY DEF Contents, givenOne
<1>3. valuesOf(g, c) = given(valuesOf(h, c), e, x)
  BY <1>2 DEF valuesOf, given
<1>4. ASSUME NEW a \in Components, a # c PROVE valuesOf(g, a) = valuesOf(h, a)
  BY <1>2, <1>4 DEF valuesOf
<1> QED BY <1>1, <1>3, <1>4

emptied(h, e) == [h EXCEPT ![e] = nothing]

\* What changes when it loses all it has.
LEMMA TruthGone ==
  ASSUME NEW h \in Contents, NEW e \in Entities, NEW g, g = emptied(h, e)
  PROVE  /\ g \in Contents
         /\ \A a \in Components : valuesOf(g, a) = given(valuesOf(h, a), e, Unset)
<1>1. g \in Contents
  BY DEF Contents, nothing, emptied
<1>2. \A d \in Entities, a \in Components : g[d][a] = IF d = e THEN Unset ELSE h[d][a]
  BY DEF Contents, nothing, emptied
<1>3. ASSUME NEW a \in Components PROVE valuesOf(g, a) = given(valuesOf(h, a), e, Unset)
  BY <1>2 DEF valuesOf, given
<1> QED BY <1>1, <1>3

\* The parts of a world.
LEMMA WorldParts ==
  ASSUME NEW w, NEW old, WorldInv(w, old), NEW t, t = w.table
  PROVE  /\ w \in Worlds /\ t \in Tables /\ TableInv(t, w.fate) /\ w.fate \in [Entities -> Fates]
         /\ w.stores \in [Components -> Stores] /\ w.truth \in Contents
         /\ \A c \in Components : StoreInv(w.stores[c], t, valuesOf(w.truth, c), valuesOf(old, c), c)
         /\ SlotsInv(t) /\ Based(t, old)
BY DEF WorldInv, Worlds, TableInv, StoresInv

made(w, t, S, f, h) == [w EXCEPT !.table = t, !.stores = S, !.fate = f, !.truth = h]

\* And a world made of them.
LEMMA MadeWorld ==
  ASSUME NEW w \in Worlds, NEW old, NEW t, NEW S \in [Components -> Stores], NEW f, NEW h \in Contents, TableInv(t, f), Based(t, old),
         \A c \in Components : StoreInv(S[c], t, valuesOf(h, c), valuesOf(old, c), c),
         NEW z, z = made(w, t, S, f, h)
  PROVE  WorldInv(z, old) /\ z.table = t /\ z.stores = S /\ z.fate = f /\ z.truth = h
<1>1. t \in Tables /\ f \in [Entities -> Fates]
  BY DEF TableInv
<1>2. z \in Worlds
  BY <1>1 DEF Worlds, made
<1>3. z.table = t /\ z.stores = S /\ z.fate = f /\ z.truth = h
  BY DEF Worlds, made
<1> QED BY <1>2, <1>3 DEF WorldInv, StoresInv

\* What is changed with a mask.
LEMMA Masked ==
  ASSUME NEW t, NEW f, TableInv(t, f), NEW e \in Entities, alive(t, e), NEW m \in SUBSET Components,
         NEW i, i = index(e), NEW n, n = masked(t, i, m)
  PROVE  /\ TableInv(n, f) /\ n \in Tables /\ n.live = t.live /\ n.observing = t.observing
         /\ n.despawned = t.despawned /\ alive(n, e) /\ n.mask[i] = m
         /\ \A j \in Indices : j # i => n.live[j] = t.live[j] /\ n.mask[j] = t.mask[j]
<1>1. i \in Indices /\ t.live[i] # 0 /\ t \in Tables
  BY Parts DEF alive, TableInv
<1>2. /\ TableInv(n, f) /\ n.mask = [t.mask EXCEPT ![i] = m]
      /\ n.live = t.live /\ n.observing = t.observing /\ n.despawned = t.despawned
  BY <1>1, MaskKeeps
<1>3. n.mask[i] = m /\ \A j \in Indices : j # i => n.mask[j] = t.mask[j]
  BY <1>1, <1>2 DEF Tables
<1> QED BY <1>2, <1>3 DEF TableInv, alive

\* Giving a live entity a component.
LEMMA PutWorld ==
  ASSUME NEW w, NEW old \in Contents, WorldInv(w, old), NEW e \in Entities, alive(w.table, e),
         NEW c \in Components, NEW x \in Values, NEW z, z = put(w, e, c, x)
  PROVE  WorldInv(z, old) /\ z.fate = w.fate
<1>1. PICK t, S, h, i, f : t = w.table /\ S = w.stores /\ h = w.truth /\ i = index(e) /\ f = w.fate
  OBVIOUS
<1>2. /\ w \in Worlds /\ t \in Tables /\ TableInv(t, f) /\ S \in [Components -> Stores] /\ h \in Contents
      /\ \A a \in Components : StoreInv(S[a], t, valuesOf(h, a), valuesOf(old, a), a)
  BY <1>1, WorldParts
<1>3. alive(t, e) /\ i \in Indices
  BY <1>1, Parts
<1>4. PICK s, v, b : s = S[c] /\ v = valuesOf(h, c) /\ b = valuesOf(old, c)
  OBVIOUS
<1>5. StoreInv(s, t, v, b, c) /\ s \in Stores /\ v \in Valuations
  BY <1>2, <1>4, ValuesOf
<1>6. Alone(s, e) /\ (has(s, e) <=> v[e] # Unset)
  BY <1>3, <1>5, Owned
<1>7. PICK u, y, g : u = (IF has(s, e) THEN write(s, e, x) ELSE add(s, e, x)) /\ y = given(v, e, x)
                     /\ g = givenOne(h, e, c, x)
  OBVIOUS
<1>8. RowsInv(s, v, b) /\ MasksInv(t, v, c) /\ (s.observation = "observed" => t.observing)
  BY <1>5, StoreInvParts
<1>9. RowsInv(u, y, b) /\ sameKind(u, s) /\ \A r \in RowsOf(u) : r.owner = e \/ r \in RowsOf(s)
  BY <1>5, <1>6, <1>7, <1>8, PutKeeps
<1>10. /\ g \in Contents /\ valuesOf(g, c) = y
       /\ \A a \in Components : a # c => valuesOf(g, a) = valuesOf(h, a)
  BY <1>2, <1>4, <1>7, TruthGiven
<1>11. y[e] = x /\ \A d \in Entities : d # e => y[d] = v[d]
  BY <1>5, <1>7, Giving
<1>12. x # Unset
  BY StoreAssumption
<1>13. PICK n : n = masked(t, i, t.mask[i] \cup {c})
  OBVIOUS
<1>14. t.mask[i] \in SUBSET Components
  BY <1>2, <1>3 DEF Tables
<1>15. /\ TableInv(n, f) /\ n \in Tables /\ n.live = t.live /\ n.observing = t.observing
       /\ n.despawned = t.despawned /\ alive(n, e) /\ n.mask[i] = t.mask[i] \cup {c}
       /\ \A j \in Indices : j # i => n.live[j] = t.live[j] /\ n.mask[j] = t.mask[j]
  BY <1>1, <1>2, <1>3, <1>13, <1>14, Masked
<1>16. n = IF has(s, e) THEN t ELSE setComponent(t, e, c)
  <2>1. CASE has(s, e)
    <3>1. c \in t.mask[i]
      BY <1>1, <1>3, <1>6, <1>8, <2>1 DEF MasksInv
    <3>2. t.mask[i] \cup {c} = t.mask[i]
      BY <3>1
    <3>3. n = t
      BY <1>2, <1>13, <3>2 DEF masked, Tables
    <3> QED BY <2>1, <3>3
  <2>2. CASE ~has(s, e)
    BY <1>1, <1>13, <2>2 DEF masked, setComponent
  <2> QED BY <2>1, <2>2
<1>17. PICK U : U = [S EXCEPT ![c] = u]
  OBVIOUS
<1>18. U \in [Components -> Stores] /\ U[c] = u /\ \A a \in Components : a # c => U[a] = S[a]
  <2>1. u \in Stores
    BY <1>9 DEF RowsInv
  <2> QED BY <1>2, <1>17, <2>1
<1>19. z = made(w, n, U, f, g)
  <2>1. z = [w EXCEPT !.stores = U, !.table = n, !.truth = g]
    BY <1>1, <1>4, <1>7, <1>16, <1>17 DEF put, givenOne
  <2> QED BY <1>1, <1>2, <2>1 DEF Worlds, made
<1>20. StoreInv(u, n, y, b, c)
  <2>1. alive(n, e) /\ (c \in n.mask[index(e)] <=> y[e] # Unset)
    BY <1>1, <1>11, <1>12, <1>15
  <2>2. u.observation = "observed" => n.observing
    BY <1>8, <1>9, <1>15 DEF sameKind
  <2>3. /\ ToSet(t.despawned) \subseteq ToSet(n.despawned)
        /\ \A j \in Indices : j # index(e) => n.live[j] = t.live[j] /\ n.mask[j] = t.mask[j]
    BY <1>1, <1>15
  <2>4. n \in Tables /\ t \in Tables
    BY <1>2, <1>15
  <2> QED BY ONLY <1>3, <1>5, <1>9, <1>11, <2>1, <2>2, <2>3, <2>4, e \in Entities, StoreStep
<1>21. ASSUME NEW a \in Components, a # c
       PROVE  StoreInv(S[a], n, valuesOf(h, a), valuesOf(old, a), a)
  <2>1. PICK k, p, q : k = S[a] /\ p = valuesOf(h, a) /\ q = valuesOf(old, a)
    OBVIOUS
  <2>2. StoreInv(k, t, p, q, a)
    BY <1>2, <2>1
  <2>3. RowsInv(k, p, q) /\ MasksInv(t, p, a) /\ (k.observation = "observed" => t.observing)
    BY <2>2, StoreInvParts
  <2>4. alive(n, e) /\ (a \in n.mask[index(e)] <=> p[e] # Unset)
    BY <1>1, <1>3, <1>15, <1>21, <2>3 DEF MasksInv
  <2>5. k.observation = "observed" => n.observing
    BY <1>15, <2>3
  <2>6. /\ ToSet(t.despawned) \subseteq ToSet(n.despawned)
        /\ \A j \in Indices : j # index(e) => n.live[j] = t.live[j] /\ n.mask[j] = t.mask[j]
    BY <1>1, <1>15
  <2>7. n \in Tables /\ t \in Tables
    BY <1>2, <1>15
  <2>8. StoreInv(k, n, p, q, a)
    BY ONLY <1>3, <2>2, <2>3, <2>4, <2>5, <2>6, <2>7, e \in Entities, StoreStep
  <2> QED BY <2>1, <2>8
<1>22. \A a \in Components : StoreInv(U[a], n, valuesOf(g, a), valuesOf(old, a), a)
  BY <1>4, <1>10, <1>18, <1>20, <1>21
<1>based. Based(n, old)
  BY <1>1, <1>15, WorldParts DEF Based
<1>23. WorldInv(z, old) /\ z.fate = f
  BY <1>2, <1>10, <1>15, <1>18, <1>19, <1>22, <1>based, MadeWorld
<1> QED BY <1>1, <1>23

\* Taking a component of an entity away.
LEMMA RemoveWorld ==
  ASSUME NEW w, NEW old \in Contents, WorldInv(w, old), NEW e \in Entities,
         NEW c \in Components, has(w.stores[c], e), NEW z, z = removeRow(w, e, c)
  PROVE  WorldInv(z, old) /\ z.fate = w.fate
<1>1. PICK t, S, h, i, f : t = w.table /\ S = w.stores /\ h = w.truth /\ i = index(e) /\ f = w.fate
  OBVIOUS
<1>2. /\ w \in Worlds /\ t \in Tables /\ TableInv(t, f) /\ S \in [Components -> Stores] /\ h \in Contents
      /\ \A a \in Components : StoreInv(S[a], t, valuesOf(h, a), valuesOf(old, a), a)
  BY <1>1, WorldParts
<1>3. PICK s, v, b : s = S[c] /\ v = valuesOf(h, c) /\ b = valuesOf(old, c)
  OBVIOUS
<1>4. StoreInv(s, t, v, b, c) /\ s \in Stores /\ v \in Valuations /\ has(s, e)
  BY <1>1, <1>2, <1>3, ValuesOf
<1>5. alive(t, e) /\ i \in Indices
  BY <1>1, <1>4, Owned, Parts
<1>6. PICK u, y, g : u = remove(s, e) /\ y = given(v, e, Unset) /\ g = givenOne(h, e, c, Unset)
  OBVIOUS
<1>7. RowsInv(s, v, b) /\ MasksInv(t, v, c) /\ (s.observation = "observed" => t.observing)
  BY <1>4, StoreInvParts
<1>8. RowsInv(u, y, b) /\ sameKind(u, s) /\ \A r \in RowsOf(u) : r.owner = e \/ r \in RowsOf(s)
  BY <1>4, <1>6, <1>7, RemoveKeeps
<1>9. /\ g \in Contents /\ valuesOf(g, c) = y
      /\ \A a \in Components : a # c => valuesOf(g, a) = valuesOf(h, a)
  BY <1>2, <1>3, <1>6, TruthGiven
<1>10. y[e] = Unset /\ \A d \in Entities : d # e => y[d] = v[d]
  BY <1>4, <1>6, Giving
<1>11. PICK n : n = masked(t, i, t.mask[i] \ {c})
  OBVIOUS
<1>12. t.mask[i] \in SUBSET Components
  BY <1>2, <1>5 DEF Tables
<1>13. /\ TableInv(n, f) /\ n \in Tables /\ n.live = t.live /\ n.observing = t.observing
       /\ n.despawned = t.despawned /\ alive(n, e) /\ n.mask[i] = t.mask[i] \ {c}
       /\ \A j \in Indices : j # i => n.live[j] = t.live[j] /\ n.mask[j] = t.mask[j]
  BY <1>1, <1>2, <1>5, <1>11, <1>12, Masked
<1>14. n = unsetComponent(t, e, c)
  BY <1>1, <1>11 DEF masked, unsetComponent
<1>15. PICK U : U = [S EXCEPT ![c] = u]
  OBVIOUS
<1>16. U \in [Components -> Stores] /\ U[c] = u /\ \A a \in Components : a # c => U[a] = S[a]
  <2>1. u \in Stores
    BY <1>8 DEF RowsInv
  <2> QED BY <1>2, <1>15, <2>1
<1>17. z = made(w, n, U, f, g)
  <2>1. z = [w EXCEPT !.stores = U, !.table = n, !.truth = g]
    BY <1>1, <1>3, <1>6, <1>14, <1>15 DEF removeRow, givenOne
  <2> QED BY <1>1, <1>2, <2>1 DEF Worlds, made
<1>18. StoreInv(u, n, y, b, c)
  <2>1. alive(n, e) /\ (c \in n.mask[index(e)] <=> y[e] # Unset)
    BY <1>1, <1>10, <1>13
  <2>2. u.observation = "observed" => n.observing
    BY <1>7, <1>8, <1>13 DEF sameKind
  <2>3. /\ ToSet(t.despawned) \subseteq ToSet(n.despawned)
        /\ \A j \in Indices : j # index(e) => n.live[j] = t.live[j] /\ n.mask[j] = t.mask[j]
    BY <1>1, <1>13
  <2>4. n \in Tables /\ t \in Tables
    BY <1>2, <1>13
  <2> QED BY ONLY <1>4, <1>5, <1>8, <1>10, <2>1, <2>2, <2>3, <2>4, e \in Entities, StoreStep
<1>19. ASSUME NEW a \in Components, a # c
       PROVE  StoreInv(S[a], n, valuesOf(h, a), valuesOf(old, a), a)
  <2>1. PICK k, p, q : k = S[a] /\ p = valuesOf(h, a) /\ q = valuesOf(old, a)
    OBVIOUS
  <2>2. StoreInv(k, t, p, q, a)
    BY <1>2, <2>1
  <2>3. RowsInv(k, p, q) /\ MasksInv(t, p, a) /\ (k.observation = "observed" => t.observing)
    BY <2>2, StoreInvParts
  <2>4. alive(n, e) /\ (a \in n.mask[index(e)] <=> p[e] # Unset)
    BY <1>1, <1>5, <1>13, <1>19, <2>3 DEF MasksInv
  <2>5. k.observation = "observed" => n.observing
    BY <1>13, <2>3
  <2>6. /\ ToSet(t.despawned) \subseteq ToSet(n.despawned)
        /\ \A j \in Indices : j # index(e) => n.live[j] = t.live[j] /\ n.mask[j] = t.mask[j]
    BY <1>1, <1>13
  <2>7. n \in Tables /\ t \in Tables
    BY <1>2, <1>13
  <2>8. StoreInv(k, n, p, q, a)
    BY ONLY <1>5, <2>2, <2>3, <2>4, <2>5, <2>6, <2>7, e \in Entities, StoreStep
  <2> QED BY <2>1, <2>8
<1>20. \A a \in Components : StoreInv(U[a], n, valuesOf(g, a), valuesOf(old, a), a)
  BY <1>3, <1>9, <1>16, <1>18, <1>19
<1>based. Based(n, old)
  BY <1>1, <1>13, WorldParts DEF Based
<1>21. WorldInv(z, old) /\ z.fate = f
  BY <1>2, <1>9, <1>13, <1>16, <1>17, <1>20, <1>based, MadeWorld
<1> QED BY <1>1, <1>21

\* An entity is despawned.
LEMMA DespawnWorld ==
  ASSUME NEW w, NEW old \in Contents, WorldInv(w, old), NEW e \in Entities, alive(w.table, e),
         NEW z, z = despawnEntity(w, e)
  PROVE  WorldInv(z, old) /\ z.fate = [w.fate EXCEPT ![e] = "ended"]
<1>1. PICK t, S, h, i, f : t = w.table /\ S = w.stores /\ h = w.truth /\ i = index(e) /\ f = w.fate
  OBVIOUS
<1>2. /\ w \in Worlds /\ t \in Tables /\ TableInv(t, f) /\ S \in [Components -> Stores] /\ h \in Contents
      /\ \A a \in Components : StoreInv(S[a], t, valuesOf(h, a), valuesOf(old, a), a)
  BY <1>1, WorldParts
<1>3. alive(t, e) /\ i \in Indices /\ i = index(e)
  BY <1>1, Parts
<1>4. PICK n, k, g, U : /\ n = despawn(t, e) /\ k = [f EXCEPT ![e] = "ended"] /\ g = emptied(h, e)
                        /\ U = [c \in Components |-> IF c \in t.mask[i] THEN remove(S[c], e) ELSE S[c]]
  OBVIOUS
<1>5. /\ TableInv(n, k) /\ n.observing = t.observing
      /\ n.live = [t.live EXCEPT ![i] = 0] /\ n.mask = [t.mask EXCEPT ![i] = {}]
      /\ t.observing => ToSet(n.despawned) = ToSet(t.despawned) \cup {i}
      /\ ~t.observing => n.despawned = t.despawned
  <2>1. n = despawn(t, e) /\ k = [f EXCEPT ![e] = "ended"]
    BY <1>4
  <2>2. TableInv(t, f) /\ alive(t, e)
    BY <1>2, <1>3
  <2>3. TableInv(n, k) /\ emptiedSlot(n, t, index(e))
    BY ONLY <2>1, <2>2, e \in Entities, DespawnKeeps
  <2> QED BY <1>3, <2>3 DEF emptiedSlot
<1>6. /\ n \in Tables /\ n.live[i] = 0
      /\ \A j \in Indices : j # index(e) => n.live[j] = t.live[j] /\ n.mask[j] = t.mask[j]
  BY <1>2, <1>3, <1>5 DEF Tables, TableInv
<1>7. ToSet(t.despawned) \subseteq ToSet(n.despawned)
  BY <1>5
<1>8. g \in Contents /\ \A a \in Components : valuesOf(g, a) = given(valuesOf(h, a), e, Unset)
  BY <1>2, <1>4, TruthGone
<1>9. ASSUME NEW a \in Components
      PROVE  StoreInv(U[a], n, valuesOf(g, a), valuesOf(old, a), a) /\ U[a] \in Stores
  <2>1. PICK s, v, b, u, y : /\ s = S[a] /\ v = valuesOf(h, a) /\ b = valuesOf(old, a)
                             /\ u = U[a] /\ y = given(v, e, Unset)
    OBVIOUS
  <2>2. StoreInv(s, t, v, b, a) /\ v \in Valuations /\ valuesOf(g, a) = y
    BY <1>2, <1>8, <2>1, ValuesOf
  <2>3. RowsInv(s, v, b) /\ MasksInv(t, v, a) /\ (s.observation = "observed" => t.observing)
    BY <2>2, StoreInvParts
  <2>4. (has(s, e) <=> v[e] # Unset) /\ (a \in t.mask[i] <=> v[e] # Unset)
    BY <1>3, <2>2, <2>3, Owned DEF MasksInv
  <2>5. y[e] = Unset /\ \A d \in Entities : d # e => y[d] = v[d]
    BY <2>1, <2>2, Giving
  <2>6. /\ RowsInv(u, y, b) /\ u.observation = s.observation
        /\ \A r \in RowsOf(u) : r.owner = e \/ r \in RowsOf(s)
        /\ s.observation # "observed" => \A r \in RowsOf(u) : r.owner # e
    <3>1. CASE a \in t.mask[i]
      <4>1. u = remove(s, e) /\ has(s, e)
        BY <1>4, <2>1, <2>4, <3>1
      <4> QED BY <2>1, <2>2, <2>3, <4>1, RemoveKeeps DEF sameKind
    <3>2. CASE a \notin t.mask[i]
      <4>1. u = s
        BY <1>4, <2>1, <3>2
      <4>2. v[e] = Unset /\ ~has(s, e)
        BY <2>4, <3>2
      <4>3. y = v
        BY <2>1, <2>2, <4>2 DEF given, Valuations
      <4>4. s.observation # "observed" => \A r \in RowsOf(s) : r.owner # e
        <5>1. Shape(s) /\ (s.observation # "observed" => TailRows(s) = {})
          BY <2>3, RowsParts
        <5>2. \A r \in LiveRows(s) : r.owner # e
          BY <4>2, <5>1, Finds
        <5> QED BY <5>1, <5>2 DEF RowsOf
      <4> QED BY <2>3, <4>1, <4>3, <4>4
    <3> QED BY <3>1, <3>2
  <2>7. /\ n.live[index(e)] = 0 /\ y[e] = Unset
        /\ index(e) \in ToSet(n.despawned) \/ \A r \in RowsOf(u) : r.owner # e
    BY <1>3, <1>5, <1>6, <2>3, <2>5, <2>6
  <2>8. u.observation = "observed" => n.observing
    BY <1>5, <2>3, <2>6
  <2>9. RowsInv(u, y, b) /\ \A r \in RowsOf(u) : r.owner = e \/ r \in RowsOf(s)
    BY <2>6
  <2>10. n \in Tables /\ t \in Tables
    BY <1>2, <1>6
  <2>11. \A j \in Indices : j # index(e) => n.live[j] = t.live[j] /\ n.mask[j] = t.mask[j]
    BY <1>6
  <2>12. StoreInv(u, n, y, b, a)
    BY ONLY <1>3, <1>7, <2>2, <2>5, <2>7, <2>8, <2>9, <2>10, <2>11, e \in Entities, StoreStep
  <2>13. u \in Stores
    BY <2>9 DEF RowsInv
  <2> QED BY <2>1, <2>2, <2>12, <2>13
<1>10. U \in [Components -> Stores]
  BY <1>4, <1>9
<1>11. z = made(w, n, U, k, g)
  <2>1. z = [w EXCEPT !.table = n, !.stores = U, !.truth = g, !.fate = k]
    BY <1>1, <1>4 DEF despawnEntity, emptied
  <2> QED BY <2>1 DEF made
<1>12. \A a \in Components : StoreInv(U[a], n, valuesOf(g, a), valuesOf(old, a), a)
  BY <1>9
<1>based. Based(n, old)
  BY <1>1, <1>5, WorldParts DEF Based
<1>13. WorldInv(z, old) /\ z.fate = k
  BY <1>2, <1>5, <1>8, <1>10, <1>11, <1>12, <1>based, MadeWorld
<1> QED BY <1>1, <1>4, <1>13

retabled(w, n, f) == [w EXCEPT !.table = n, !.fate = f]

\* A change of the table alone.
LEMMA TableWorld ==
  ASSUME NEW w, NEW old, WorldInv(w, old), NEW n, NEW f, TableInv(n, f), Based(n, old),
         \A c \in Components : StoreInv(w.stores[c], n, valuesOf(w.truth, c), valuesOf(old, c), c),
         NEW z, z = retabled(w, n, f)
  PROVE  WorldInv(z, old) /\ z.fate = f
<1>1. w \in Worlds /\ w.stores \in [Components -> Stores] /\ w.truth \in Contents
  BY WorldParts
<1>2. PICK S, h : S = w.stores /\ h = w.truth
  OBVIOUS
<1>3. z = made(w, n, S, f, h)
  BY <1>1, <1>2 DEF made, retabled, Worlds
<1> QED BY <1>1, <1>2, <1>3, MadeWorld

\* An entity comes alive, one that waits or one outside of the range.
LEMMA BornWorld ==
  ASSUME NEW w, NEW old, WorldInv(w, old), NEW e \in Entities, w.table.live[index(e)] = 0,
         index(e) \notin ToSet(w.table.despawned), index(e) \in InRange => waits(w.fate, e),
         NEW z, z = retabled(w, setAlive(w.table, e), [w.fate EXCEPT ![e] = "alive"])
  PROVE  WorldInv(z, old) /\ z.fate = [w.fate EXCEPT ![e] = "alive"]
<1>1. PICK t, f, n, k : t = w.table /\ f = w.fate /\ n = setAlive(t, e) /\ k = [f EXCEPT ![e] = "alive"]
  OBVIOUS
<1>2. /\ t \in Tables /\ TableInv(t, f) /\ SlotsInv(t)
      /\ \A c \in Components : StoreInv(w.stores[c], t, valuesOf(w.truth, c), valuesOf(old, c), c)
  BY <1>1, WorldParts
<1>3. t.live[index(e)] = 0 /\ index(e) \notin ToSet(t.despawned) /\ (index(e) \in InRange => waits(f, e))
  BY <1>1
<1>4. /\ TableInv(n, k) /\ n.live = [t.live EXCEPT ![index(e)] = generation(e)]
      /\ n.mask = t.mask /\ n.observing = t.observing /\ n.despawned = t.despawned
  BY <1>1, <1>2, <1>3, AliveKeeps
<1>5. t.mask[index(e)] = {}
  BY <1>2, <1>3, Parts DEF SlotsInv
<1>6. ASSUME NEW c \in Components
      PROVE  StoreInv(w.stores[c], n, valuesOf(w.truth, c), valuesOf(old, c), c)
  <2>1. PICK s, v, b : s = w.stores[c] /\ v = valuesOf(w.truth, c) /\ b = valuesOf(old, c)
    OBVIOUS
  <2>2. StoreInv(s, t, v, b, c) /\ t \in Tables
    BY <1>2, <2>1
  <2>3. StoreInv(s, n, v, b, c)
    BY ONLY <1>3, <1>4, <1>5, <2>2, e \in Entities, StoreBorn
  <2> QED BY <2>1, <2>3
<1>7. z = retabled(w, n, k)
  BY <1>1
<1>based. Based(n, old)
  BY <1>1, <1>4, WorldParts DEF Based
<1> QED BY <1>1, <1>4, <1>6, <1>7, <1>based, TableWorld

\* A change of the table that leaves its slots.
LEMMA CountWorld ==
  ASSUME NEW w, NEW old, WorldInv(w, old), NEW n, NEW f, TableInv(n, f), sameSlots(n, w.table),
         NEW z, z = retabled(w, n, f)
  PROVE  WorldInv(z, old) /\ z.fate = f
<1>1. PICK t : t = w.table
  OBVIOUS
<1>2. \A c \in Components : StoreInv(w.stores[c], t, valuesOf(w.truth, c), valuesOf(old, c), c)
  BY <1>1, WorldParts
<1>3. n.live = t.live /\ n.mask = t.mask /\ n.observing = t.observing /\ n.despawned = t.despawned
  BY <1>1 DEF sameSlots
<1>4. ASSUME NEW c \in Components
      PROVE  StoreInv(w.stores[c], n, valuesOf(w.truth, c), valuesOf(old, c), c)
  <2>1. PICK s, v, b : s = w.stores[c] /\ v = valuesOf(w.truth, c) /\ b = valuesOf(old, c)
    OBVIOUS
  <2>2. StoreInv(s, t, v, b, c)
    BY <1>2, <2>1
  <2>3. StoreInv(s, n, v, b, c)
    BY ONLY <1>3, <2>2, StoreSame
  <2> QED BY <2>1, <2>3
<1>based. Based(n, old)
  BY <1>1, <1>3, WorldParts DEF Based
<1> QED BY <1>4, <1>based, TableWorld

-----------------------------------------------------------------------------
(* The commit of the command buffer *)

\* The sequences of q put together one by one, the first k of them.
Joins(f, q, k) ==
  f = [i \in 1..k |-> IF i = 1 THEN q[i] ELSE f[i - 1] \o q[i]]

\* That can be done.
LEMMA JoinsExist ==
  ASSUME NEW q, NEW N \in Nat
  PROVE  \E f : Joins(f, q, N)
<1>1. PICK S : S = {k \in 0..N : \E f : Joins(f, q, k)}
  OBVIOUS
<1>2. 0 \in S
  <2>1. Joins([i \in 1..0 |-> q], q, 0)
    BY DEF Joins
  <2> QED BY <1>1, <2>1
<1>3. ASSUME NEW k \in 1..N, k - 1 \in S PROVE k \in S
  <2>1. PICK f : Joins(f, q, k - 1)
    BY <1>1, <1>3
  <2>2. PICK g : g = [i \in 1..k |-> IF i = 1 THEN q[i] ELSE f[i - 1] \o q[i]]
    OBVIOUS
  <2>0. \A i \in 1..k - 1 : i \in 1..k
    OBVIOUS
  <2>3. \A i \in 1..k - 1 : g[i] = f[i]
    <3>1. \A i \in 1..k - 1 : f[i] = IF i = 1 THEN q[i] ELSE f[i - 1] \o q[i]
      BY <2>1 DEF Joins
    <3>2. \A i \in 1..k : g[i] = IF i = 1 THEN q[i] ELSE f[i - 1] \o q[i]
      BY <2>2
    <3> QED BY <2>0, <3>1, <3>2
  <2>4. \A i \in 1..k : i # 1 => i - 1 \in 1..k - 1
    OBVIOUS
  <2>5. ASSUME NEW i \in 1..k PROVE g[i] = IF i = 1 THEN q[i] ELSE g[i - 1] \o q[i]
    <3>1. CASE i = 1
      BY <2>2, <3>1
    <3>2. CASE i # 1
      <4>1. g[i] = f[i - 1] \o q[i]
        BY <2>2, <3>2
      <4>2. g[i - 1] = f[i - 1]
        BY <2>3, <2>4, <3>2
      <4> QED BY <3>2, <4>1, <4>2
    <3> QED BY <3>1, <3>2
  <2>6. PICK h : h = [i \in 1..k |-> IF i = 1 THEN q[i] ELSE g[i - 1] \o q[i]]
    OBVIOUS
  <2>7. Joins(g, q, k)
    <3>1. \A i \in 1..k : g[i] = h[i]
      BY <2>5, <2>6
    <3>2. g = h
      BY ONLY <2>2, <2>6, <3>1
    <3> QED BY <2>6, <3>2 DEF Joins
  <2>8. k \in 0..N
    OBVIOUS
  <2> QED BY <1>1, <2>7, <2>8
<1>4. \A n \in 0..N : n \in S
  BY <1>2, <1>3, UpTo
<1>5. N \in 0..N
  OBVIOUS
<1> QED BY <1>1, <1>4, <1>5

\* Sequences over X put together are one over X.
LEMMA Flattened ==
  ASSUME NEW X, NEW q \in Seq(Seq(X))
  PROVE  FlattenSeq(q) \in Seq(X)
<1>0. PICK N : N = Len(q)
  OBVIOUS
<1>1. N \in Nat /\ DOMAIN q = 1..N /\ \A n \in 1..N : q[n] \in Seq(X)
  BY <1>0, LenProperties, ElementOfSeq
<1>2. CASE N = 0
  BY <1>0, <1>2, EmptySeq DEF FlattenSeq
<1>3. CASE N # 0
  <2> DEFINE flatten[i \in 1..Len(q)] == IF i = 1 THEN q[i] ELSE flatten[i-1] \o q[i]
  <2>1. FlattenSeq(q) = flatten[Len(q)]
    BY <1>0, <1>3 DEF FlattenSeq
  <2>2. flatten = CHOOSE f : f = [i \in 1..Len(q) |-> IF i = 1 THEN q[i] ELSE f[i-1] \o q[i]]
    OBVIOUS
  <2> HIDE DEF flatten
  <2>3. \E f : f = [i \in 1..Len(q) |-> IF i = 1 THEN q[i] ELSE f[i-1] \o q[i]]
    BY <1>0, <1>1, JoinsExist DEF Joins
  <2>4. flatten = [i \in 1..Len(q) |-> IF i = 1 THEN q[i] ELSE flatten[i-1] \o q[i]]
    BY <2>2, <2>3
  <2>5. \A i \in 1..N : flatten[i] = IF i = 1 THEN q[i] ELSE flatten[i-1] \o q[i]
    BY <1>0, <2>4
  <2>6. PICK S : S = {k \in 0..N : k = 0 \/ flatten[k] \in Seq(X)}
    OBVIOUS
  <2>7. ASSUME NEW k \in 1..N, k - 1 \in S PROVE k \in S
    <3>1. CASE k = 1
      BY <1>1, <2>5, <2>6, <3>1
    <3>2. CASE k # 1
      <4>1. flatten[k - 1] \in Seq(X) /\ q[k] \in Seq(X)
        BY <1>1, <2>6, <2>7, <3>2
      <4>2. flatten[k] = flatten[k - 1] \o q[k]
        BY <2>5, <3>2
      <4>3. flatten[k] \in Seq(X)
        BY <4>1, <4>2, ConcatProperties
      <4> QED BY <2>6, <4>3
    <3> QED BY <3>1, <3>2
  <2>8. 0 \in S
    BY <1>1, <2>6
  <2>9. \A n \in 0..N : n \in S
    BY <1>1, <2>7, <2>8, UpTo
  <2> QED BY <1>0, <1>1, <1>3, <2>1, <2>6, <2>9
<1> QED BY <1>2, <1>3
\* What a record says.
LEMMA RecordParts ==
  ASSUME NEW r \in Records
  PROVE  /\ r.entity \in Entities
         /\ r.op \in {"Add", "Set"} => r.component \in Components /\ r.value \in Values
         /\ r.op = "Remove" => r.component \in Components
         /\ r.op \in {"Add", "Set", "Remove", "Spawn", "Despawn"}
<1>1. CASE r \in {record(op, e, c, v) : op \in {"Add", "Set"}, e \in Entities, c \in Components, v \in Values}
  BY <1>1 DEF record
<1>2. CASE r \in {record("Remove", e, c, Unset) : e \in Entities, c \in Components}
  BY <1>2 DEF record
<1>3. CASE r \in {record(op, e, c, Unset) : op \in {"Spawn", "Despawn"}, e \in Entities,
                                  c \in {CHOOSE c \in Components : TRUE}}
  BY <1>3 DEF record
<1> QED BY <1>1, <1>2, <1>3 DEF Records

\* A world in which the entities of K were handed out.
Keeping(w, old, K) == WorldInv(w, old) /\ \A e \in K : w.fate[e] # "none"

\* The first pass: what its condition accepts has waited.
LEMMA SpawnVisited ==
  ASSUME NEW w, NEW old, NEW K \in SUBSET Entities, Keeping(w, old, K), NEW r \in Records,
         r.op = "Spawn" => index(r.entity) \in InRange /\ r.entity \in K,
         NEW z, z = applySpawn(w, r)
  PROVE  Keeping(z, old, K)
<1>1. CASE r.op = "Spawn" /\ reserved(w.table, r.entity)
  <2>1. PICK e, t, f : e = r.entity /\ t = w.table /\ f = w.fate
    OBVIOUS
  <2>2. e \in Entities /\ index(e) \in InRange /\ e \in K
    BY <1>1, <2>1, RecordParts
  <2>3. t \in Tables /\ TableInv(t, f) /\ f \in [Entities -> Fates] /\ WorldInv(w, old) /\ w \in Worlds
    BY <2>1, WorldParts DEF Keeping
  <2>4. t.live[index(e)] = 0 /\ generation(e) = t.last[index(e)] + 1
    BY <1>1, <2>1 DEF reserved, nextGeneration
  <2>5. f[e] \in {"early", "waiting"}
    <3>1. FatesInv(t, f)
      BY <2>3 DEF TableInv
    <3>2. f[e] # "alive"
      BY <2>2, <2>4, <3>1, Parts DEF FatesInv
    <3>3. t.last[index(e)] \in Nat
      BY <2>2, <2>3, Parts DEF Tables
    <3>4. ~(generation(e) <= t.last[index(e)])
      BY <2>4, <3>3
    <3>5. f[e] \notin {"ended", "burned"}
      BY <2>2, <3>1, <3>4 DEF FatesInv
    <3>6. f[e] # "none"
      BY <2>1, <2>2 DEF Keeping
    <3> QED BY <2>2, <2>3, <3>2, <3>5, <3>6 DEF Fates
  <2>6. waits(f, e) /\ index(e) \notin ToSet(t.despawned)
    BY <2>2, <2>3, <2>5 DEF TableInv, FatesInv, waits
  <2>7. z = retabled(w, setAlive(w.table, e), [w.fate EXCEPT ![e] = "alive"])
    <3>1. z = [w EXCEPT !.table = setAlive(w.table, e), !.fate = [w.fate EXCEPT ![e] = "alive"]]
      BY <1>1, <2>1, <2>3 DEF applySpawn, spawned, spawnReserved, Worlds
    <3> QED BY <3>1 DEF retabled
  <2>8. WorldInv(z, old) /\ z.fate = [w.fate EXCEPT ![e] = "alive"]
    BY <2>1, <2>2, <2>3, <2>4, <2>6, <2>7, BornWorld
  <2> QED BY <2>1, <2>3, <2>8 DEF Keeping
<1>2. CASE ~(r.op = "Spawn" /\ reserved(w.table, r.entity))
  BY <1>2 DEF applySpawn
<1> QED BY <1>1, <1>2

\* The second.
LEMMA DespawnVisited ==
  ASSUME NEW w, NEW old \in Contents, NEW K \in SUBSET Entities, Keeping(w, old, K), NEW r \in Records,
         NEW z, z = applyDespawn(w, r)
  PROVE  Keeping(z, old, K)
<1>1. CASE r.op = "Despawn" /\ alive(w.table, r.entity)
  <2>1. PICK e : e = r.entity
    OBVIOUS
  <2>2. e \in Entities /\ alive(w.table, e) /\ WorldInv(w, old) /\ z = despawnEntity(w, e)
    BY <1>1, <2>1, RecordParts DEF applyDespawn, Keeping
  <2>3. WorldInv(z, old) /\ z.fate = [w.fate EXCEPT ![e] = "ended"]
    BY <2>2, DespawnWorld
  <2>4. w.fate \in [Entities -> Fates]
    BY <2>2, WorldParts
  <2> QED BY <2>2, <2>3, <2>4 DEF Keeping
<1>2. CASE ~(r.op = "Despawn" /\ alive(w.table, r.entity))
  BY <1>2 DEF applyDespawn
<1> QED BY <1>1, <1>2

\* The third.
LEMMA WriteVisited ==
  ASSUME NEW w, NEW old \in Contents, NEW K \in SUBSET Entities, Keeping(w, old, K), NEW r \in Records,
         NEW z, z = apply(w, r)
  PROVE  Keeping(z, old, K)
<1>1. PICK e, c, x : e = r.entity /\ c = r.component /\ x = r.value
  OBVIOUS
<1>2. e \in Entities /\ WorldInv(w, old)
  BY <1>1, RecordParts DEF Keeping
<1>3. \/ r.op \in {"Add", "Set"} /\ alive(w.table, e) /\ z = put(w, e, c, x)
      \/ r.op = "Remove" /\ alive(w.table, e) /\ has(w.stores[c], e) /\ z = removeRow(w, e, c)
      \/ z = w
  BY <1>1 DEF apply
<1>4. CASE r.op \in {"Add", "Set"} /\ alive(w.table, e) /\ z = put(w, e, c, x)
  <2>1. c \in Components /\ x \in Values
    BY <1>1, <1>4, RecordParts
  <2>2. WorldInv(z, old) /\ z.fate = w.fate
    BY <1>2, <1>4, <2>1, PutWorld
  <2> QED BY <2>2 DEF Keeping
<1>5. CASE r.op = "Remove" /\ alive(w.table, e) /\ has(w.stores[c], e) /\ z = removeRow(w, e, c)
  <2>1. c \in Components
    BY <1>1, <1>5, RecordParts
  <2>2. WorldInv(z, old) /\ z.fate = w.fate
    BY <1>2, <1>5, <2>1, RemoveWorld
  <2> QED BY <2>2 DEF Keeping
<1> QED BY <1>3, <1>4, <1>5

\* The records of entities in K, and the visits a commit makes of them.
recordsOf(K) == {r \in Records : r.op = "Spawn" => index(r.entity) \in InRange /\ r.entity \in K}
visitsOf(K) == [pass : {"spawns", "despawns", "writes"}, record : recordsOf(K)]
keepingAll(old, K) == {w \in Worlds : Keeping(w, old, K)}

\* The sequence of visits of the three passes.
LEMMA PassesTypes ==
  ASSUME NEW K, NEW q \in Seq(recordsOf(K))
  PROVE  passes(q) \in Seq(visitsOf(K))
<1>1. Len(q) \in Nat /\ DOMAIN q = 1..Len(q) /\ \A n \in 1..Len(q) : q[n] \in recordsOf(K)
  BY LenProperties, ElementOfSeq
<1>2. ASSUME NEW name \in {"spawns", "despawns", "writes"} PROVE pass(name, q) \in Seq(visitsOf(K))
  <2>1. \A n \in 1..Len(q) : [pass |-> name, record |-> q[n]] \in visitsOf(K)
    BY <1>1 DEF visitsOf
  <2>2. pass(name, q) = [n \in 1..Len(q) |-> [pass |-> name, record |-> q[n]]]
    BY <1>1 DEF pass
  <2>3. pass(name, q) \in [1..Len(q) -> visitsOf(K)]
    BY <2>1, <2>2
  <2> QED BY <1>1, <2>3, SeqDef
<1>3. PICK a, b, c : a = pass("spawns", q) /\ b = pass("despawns", q) /\ c = pass("writes", q)
  OBVIOUS
<1>4. a \in Seq(visitsOf(K)) /\ b \in Seq(visitsOf(K)) /\ c \in Seq(visitsOf(K))
  BY <1>2, <1>3
<1>5. a \o b \in Seq(visitsOf(K))
  BY <1>4, ConcatProperties
<1>6. (a \o b) \o c \in Seq(visitsOf(K))
  BY <1>4, <1>5, ConcatProperties
<1> QED BY <1>3, <1>6 DEF passes

\* A visit keeps the world.
LEMMA VisitKeeps ==
  ASSUME NEW old \in Contents, NEW K \in SUBSET Entities
  PROVE  VisitStays(keepingAll(old, K), visitsOf(K))
<1>1. ASSUME NEW w \in keepingAll(old, K), NEW x \in visitsOf(K) PROVE visit(w, x) \in keepingAll(old, K)
  <2>1. PICK r, z : r = x.record /\ z = visit(w, x)
    OBVIOUS
  <2>2. Keeping(w, old, K)
    BY DEF keepingAll
  <2>3. r \in Records /\ (r.op = "Spawn" => index(r.entity) \in InRange /\ r.entity \in K)
    BY <2>1 DEF visitsOf, recordsOf
  <2>4. z = applySpawn(w, r) \/ z = applyDespawn(w, r) \/ z = apply(w, r)
    BY <2>1 DEF visit
  <2>5. Keeping(z, old, K)
    <3>1. CASE z = applySpawn(w, r)
      BY <2>2, <2>3, <3>1, SpawnVisited
    <3>2. CASE z = applyDespawn(w, r)
      BY <2>2, <2>3, <3>2, DespawnVisited
    <3>3. CASE z = apply(w, r)
      BY <2>2, <2>3, <3>3, WriteVisited
    <3> QED BY <2>4, <3>1, <3>2, <3>3
  <2>6. z \in Worlds
    BY <2>5 DEF Keeping, WorldInv
  <2> QED BY <2>1, <2>5, <2>6 DEF keepingAll
<1> QED BY <1>1 DEF VisitStays

\* So does the commit.
LEMMA CommitKeeps ==
  ASSUME NEW w, NEW old \in Contents, NEW K \in SUBSET Entities, Keeping(w, old, K),
         NEW q \in Seq(recordsOf(K)), NEW z, z = visitAll(w, passes(q))
  PROVE  Keeping(z, old, K)
<1>1. PICK p : p = passes(q)
  OBVIOUS
<1>2. p \in Seq(visitsOf(K)) /\ VisitStays(keepingAll(old, K), visitsOf(K))
  BY <1>1, PassesTypes, VisitKeeps
<1>3. w \in keepingAll(old, K)
  BY DEF keepingAll, Keeping, WorldInv
<1>4. PICK f : VisitPath(f, keepingAll(old, K), w, p)
  BY <1>2, <1>3, VisitFolded
<1>5. Len(p) \in Nat
  BY <1>2, LenProperties
<1>6. visitAll(w, p) \in keepingAll(old, K)
  BY <1>4, <1>5 DEF VisitPath
<1> QED BY <1>1, <1>6 DEF keepingAll

-----------------------------------------------------------------------------
(* The actions *)

\* The records of the lanes are of entities that were handed out.
LanesInv(q, fates) ==
  q \in [Lanes -> Seq(Records)] /\ \A l \in Lanes : \A r \in ToSet(q[l]) : Spawnable(r, fates)
knownTo(fates) == {e \in Entities : fates[e] # "none"}

\* An entity once handed out stays known.
LEMMA LanesKeep ==
  ASSUME NEW q, NEW f, LanesInv(q, f), NEW g, knownTo(f) \subseteq knownTo(g)
  PROVE  LanesInv(q, g)
<1>1. ASSUME NEW l \in Lanes, NEW r \in ToSet(q[l]), r.op = "Spawn"
      PROVE  index(r.entity) \in InRange /\ g[r.entity] # "none"
  <2>1. index(r.entity) \in InRange /\ f[r.entity] # "none"
    BY <1>1 DEF LanesInv, Spawnable
  <2>2. q[l] \in Seq(Records)
    BY DEF LanesInv
  <2>3. r \in Records
    BY <2>2, ElementOfSeq, LenProperties DEF ToSet
  <2>4. r.entity \in Entities
    BY <2>3, RecordParts
  <2> QED BY <2>1, <2>4 DEF knownTo
<1> QED BY <1>1 DEF LanesInv, Spawnable

\* The fields of the state.
LEMMA StateIs ==
  /\ state.table = table /\ state.stores = stores /\ state.fate = fate /\ state.truth = truth
  /\ \A z \in Worlds : becomes(z) => state' = z
<1>1. state.table = table /\ state.stores = stores /\ state.fate = fate /\ state.truth = truth
  BY DEF state
<1>2. ASSUME NEW z \in Worlds, becomes(z) PROVE state' = z
  <2>1. z = [table |-> z.table, stores |-> z.stores, fate |-> z.fate, truth |-> z.truth]
    BY DEF Worlds
  <2> QED BY <1>2, <2>1 DEF becomes, state
<1> QED BY <1>1, <1>2

\* A step to another world.
LEMMA WorldStep ==
  ASSUME IInv, NEW z, WorldInv(z, base), becomes(z), knownTo(fate) \subseteq knownTo(z.fate),
         UNCHANGED <<workload, lanes, base>>
  PROVE  IInv'
<1>1. z \in Worlds
  BY DEF WorldInv
<1>2. state' = z /\ fate' = z.fate
  BY <1>1, StateIs DEF becomes
<1>3. LanesInv(lanes, fate)
  BY DEF IInv, LanesInv
<1>4. LanesInv(lanes, z.fate)
  BY <1>3, LanesKeep
<1>5. LanesInv(lanes', fate')
  BY <1>2, <1>4
<1>6. lanes' \in [Lanes -> Seq(Records)] /\ \A l \in Lanes : \A r \in ToSet(lanes'[l]) : Spawnable(r, fate')
  BY <1>5 DEF LanesInv
<1>7. WorldInv(state', base') /\ base' \in Contents /\ workload' \in Workloads
  BY <1>2 DEF IInv
<1> QED BY <1>6, <1>7 DEF IInv

\* The parts of the invariant.
LEMMA IInvParts ==
  ASSUME IInv
  PROVE  /\ base \in Contents /\ WorldInv(state, base) /\ LanesInv(lanes, fate) /\ workload \in Workloads
         /\ table \in Tables /\ TableInv(table, fate) /\ fate \in [Entities -> Fates]
         /\ stores \in [Components -> Stores] /\ truth \in Contents /\ Based(table, base)
         /\ \A c \in Components : StoreInv(stores[c], table, valuesOf(truth, c), valuesOf(base, c), c)
<1>1. base \in Contents /\ WorldInv(state, base) /\ LanesInv(lanes, fate) /\ workload \in Workloads
  BY DEF IInv, LanesInv
<1>2. state.table = table /\ state.stores = stores /\ state.fate = fate /\ state.truth = truth
  BY StateIs
<1> QED BY <1>1, <1>2, WorldParts

\* A fate given leaves the entities that were handed out known.
LEMMA FateGiven ==
  ASSUME NEW f \in [Entities -> Fates], NEW e, NEW x, x # "none", NEW g, g = [f EXCEPT ![e] = x]
  PROVE  knownTo(f) \subseteq knownTo(g)
BY DEF knownTo

\* CreateAt.
LEMMA CreateKeeps ==
  ASSUME IInv, NEW e \in Entities, CreateAt(e)
  PROVE  IInv'
<1>1. PICK z : z = retabled(state, setAlive(table, e), [fate EXCEPT ![e] = "alive"])
  OBVIOUS
<1>2. WorldInv(state, base) /\ TableInv(table, fate) /\ fate \in [Entities -> Fates] /\ table \in Tables
  BY IInvParts
<1>3. state.table = table /\ state.stores = stores /\ state.fate = fate /\ state.truth = truth
  BY StateIs
<1>4. index(e) \notin InRange /\ table.live[index(e)] = 0 /\ index(e) \notin table.outside
  BY DEF CreateAt, placeable
<1>5. index(e) \notin ToSet(table.despawned)
  BY <1>2, <1>4 DEF TableInv, SlotsInv
<1>6. WorldInv(z, base) /\ z.fate = [fate EXCEPT ![e] = "alive"]
  BY <1>1, <1>2, <1>3, <1>4, <1>5, BornWorld
<1>7. becomes(z)
  BY <1>1, <1>2, <1>3 DEF becomes, CreateAt, retabled, WorldInv, Worlds
<1>8. knownTo(fate) \subseteq knownTo(z.fate)
  BY <1>2, <1>6, FateGiven
<1> QED BY <1>6, <1>7, <1>8, WorldStep DEF CreateAt

\* Despawn.
LEMMA DespawnSteps ==
  ASSUME IInv, NEW e \in Entities, Despawn(e)
  PROVE  IInv'
<1>1. PICK z : z = despawnEntity(state, e)
  OBVIOUS
<1>2. WorldInv(state, base) /\ fate \in [Entities -> Fates] /\ base \in Contents
  BY IInvParts
<1>3. state.table = table /\ state.fate = fate
  BY StateIs
<1>4. alive(state.table, e)
  BY <1>3 DEF Despawn
<1>5. WorldInv(z, base) /\ z.fate = [state.fate EXCEPT ![e] = "ended"]
  BY <1>1, <1>2, <1>4, DespawnWorld
<1>6. knownTo(fate) \subseteq knownTo(z.fate)
  BY <1>2, <1>3, <1>5, FateGiven
<1> QED BY <1>1, <1>5, <1>6, WorldStep DEF Despawn

\* Add.
LEMMA AddSteps ==
  ASSUME IInv, NEW e \in Entities, NEW c \in Components, NEW v \in Values, Add(e, c, v)
  PROVE  IInv'
<1>1. PICK z : z = put(state, e, c, v)
  OBVIOUS
<1>2. WorldInv(state, base) /\ base \in Contents
  BY IInvParts
<1>3. state.table = table /\ state.fate = fate
  BY StateIs
<1>4. alive(state.table, e)
  BY <1>3 DEF Add
<1>5. WorldInv(z, base) /\ z.fate = state.fate
  BY <1>1, <1>2, <1>4, PutWorld
<1>6. knownTo(fate) \subseteq knownTo(z.fate)
  BY <1>3, <1>5
<1> QED BY <1>1, <1>5, <1>6, WorldStep DEF Add

\* Remove.
LEMMA RemoveSteps ==
  ASSUME IInv, NEW e \in Entities, NEW c \in Components, RemoveComponent(e, c)
  PROVE  IInv'
<1>1. PICK z : z = removeRow(state, e, c)
  OBVIOUS
<1>2. WorldInv(state, base) /\ base \in Contents
  BY IInvParts
<1>3. state.stores = stores /\ state.fate = fate
  BY StateIs
<1>4. has(state.stores[c], e)
  BY <1>3 DEF RemoveComponent
<1>5. WorldInv(z, base) /\ z.fate = state.fate
  BY <1>1, <1>2, <1>4, RemoveWorld
<1>6. knownTo(fate) \subseteq knownTo(z.fate)
  BY <1>3, <1>5
<1> QED BY <1>1, <1>5, <1>6, WorldStep DEF RemoveComponent

\* A step that leaves another world of which something is recorded.
LEMMA WholeStep ==
  ASSUME IInv, NEW z, NEW b \in Contents, WorldInv(z, b), becomes(z), base' = b, LanesInv(lanes', z.fate),
         workload' = workload
  PROVE  IInv'
<1>1. z \in Worlds
  BY DEF WorldInv
<1>2. state' = z /\ fate' = z.fate
  BY <1>1, StateIs DEF becomes
<1>3. LanesInv(lanes', fate')
  BY <1>2
<1>4. lanes' \in [Lanes -> Seq(Records)] /\ \A l \in Lanes : \A r \in ToSet(lanes'[l]) : Spawnable(r, fate')
  BY <1>3 DEF LanesInv
<1>5. WorldInv(state', base') /\ base' \in Contents /\ workload' \in Workloads
  BY <1>2 DEF IInv
<1> QED BY <1>4, <1>5 DEF IInv

\* Record.
LEMMA RecordSteps ==
  ASSUME IInv, NEW l \in Lanes, NEW r \in Records, Record(l, r)
  PROVE  IInv'
<1>1. LanesInv(lanes, fate) /\ base \in Contents /\ WorldInv(state, base)
  BY IInvParts
<1>2. PICK q : q = lanes[l]
  OBVIOUS
<1>3. lanes \in [Lanes -> Seq(Records)] /\ q \in Seq(Records)
  BY <1>1, <1>2 DEF LanesInv
<1>4. PICK p : p = Append(q, r)
  OBVIOUS
<1>5. p \in Seq(Records) /\ ToSet(p) = ToSet(q) \cup {r}
  BY <1>3, <1>4, AppendProperties, OneMore
<1>6. lanes' = [lanes EXCEPT ![l] = p]
  BY <1>2, <1>4 DEF Record
<1>7. Spawnable(r, fate)
  BY DEF Record, known, Spawnable
<1>8. lanes' \in [Lanes -> Seq(Records)]
  BY <1>3, <1>5, <1>6
<1>9. ASSUME NEW k \in Lanes, NEW x \in ToSet(lanes'[k]) PROVE Spawnable(x, fate)
  <2>1. CASE k = l
    <3>1. x \in ToSet(q) \/ x = r
      BY <1>3, <1>5, <1>6, <1>9, <2>1
    <3> QED BY <1>1, <1>2, <1>7, <3>1 DEF LanesInv
  <2>2. CASE k # l
    <3>1. lanes'[k] = lanes[k]
      BY <1>3, <1>6, <2>2
    <3> QED BY <1>1, <1>9, <3>1 DEF LanesInv
  <2> QED BY <2>1, <2>2
<1>10. LanesInv(lanes', fate)
  BY <1>8, <1>9 DEF LanesInv
<1>11. becomes(state) /\ state.fate = fate
  BY StateIs DEF becomes, Record, world, history
<1> QED BY <1>1, <1>10, <1>11, WholeStep DEF Record, history

\* Commit.
LEMMA CommitSteps ==
  ASSUME IInv, Commit
  PROVE  IInv'
<1>1. LanesInv(lanes, fate) /\ base \in Contents /\ WorldInv(state, base)
  BY IInvParts
<1>2. PICK K : K = knownTo(fate)
  OBVIOUS
<1>3. state.fate = fate
  BY StateIs
<1>4. K \in SUBSET Entities /\ Keeping(state, base, K)
  BY <1>1, <1>2, <1>3 DEF knownTo, Keeping
<1>5. ASSUME NEW l \in Lanes PROVE lanes[l] \in Seq(recordsOf(K))
  <2>1. PICK q : q = lanes[l]
    OBVIOUS
  <2>2. q \in Seq(Records) /\ \A r \in ToSet(q) : Spawnable(r, fate)
    BY <1>1, <2>1 DEF LanesInv
  <2>3. Len(q) \in Nat /\ DOMAIN q = 1..Len(q) /\ q \in [1..Len(q) -> Records]
    BY <2>2, LenProperties
  <2>4. \A n \in 1..Len(q) : q[n] \in recordsOf(K)
    <3>1. ASSUME NEW n \in 1..Len(q) PROVE q[n] \in recordsOf(K)
      <4>1. PICK r : r = q[n]
        OBVIOUS
      <4>2. r \in Records /\ r \in ToSet(q)
        BY <2>3, <4>1 DEF ToSet
      <4>3. Spawnable(r, fate) /\ r.entity \in Entities
        BY <2>2, <4>2, RecordParts
      <4> QED BY <1>2, <4>1, <4>2, <4>3 DEF Spawnable, recordsOf, knownTo
    <3> QED BY <3>1
  <2>5. q \in [1..Len(q) -> recordsOf(K)]
    BY <2>3, <2>4
  <2> QED BY <2>1, <2>3, <2>5, SeqDef
<1>6. [l \in Lanes |-> lanes[l]] \in Seq(Seq(recordsOf(K)))
  <2>1. PICK S : S = Seq(recordsOf(K))
    OBVIOUS
  <2>2. [l \in Lanes |-> lanes[l]] \in [1..LaneCount -> S]
    BY <1>5, <2>1 DEF Lanes
  <2>3. [l \in Lanes |-> lanes[l]] \in Seq(S)
    BY <2>2, WorldAssumption, SeqDef
  <2> QED BY <2>1, <2>3
<1>7. PICK q : q = inLaneOrder
  OBVIOUS
<1>8. q \in Seq(recordsOf(K))
  BY <1>6, <1>7, Flattened DEF inLaneOrder
<1>9. PICK z : z = visitAll(state, passes(q))
  OBVIOUS
<1>10. Keeping(z, base, K)
  BY <1>1, <1>4, <1>8, <1>9, CommitKeeps
<1>11. becomes(z)
  BY <1>7, <1>9 DEF Commit, commit, visitAll
<1>12. lanes' = [l \in Lanes |-> <<>>]
  BY DEF Commit
<1>13. LanesInv(lanes', z.fate)
  BY <1>12, EmptySeq DEF LanesInv, ToSet
<1>14. WorldInv(z, base)
  BY <1>10 DEF Keeping
<1> QED BY <1>1, <1>11, <1>13, <1>14, WholeStep DEF Commit

\* Reserve.
LEMMA ReserveSteps ==
  ASSUME IInv, Reserve
  PROVE  IInv'
<1>1. PICK n, e : n = reserve(table).table /\ e = reserve(table).entity
  OBVIOUS
<1>2. PICK x, k : x = newFate(table) /\ k = fated(fate, e, x)
  OBVIOUS
<1>3. generation(e) <= MaxGeneration
  BY <1>1 DEF Reserve, mayHandOut
<1>4. WorldInv(state, base) /\ TableInv(table, fate) /\ fate \in [Entities -> Fates]
  BY IInvParts
<1>5. /\ sameSlots(n, table)
      /\ e = NoEntity => TableInv(n, fate)
      /\ e # NoEntity => TableInv(n, k)
  <2>1. PICK t, g : t = table /\ g = fate
    OBVIOUS
  <2>2. /\ TableInv(t, g) /\ n = reserve(t).table /\ e = reserve(t).entity
        /\ x = newFate(t) /\ k = fated(g, e, x)
    BY <1>1, <1>2, <1>4, <2>1
  <2>3. sameSlots(n, t)
    BY ONLY <1>3, <2>2, ReserveKeeps
  <2>4. e = NoEntity => TableInv(n, g)
    BY ONLY <1>3, <2>2, ReserveKeeps
  <2>5. e # NoEntity => TableInv(n, k)
    BY ONLY <1>3, <2>2, ReserveKeeps
  <2> QED BY <2>1, <2>3, <2>4, <2>5
<1>6. PICK f : f = IF e = NoEntity THEN fate ELSE k
  OBVIOUS
<1>7. TableInv(n, f) /\ knownTo(fate) \subseteq knownTo(f)
  <2>1. knownTo(fate) \subseteq knownTo(k)
    BY <1>2, <1>4, FateGiven DEF newFate, fated
  <2> QED BY <1>5, <1>6, <2>1
<1>8. PICK z : z = retabled(state, n, f)
  OBVIOUS
<1>9. state.table = table /\ state.stores = stores /\ state.fate = fate /\ state.truth = truth
  BY StateIs
<1>10. WorldInv(z, base) /\ z.fate = f
  BY <1>4, <1>5, <1>7, <1>8, <1>9, CountWorld
<1>11. table' = n /\ fate' = f /\ UNCHANGED <<workload, stores, lanes, truth, base>>
  BY <1>1, <1>2, <1>6 DEF Reserve, newFate, fated
<1>12. becomes(z)
  BY <1>4, <1>8, <1>9, <1>11 DEF becomes, retabled, WorldInv, Worlds
<1>13. knownTo(fate) \subseteq knownTo(z.fate)
  BY <1>7, <1>10
<1> QED BY <1>10, <1>11, <1>12, <1>13, WorldStep

\* What Spawn hands out from: the reservations settled, unless it observes.
readied(t) == IF t.observing THEN t ELSE settleReservations(t, FALSE)

\* The table it hands out from differs only in what is settled.
LEMMA Readied ==
  ASSUME NEW t, NEW f, TableInv(t, f), NEW n, n = readied(t)
  PROVE  TableInv(n, f) /\ sameSlots(n, t)
<1>1. CASE t.observing
  BY <1>1 DEF readied, sameSlots
<1>2. CASE ~t.observing
  BY <1>2, SettleKeeps DEF readied
<1> QED BY <1>1, <1>2

\* Spawn.
LEMMA SpawnSteps ==
  ASSUME IInv, Spawn
  PROVE  IInv'
<1>1. PICK t, f, n, m, e, x, k : /\ t = table /\ f = fate /\ n = readied(t)
                                 /\ m = reserve(n).table /\ e = reserve(n).entity
                                 /\ x = newFate(n) /\ k = fated(f, e, x)
  OBVIOUS
<1>2. spawn(table) = IF e = NoEntity THEN reserve(n)
                     ELSE [reserve(n) EXCEPT !.table = setAlive(@, e)]
  BY <1>1 DEF spawn, readied
<1>3. spawn(table).entity = e /\ spawn(table).table = IF e = NoEntity THEN m ELSE setAlive(m, e)
  BY <1>1, <1>2 DEF reserve
<1>4. generation(e) <= MaxGeneration
  BY <1>3 DEF Spawn, mayHandOut
<1>5. WorldInv(state, base) /\ TableInv(t, f) /\ f \in [Entities -> Fates]
  BY <1>1, IInvParts
<1>6. state.table = t /\ state.stores = stores /\ state.fate = f /\ state.truth = truth
  BY <1>1, StateIs
<1>7. TableInv(n, f) /\ sameSlots(n, t)
  BY <1>1, <1>5, Readied
<1>8. n = n /\ m = reserve(n).table /\ e = reserve(n).entity /\ x = newFate(n) /\ k = fated(f, e, x)
  BY <1>1
<1>9. sameSlots(m, n)
  BY ONLY <1>4, <1>7, <1>8, ReserveKeeps
<1>10. sameSlots(m, t)
  BY <1>7, <1>9 DEF sameSlots
<1>11. e = NoEntity => TableInv(m, f)
  BY ONLY <1>4, <1>7, <1>8, ReserveKeeps
<1>12. e # NoEntity => e \in Entities /\ e \in toHandOut(n) /\ TableInv(m, k)
  BY ONLY <1>4, <1>7, <1>8, ReserveKeeps
<1>13. UNCHANGED <<workload, stores, lanes, truth, base>> /\ table' = spawn(table).table
  BY DEF Spawn
<1>14. CASE e = NoEntity
  <2>1. PICK z : z = retabled(state, m, f)
    OBVIOUS
  <2>2. WorldInv(z, base) /\ z.fate = f
    BY <1>5, <1>6, <1>10, <1>11, <1>14, <2>1, CountWorld
  <2>3. table' = m /\ fate' = f
    BY <1>1, <1>3, <1>14 DEF Spawn
  <2>4. becomes(z)
    BY <1>5, <1>6, <1>13, <2>1, <2>3 DEF becomes, retabled, WorldInv, Worlds
  <2>5. knownTo(fate) \subseteq knownTo(z.fate)
    BY <1>1, <2>2
  <2> QED BY <1>13, <2>2, <2>4, <2>5, WorldStep
<1>15. CASE e # NoEntity
  <2>1. PICK y : y = retabled(state, m, k)
    OBVIOUS
  <2>2. WorldInv(y, base)
    BY <1>5, <1>6, <1>10, <1>12, <1>15, <2>1, CountWorld
  <2>3. y.table = m /\ y.fate = k /\ y.stores = stores /\ y.truth = truth
    BY <1>5, <1>6, <2>1 DEF retabled, WorldInv, Worlds
  <2>4. n.live[index(e)] = 0 /\ index(e) \notin ToSet(n.despawned)
    BY <1>7, <1>12, <1>15 DEF TableInv, FreshInv
  <2>5. m.live[index(e)] = 0 /\ index(e) \notin ToSet(m.despawned)
    BY <1>9, <2>4 DEF sameSlots
  <2>6. waits(k, e)
    BY <1>5, <1>8, <1>12, <1>15 DEF waits, fated, newFate
  <2>7. PICK z, g : z = retabled(y, setAlive(m, e), g) /\ g = [k EXCEPT ![e] = "alive"]
    OBVIOUS
  <2>8. WorldInv(z, base) /\ z.fate = g
    BY <1>12, <1>15, <2>2, <2>3, <2>5, <2>6, <2>7, BornWorld
  <2>9. g = [f EXCEPT ![e] = "alive"]
    BY <1>5, <1>8, <2>7 DEF fated
  <2>10. fate' = g /\ table' = setAlive(m, e)
    BY <1>1, <1>3, <1>15, <2>9 DEF Spawn
  <2>11. z.table = setAlive(m, e) /\ z.stores = stores /\ z.truth = truth
    BY <2>2, <2>3, <2>7 DEF retabled, WorldInv, Worlds
  <2>12. becomes(z)
    BY <1>13, <2>8, <2>10, <2>11 DEF becomes
  <2>13. knownTo(fate) \subseteq knownTo(z.fate)
    BY <1>1, <1>5, <2>8, <2>9, FateGiven
  <2> QED BY <1>13, <2>8, <2>12, <2>13, WorldStep
<1> QED BY <1>14, <1>15

\* The end of a window.
LEMMA ResetSteps ==
  ASSUME IInv, ResetObservation
  PROVE  IInv'
<1>1. PICK t, f, n, S, k : /\ t = table /\ f = fate /\ n = endWindow(t)
                           /\ S = [c \in Components |-> IF t.observing THEN resetObservation(stores[c])
                                                        ELSE startObservation(stores[c])]
                           /\ k = IF t.observing THEN burnedFates(f) ELSE f
  OBVIOUS
<1>2. PICK b : b = IF t.observing THEN truth ELSE base
  OBVIOUS
<1>3. /\ base \in Contents /\ WorldInv(state, base) /\ LanesInv(lanes, f) /\ TableInv(t, f) /\ t \in Tables
      /\ f \in [Entities -> Fates] /\ truth \in Contents /\ Based(t, base)
      /\ \A c \in Components : StoreInv(stores[c], t, valuesOf(truth, c), valuesOf(base, c), c)
  BY <1>1, IInvParts
<1>4. state.table = t /\ state.stores = stores /\ state.fate = f /\ state.truth = truth
  BY <1>1, StateIs
<1>5. TableInv(n, k) /\ n.live = t.live /\ n.mask = t.mask /\ n.observing
  <2>1. CASE t.observing
    <3>1. k = burnedFates(f) /\ n = endWindow(t)
      BY <1>1, <2>1
    <3> QED BY ONLY <1>3, <2>1, <3>1, EndKeeps
  <2>2. CASE ~t.observing
    <3>1. k = f /\ n = endWindow(t)
      BY <1>1, <2>2
    <3> QED BY ONLY <1>3, <2>2, <3>1, FirstEndKeeps
  <2> QED BY <2>1, <2>2
<1>6. table' = n /\ stores' = S /\ fate' = k /\ base' = b /\ UNCHANGED <<workload, lanes, truth>>
  <2>1. fate' = k
    <3>1. CASE t.observing
      BY <1>1, <3>1 DEF ResetObservation, burnedFates
    <3>2. CASE ~t.observing
      <4>1. fate' = [e \in Entities |-> fate[e]]
        BY <1>1, <3>2 DEF ResetObservation
      <4> QED BY <1>1, <1>3, <3>2, <4>1
    <3> QED BY <3>1, <3>2
  <2> QED BY <1>1, <1>2, <2>1 DEF ResetObservation
<1>7. ASSUME NEW c \in Components
      PROVE  StoreInv(S[c], n, valuesOf(truth, c), valuesOf(b, c), c) /\ S[c] \in Stores
  <2>1. PICK s, v, o, u : s = stores[c] /\ v = valuesOf(truth, c) /\ o = valuesOf(base, c) /\ u = S[c]
    OBVIOUS
  <2>2. StoreInv(s, t, v, o, c) /\ v \in Valuations
    BY <1>3, <2>1, ValuesOf
  <2>3. StoreInv(u, n, v, valuesOf(b, c), c)
    <3>1. CASE t.observing
      <4>1. u = resetObservation(s) /\ valuesOf(b, c) = v
        BY <1>1, <1>2, <2>1, <3>1
      <4>2. StoreInv(u, n, v, v, c)
        BY ONLY <1>5, <2>2, <4>1, StoreResets
      <4> QED BY <4>1, <4>2
    <3>2. CASE ~t.observing
      <4>1. u = startObservation(s) /\ valuesOf(b, c) = o
        BY <1>1, <1>2, <2>1, <3>2
      <4>2. base = [e \in Entities |-> nothing]
        BY <1>3, <3>2 DEF Based
      <4>3. \A e \in Entities : o[e] = Unset
        BY <2>1, <4>2 DEF valuesOf, nothing
      <4>4. t.despawned = <<>>
        BY <1>3, <3>2 DEF TableInv, SlotsInv
      <4>5. ToSet(t.despawned) = {}
        BY <4>4 DEF ToSet
      <4>6. StoreInv(u, n, v, o, c)
        BY ONLY <1>5, <2>2, <3>2, <4>1, <4>3, <4>5, StoreStarts
      <4> QED BY <4>1, <4>6
    <3> QED BY <3>1, <3>2
  <2>4. u \in Stores
    BY <2>3 DEF StoreInv, RowsInv
  <2> QED BY <2>1, <2>3, <2>4
<1>8. S \in [Components -> Stores] /\ b \in Contents /\ Based(n, b)
  <2>1. S \in [Components -> Stores]
    BY <1>1, <1>7
  <2> QED BY <1>2, <1>3, <1>5, <2>1 DEF Based
<1>9. PICK z : z = made(state, n, S, k, truth)
  OBVIOUS
<1>10. state \in Worlds
  BY <1>3 DEF WorldInv
<1>11. WorldInv(z, b) /\ z.table = n /\ z.stores = S /\ z.fate = k /\ z.truth = truth
  BY <1>3, <1>5, <1>7, <1>8, <1>9, <1>10, MadeWorld
<1>12. becomes(z)
  BY <1>6, <1>11 DEF becomes
<1>13. knownTo(f) \subseteq knownTo(k)
  BY <1>1, <1>3 DEF knownTo, burnedFates
<1>14. LanesInv(lanes', z.fate)
  BY <1>3, <1>6, <1>11, <1>13, LanesKeep
<1> QED BY <1>6, <1>8, <1>11, <1>12, <1>14, WholeStep

\* The table at the start.
LEMMA FirstTable ==
  ASSUME NEW t, t = emptyTable, NEW f, f = [e \in Entities |-> "none"]
  PROVE  TableInv(t, f) /\ ~t.observing /\ t.live = [i \in Indices |-> 0]
<1>1. /\ t.live = [i \in Indices |-> 0] /\ t.last = [i \in Indices |-> 0]
      /\ t.mask = [i \in Indices |-> {}]
      /\ t.free = <<>> /\ t.count = 0 /\ t.fresh = FirstIndex /\ t.observing = FALSE
      /\ t.despawned = <<>> /\ t.outside = {}
  BY DEF emptyTable
<1>2. t \in Tables
  <2>1. FirstIndex \in FirstIndex..LastIndex + 1
    BY EntityTableAssumption
  <2>2. <<>> \in Seq(Pairs) /\ <<>> \in Seq(Indices)
    BY EmptySeq
  <2> QED BY <2>1, <2>2 DEF emptyTable, Tables
<1>3. f \in [Entities -> Fates] /\ \A e \in Entities : f[e] = "none"
  BY DEF Fates
<1>4. \A e : e \in Entities => ~waits(f, e)
  BY <1>3 DEF waits
<1>5. \A i : ~held(f, i)
  BY <1>4 DEF held
<1>6. FreeInv(t)
  BY <1>1 DEF FreeInv
<1>7. toHandOut(t) = freeFrom(t, 1, Len(t.free)) \cup freshFrom(t.fresh, LastIndex) /\ handedOut(t) = {}
  BY <1>1, <1>2, NoneTaken
<1>8. freeFrom(t, 1, Len(t.free)) = {}
  <2>1. Len(t.free) = 0
    BY <1>1, EmptySeq
  <2> QED BY <2>1 DEF freeFrom
<1>9. toHandOut(t) = {<<i, 1>> : i \in InRange}
  BY <1>1, <1>7, <1>8 DEF freshFrom, InRange
<1>10. ToSet(t.despawned) = {}
  BY <1>1 DEF ToSet
<1>11. \A i \in InRange : i \in Indices
  BY DEF Indices
<1>12. FreshInv(t, f)
  <2>1. ASSUME NEW e \in toHandOut(t)
        PROVE  /\ generation(e) = t.last[index(e)] + 1 /\ t.live[index(e)] = 0
               /\ ~held(f, index(e)) /\ index(e) \notin ToSet(t.despawned)
    <3>1. PICK i \in InRange : e = <<i, 1>>
      BY <1>9
    <3>2. index(e) = i /\ generation(e) = 1 /\ i \in Indices
      BY <1>11, <3>1, Parts
    <3> QED BY <1>1, <1>5, <1>10, <3>2
  <2> QED BY <2>1 DEF FreshInv
<1>13. TakenInv(t, f)
  BY <1>3, <1>7 DEF TakenInv
<1>14. FatesInv(t, f)
  <2>1. ASSUME NEW e \in Entities PROVE t.live[index(e)] # generation(e)
    BY <1>1, <2>1, Parts
  <2> QED BY <1>3, <1>4, <2>1 DEF FatesInv
<1>15. SlotsInv(t)
  BY <1>1, <1>10 DEF SlotsInv, IsInjective
<1>16. PlacesInv(t, f)
  <2>1. ASSUME NEW i \in InRange PROVE \E e \in toHandOut(t) : index(e) = i
    <3>1. <<i, 1>> \in toHandOut(t)
      BY <1>9, <2>1
    <3>2. index(<<i, 1>>) = i
      BY Parts
    <3> QED BY <3>1, <3>2
  <2> QED BY <2>1 DEF PlacesInv
<1> QED BY <1>1, <1>2, <1>3, <1>6, <1>12, <1>13, <1>14, <1>15, <1>16 DEF TableInv

\* A store at the start.
LEMMA FirstStore ==
  ASSUME NEW o \in {"unobserved", "observerWaiting"}, NEW s, s = emptyStore(o),
         NEW t, t.live = [i \in Indices |-> 0], NEW v, \A e \in Entities : v[e] = Unset, NEW b, NEW c
  PROVE  StoreInv(s, t, v, b, c)
<1>1. /\ s.observation = o /\ s.rows = <<>> /\ s.liveRows = 0 /\ s.rowByIndex = [i \in Indices |-> 0]
      /\ s.changed = <<>> /\ s.overflowed = FALSE
  BY DEF emptyStore
<1>2. s \in Stores
  <2>1. <<>> \in Seq(Rows) /\ <<>> \in Seq(Entities)
    BY EmptySeq
  <2> QED BY <2>1 DEF emptyStore, Stores
<1>3. Len(s.rows) = 0 /\ DOMAIN s.rows = {}
  BY <1>1, EmptySeq
<1>4. LiveRows(s) = {} /\ TailRows(s) = {}
  BY <1>1, <1>3 DEF LiveRows, TailRows
<1>5. LinksInv(s)
  BY <1>1, <1>3 DEF LinksInv
<1>6. BoundsInv(s)
  BY <1>1, <1>3 DEF BoundsInv
<1>7. ValuesInv(LiveRows(s), TailRows(s), v)
  BY <1>4 DEF ValuesInv
<1>8. s.observation # "observed"
  BY <1>1
<1>9. RowsInv(s, v, b)
  BY <1>2, <1>5, <1>6, <1>7, <1>8 DEF RowsInv, ObservedInv
<1>10. \A e \in Entities : ~alive(t, e)
  BY Parts DEF alive
<1>11. OwnersInv(LiveRows(s) \cup TailRows(s), t, v) /\ MasksInv(t, v, c)
  BY <1>4, <1>10 DEF OwnersInv, MasksInv
<1> QED BY <1>8, <1>9, <1>11 DEF StoreInv

\* The start.
LEMMA InitHolds ==
  ASSUME Init
  PROVE  IInv
<1>1. /\ table = emptyTable /\ fate = [e \in Entities |-> "none"]
      /\ truth = [e \in Entities |-> nothing] /\ base = truth
  BY DEF Init
<1>2. TableInv(table, fate) /\ ~table.observing /\ table.live = [i \in Indices |-> 0]
  BY <1>1, FirstTable
<1>3. truth \in Contents
  BY <1>1 DEF Contents, nothing
<1>4. ASSUME NEW c \in Components
      PROVE  StoreInv(stores[c], table, valuesOf(truth, c), valuesOf(base, c), c) /\ stores[c] \in Stores
  <2>1. PICK s, v, b, t : s = stores[c] /\ v = valuesOf(truth, c) /\ b = valuesOf(base, c) /\ t = table
    OBVIOUS
  <2>2. PICK o \in {"unobserved", "observerWaiting"} : s = emptyStore(o)
    <3>1. stores \in [Components -> {emptyStore(o) : o \in {"unobserved", "observerWaiting"}}]
      BY DEF Init
    <3>2. stores[c] \in {emptyStore(o) : o \in {"unobserved", "observerWaiting"}}
      BY <3>1
    <3> QED BY <2>1, <3>2
  <2>3. \A e \in Entities : v[e] = Unset
    BY <1>1, <2>1 DEF valuesOf, nothing
  <2>4. t.live = [i \in Indices |-> 0]
    BY <1>2, <2>1
  <2>5. StoreInv(s, t, v, b, c)
    BY ONLY <2>2, <2>3, <2>4, o \in {"unobserved", "observerWaiting"}, FirstStore
  <2>6. s \in Stores
    BY <2>5 DEF StoreInv, RowsInv
  <2> QED BY <2>1, <2>5, <2>6
<1>5. stores \in [Components -> Stores]
  BY <1>4 DEF Init
<1>6. state.table = table /\ state.stores = stores /\ state.fate = fate /\ state.truth = truth
  BY StateIs
<1>7. state \in Worlds
  BY <1>2, <1>3, <1>5 DEF state, Worlds, TableInv
<1>8. StoresInv(state, base)
  BY <1>4, <1>6 DEF StoresInv
<1>9. Based(table, base)
  BY <1>1 DEF Based
<1>10. WorldInv(state, base)
  BY <1>2, <1>6, <1>7, <1>8, <1>9 DEF WorldInv
<1>11. lanes = [l \in Lanes |-> <<>>]
  BY DEF Init
<1>12. LanesInv(lanes, fate)
  BY <1>11, EmptySeq DEF LanesInv, ToSet
<1>13. workload \in Workloads
  BY DEF Init
<1> QED BY <1>1, <1>3, <1>10, <1>12, <1>13 DEF IInv, LanesInv

\* Every step keeps the invariant.
LEMMA NextKeeps ==
  ASSUME IInv, [Next]_vars
  PROVE  IInv'
<1>1. CASE Spawn
  BY <1>1, SpawnSteps
<1>2. CASE Reserve
  BY <1>2, ReserveSteps
<1>3. CASE ResetObservation
  BY <1>3, ResetSteps
<1>4. CASE Commit
  BY <1>4, CommitSteps
<1>5. ASSUME NEW e \in Entities, CreateAt(e) PROVE IInv'
  BY <1>5, CreateKeeps
<1>6. ASSUME NEW e \in Entities, Despawn(e) PROVE IInv'
  BY <1>6, DespawnSteps
<1>7. ASSUME NEW e \in Entities, NEW c \in Components, RemoveComponent(e, c) PROVE IInv'
  BY <1>7, RemoveSteps
<1>8. ASSUME NEW e \in Entities, NEW c \in Components, NEW v \in Values, Add(e, c, v) PROVE IInv'
  BY <1>8, AddSteps
<1>9. ASSUME NEW l \in Lanes, NEW r \in Records, Record(l, r) PROVE IInv'
  BY <1>9, RecordSteps
<1>10. CASE UNCHANGED vars
  <2>1. UNCHANGED <<workload, table, stores, lanes, fate, truth, base>>
    BY <1>10 DEF vars, world, history
  <2>2. becomes(state) /\ state.fate = fate
    BY <2>1, StateIs DEF becomes
  <2> QED BY <2>1, <2>2, IInvParts, WholeStep
<1> QED BY <1>1, <1>2, <1>3, <1>4, <1>5, <1>6, <1>7, <1>8, <1>9, <1>10 DEF Next

\* Exactly the entities that wait for their commit would be accepted by it.
LEMMA HonouredFrom ==
  ASSUME IInv
  PROVE  ReservationsHonoured
<1>1. PICK t, f : t = table /\ f = fate
  OBVIOUS
<1>2. TableInv(t, f) /\ t \in Tables /\ f \in [Entities -> Fates]
  BY <1>1, IInvParts
<1>3. FatesInv(t, f)
  BY <1>2 DEF TableInv
<1>4. ASSUME NEW e \in Entities, index(e) \in InRange, f[e] # "none"
      PROVE  reserved(t, e) <=> f[e] \in {"early", "waiting"}
  <2>1. t.last[index(e)] \in Nat /\ generation(e) # 0
    BY <1>2, Parts DEF Tables
  <2>2. ASSUME reserved(t, e) PROVE f[e] \in {"early", "waiting"}
    <3>1. t.live[index(e)] = 0 /\ generation(e) = t.last[index(e)] + 1
      BY <2>2 DEF reserved, nextGeneration
    <3>2. f[e] # "alive"
      BY <1>3, <2>1, <3>1 DEF FatesInv
    <3>3. ~(generation(e) <= t.last[index(e)])
      BY <2>1, <3>1
    <3>4. f[e] \notin {"ended", "burned"}
      BY <1>3, <1>4, <3>3 DEF FatesInv
    <3> QED BY <1>2, <1>4, <3>2, <3>4 DEF Fates
  <2>3. ASSUME f[e] \in {"early", "waiting"} PROVE reserved(t, e)
    BY <1>3, <2>3 DEF FatesInv, waits, reserved, nextGeneration
  <2> QED BY <2>2, <2>3
<1>5. ASSUME NEW e \in Entities PROVE alive(t, e) <=> f[e] = "alive"
  BY <1>3, Parts DEF FatesInv, alive
<1> QED BY <1>1, <1>4, <1>5 DEF ReservationsHonoured, known

\* Every entity finds the value it was given.
LEMMA KeptFrom ==
  ASSUME IInv
  PROVE  ValuesKept
<1>1. ASSUME NEW c \in Components, NEW s, s = stores[c]
      PROVE  /\ \A e \in Entities :
                  /\ has(s, e) <=> truth[e][c] # Unset
                  /\ has(s, e) => s.rows[linked(s, e)].value = truth[e][c] /\ alive(table, e)
                  /\ alive(table, e) => (c \in table.mask[index(e)] <=> has(s, e))
             /\ \A r \in 1..s.liveRows : linked(s, s.rows[r].owner) = r
  <2>1. PICK t, v, b : t = table /\ v = valuesOf(truth, c) /\ b = valuesOf(base, c)
    OBVIOUS
  <2>2. StoreInv(s, t, v, b, c) /\ \A e \in Entities : v[e] = truth[e][c]
    BY <1>1, <2>1, IInvParts, ValuesOf
  <2>3. RowsInv(s, v, b) /\ Shape(s) /\ MasksInv(t, v, c)
    BY <2>2, StoreInvParts
  <2>4. ASSUME NEW e \in Entities
        PROVE  /\ has(s, e) <=> truth[e][c] # Unset
               /\ has(s, e) => s.rows[linked(s, e)].value = truth[e][c] /\ alive(t, e)
               /\ alive(t, e) => (c \in t.mask[index(e)] <=> has(s, e))
    <3>1. /\ has(s, e) <=> v[e] # Unset
          /\ v[e] # Unset => alive(t, e)
          /\ has(s, e) => s.rows[linked(s, e)].value = v[e]
      BY <2>2, Owned
    <3>2. alive(t, e) => (c \in t.mask[index(e)] <=> v[e] # Unset)
      BY <2>3 DEF MasksInv
    <3> QED BY <2>2, <3>1, <3>2
  <2>5. ASSUME NEW r \in 1..s.liveRows PROVE linked(s, s.rows[r].owner) = r
    <3>1. s \in Stores /\ LinksInv(s) /\ BoundsInv(s)
      BY <2>3 DEF RowsInv
    <3>2. Len(s.rows) \in Nat /\ DOMAIN s.rows = 1..Len(s.rows) /\ s.liveRows \in Nat
      BY <3>1, LenProperties DEF Stores
    <3>3. r \in DOMAIN s.rows
      BY <3>1, <3>2 DEF BoundsInv
    <3> QED BY <3>1, <3>3 DEF LinksInv, linked
  <2> QED BY <2>1, <2>4, <2>5
<1> QED BY <1>1 DEF ValuesKept

\* How a value x became y.
became(x, y) ==
  IF x = y THEN "None"
  ELSE CASE x = Unset -> "Added"
         [] y = Unset -> "Removed"
         [] OTHER -> "Changed"

\* The rows told tell exactly how v differs from b.
ToldExactly(s, told, v, b) ==
  /\ \A e \in Entities :
       {delta(s.rows[r]) : r \in {t \in told : s.rows[t].owner = e}} = {became(b[e], v[e])} \ {"None"}
  /\ \A r, t \in told : s.rows[t].owner = s.rows[r].owner => t = r
  /\ \A r \in told : delta(s.rows[r]) # "Added" => s.rows[r].shadow = b[s.rows[r].owner]
toldOf(s) == {r \in ToSet(walked(s)) : delta(s.rows[r]) # "None"}

\* What a row tells, in a store whose states say what happened.
LEMMA RowTold ==
  ASSUME NEW L, NEW T, NEW v, NEW b, ValuesInv(L, T, v), StatesInv(L, T, v, b), NEW x \in L \cup T
  PROVE  /\ delta(x) = became(b[x.owner], v[x.owner])
         /\ delta(x) \notin {"None", "Added"} => x.shadow = b[x.owner]
         /\ delta(x) # "None" => x.state # "Unchanged"
<1>1. PICK e : e = x.owner
  OBVIOUS
<1>2. /\ x.state \in {"Added", "Discarded"} <=> b[e] = Unset
      /\ x.state \in {"Unchanged", "Changed", "Removed"} => x.shadow = b[e]
      /\ x.state = "Unchanged" => v[e] = b[e]
  BY <1>1 DEF StatesInv
<1>3. CASE x \in L
  <2>1. v[e] = x.value /\ x.value # Unset
    BY <1>1, <1>3 DEF ValuesInv
  <2>2. x.state \in {"Unchanged", "Changed", "Added"}
    BY <1>3 DEF StatesInv
  <2>3. CASE x.state = "Unchanged"
    BY <1>1, <1>2, <2>1, <2>3 DEF delta, became
  <2>4. CASE x.state = "Changed"
    BY <1>1, <1>2, <2>1, <2>4 DEF delta, became
  <2>5. CASE x.state = "Added"
    BY <1>1, <1>2, <2>1, <2>5 DEF delta, became
  <2> QED BY <2>2, <2>3, <2>4, <2>5
<1>4. CASE x \in T
  <2>1. v[e] = Unset
    BY <1>1, <1>4 DEF ValuesInv
  <2>2. x.state \in {"Removed", "Discarded"}
    BY <1>4 DEF StatesInv
  <2>3. CASE x.state = "Removed"
    BY <1>1, <1>2, <2>1, <2>3 DEF delta, became
  <2>4. CASE x.state = "Discarded"
    BY <1>1, <1>2, <2>1, <2>4 DEF delta, became
  <2> QED BY <2>2, <2>3, <2>4
<1> QED BY <1>3, <1>4

\* A delta query visits rows, none of them twice.
LEMMA WalkedOnce ==
  ASSUME NEW s, NEW v, NEW b, RowsInv(s, v, b), s.observation = "observed", NEW q, q = walked(s)
  PROVE  IsInjective(q) /\ \A r \in ToSet(q) : r \in 1..Len(s.rows)
<1>1. Shape(s) /\ (~s.overflowed => ListInv(RowsOf(s), s.changed))
  BY RowsParts
<1>2. DOMAIN s.rows = 1..Len(s.rows) /\ s.changed \in Seq(Entities)
  BY <1>1, StoreParts DEF Shape
<1>3. CASE s.overflowed
  <2>1. q = [r \in 1..Len(s.rows) |-> r]
    BY <1>2, <1>3 DEF walked
  <2>2. DOMAIN q = 1..Len(s.rows) /\ \A r \in 1..Len(s.rows) : q[r] = r
    BY <2>1
  <2> QED BY <2>2 DEF IsInjective, ToSet
<1>4. CASE ~s.overflowed
  <2>1. PICK p : p = s.changed
    OBVIOUS
  <2>2. DOMAIN q = DOMAIN p /\ \A n \in DOMAIN p : q[n] = linked(s, p[n])
    BY <1>4, <2>1 DEF walked
  <2>3. IsInjective(p) /\ \A e \in ToSet(p) : \E x \in RowsOf(s) : x.owner = e
    BY <1>1, <1>4, <2>1 DEF ListInv
  <2>4. ASSUME NEW n \in DOMAIN p PROVE q[n] \in 1..Len(s.rows) /\ s.rows[q[n]].owner = p[n]
    <3>1. PICK x \in RowsOf(s) : x.owner = p[n]
      BY <2>3, <2>4 DEF ToSet
    <3>2. PICK r \in 1..Len(s.rows) : x = s.rows[r]
      BY <1>1, <3>1, RowsApart
    <3>3. s.rowByIndex[index(s.rows[r].owner)] = r
      BY <1>1, <3>2, Linked
    <3>4. q[n] = r
      BY <2>2, <3>1, <3>2, <3>3 DEF linked
    <3> QED BY <3>1, <3>2, <3>4
  <2>5. IsInjective(q)
    BY <2>2, <2>3, <2>4 DEF IsInjective
  <2> QED BY <2>2, <2>4, <2>5 DEF ToSet
<1> QED BY <1>3, <1>4

\* What a store tells of how it differs.
LEMMA StoreTells ==
  ASSUME NEW s, NEW v, NEW b, RowsInv(s, v, b), s.observation = "observed", NEW q, q = walked(s),
         NEW told, told = toldOf(s)
  PROVE  ToldExactly(s, told, v, b)
<1>0. told = {r \in ToSet(q) : delta(s.rows[r]) # "None"}
  BY DEF toldOf
<1>1. /\ Shape(s) /\ ValuesInv(LiveRows(s), TailRows(s), v) /\ StatesInv(LiveRows(s), TailRows(s), v, b)
  BY RowsParts
<1>2. /\ RowsOf(s) = {s.rows[r] : r \in 1..Len(s.rows)} /\ \A x \in RowsOf(s) : x.owner \in Entities
  BY <1>1, RowsApart
<1>3. \A r \in 1..Len(s.rows) : s.rowByIndex[index(s.rows[r].owner)] = r
  BY <1>1, Linked
<1>4. \A r \in ToSet(q) : r \in 1..Len(s.rows)
  BY WalkedOnce
<1>5. ASSUME NEW r \in 1..Len(s.rows)
      PROVE  /\ delta(s.rows[r]) = became(b[s.rows[r].owner], v[s.rows[r].owner])
             /\ delta(s.rows[r]) \notin {"None", "Added"} => s.rows[r].shadow = b[s.rows[r].owner]
             /\ delta(s.rows[r]) # "None" => r \in told
  <2>1. PICK x : x = s.rows[r]
    OBVIOUS
  <2>2. x \in LiveRows(s) \cup TailRows(s)
    BY <1>2, <2>1 DEF RowsOf
  <2>3. /\ delta(x) = became(b[x.owner], v[x.owner])
        /\ delta(x) \notin {"None", "Added"} => x.shadow = b[x.owner]
        /\ delta(x) # "None" => x.state # "Unchanged"
    BY <1>1, <2>2, RowTold
  <2>4. delta(x) # "None" => r \in ToSet(q)
    BY <2>1, <2>3, AllWalked
  <2> QED BY <1>0, <2>1, <2>3, <2>4
<1>6. ASSUME NEW e \in Entities, NEW D, D = {delta(s.rows[r]) : r \in {t \in told : s.rows[t].owner = e}}
      PROVE  D = {became(b[e], v[e])} \ {"None"}
  <2>1. CASE \E r \in 1..Len(s.rows) : s.rows[r].owner = e
    <3>1. PICK r \in 1..Len(s.rows) : s.rows[r].owner = e
      BY <2>1
    <3>2. delta(s.rows[r]) = became(b[e], v[e]) /\ (delta(s.rows[r]) # "None" => r \in told)
      BY <1>5, <3>1
    <3>3. \A t \in told : s.rows[t].owner = e => t = r
      BY <1>0, <1>3, <1>4, <3>1
    <3>4. \A d \in D : d = became(b[e], v[e]) /\ d # "None"
      BY <1>0, <1>6, <3>2, <3>3
    <3>5. became(b[e], v[e]) # "None" => became(b[e], v[e]) \in D
      BY <1>6, <3>1, <3>2
    <3> QED BY <3>4, <3>5
  <2>2. CASE \A r \in 1..Len(s.rows) : s.rows[r].owner # e
    <3>1. \A x \in LiveRows(s) \cup TailRows(s) : x.owner # e
      BY <1>2, <2>2 DEF RowsOf
    <3>2. v[e] = Unset /\ b[e] = Unset
      BY <1>1, <3>1 DEF ValuesInv, StatesInv
    <3>3. D = {}
      BY <1>0, <1>4, <1>6, <2>2
    <3> QED BY <3>2, <3>3 DEF became
  <2> QED BY <2>1, <2>2
<1>7. \A r, t \in told : s.rows[t].owner = s.rows[r].owner => t = r
  BY <1>0, <1>3, <1>4
<1>8. \A r \in told : delta(s.rows[r]) # "Added" => s.rows[r].shadow = b[s.rows[r].owner]
  BY <1>0, <1>4, <1>5
<1> QED BY <1>6, <1>7, <1>8 DEF ToldExactly

\* What DeltasExact says of one store.
ExactFor(s, c) ==
  /\ IsInjective(walked(s))
  /\ \A e \in Entities :
       {delta(s.rows[r]) : r \in {t \in toldOf(s) : s.rows[t].owner = e}} = {differs(e, c)} \ {"None"}
  /\ \A r \in toldOf(s) : /\ \A t \in toldOf(s) : s.rows[t].owner = s.rows[r].owner => t = r
                          /\ delta(s.rows[r]) # "Added" => s.rows[r].shadow = base[s.rows[r].owner][c]

\* A delta query tells exactly how each store differs.
LEMMA ExactFrom ==
  ASSUME IInv
  PROVE  DeltasExact
<1>1. ASSUME NEW c \in Components, stores[c].observation = "observed" PROVE ExactFor(stores[c], c)
  <2>1. PICK s, v, b, t : s = stores[c] /\ v = valuesOf(truth, c) /\ b = valuesOf(base, c) /\ t = table
    OBVIOUS
  <2>2. StoreInv(s, t, v, b, c) /\ \A e \in Entities : v[e] = truth[e][c] /\ b[e] = base[e][c]
    BY <2>1, IInvParts, ValuesOf
  <2>3. RowsInv(s, v, b) /\ Shape(s) /\ s.observation = "observed"
    BY <1>1, <2>1, <2>2, StoreInvParts
  <2>4. IsInjective(walked(s)) /\ \A r \in ToSet(walked(s)) : r \in 1..Len(s.rows)
    BY <2>3, WalkedOnce
  <2>5. ToldExactly(s, toldOf(s), v, b)
    BY <2>3, StoreTells
  <2>6. ASSUME NEW e \in Entities
        PROVE  {delta(s.rows[r]) : r \in {x \in toldOf(s) : s.rows[x].owner = e}} = {differs(e, c)} \ {"None"}
    <3>1. differs(e, c) = became(b[e], v[e])
      BY <2>2 DEF differs, became
    <3>2. {delta(s.rows[r]) : r \in {x \in toldOf(s) : s.rows[x].owner = e}} = {became(b[e], v[e])} \ {"None"}
      BY <2>5 DEF ToldExactly
    <3> QED BY <3>1, <3>2
  <2>7. \A r \in toldOf(s) : \A x \in toldOf(s) : s.rows[x].owner = s.rows[r].owner => x = r
    BY <2>5 DEF ToldExactly
  <2>8. \A r \in toldOf(s) : delta(s.rows[r]) # "Added" => s.rows[r].shadow = base[s.rows[r].owner][c]
    <3>1. \A r \in toldOf(s) : s.rows[r].owner \in Entities
      <4>1. /\ \A x \in RowsOf(s) : x.owner \in Entities
            /\ \A r \in 1..Len(s.rows) : s.rows[r] \in RowsOf(s)
        BY <2>3, RowsApart
      <4> QED BY <2>4, <4>1 DEF toldOf
    <3> QED BY <2>2, <2>5, <3>1 DEF ToldExactly
  <2>9. ExactFor(s, c)
    BY <2>4, <2>6, <2>7, <2>8 DEF ExactFor
  <2> QED BY <2>1, <2>9
<1> QED BY <1>1 DEF DeltasExact, ExactFor, toldOf

\* A set that has not two members.
LEMMA AtMostOne ==
  ASSUME NEW S, \A x, y \in S : x = y
  PROVE  Cardinality(S) = IF S = {} THEN 0 ELSE 1
<1>1. CASE S = {}
  BY <1>1, FS_EmptySet
<1>2. CASE S # {}
  <2>1. PICK x : x \in S
    BY <1>2
  <2>2. S = {x}
    BY <2>1
  <2> QED BY <1>2, <2>2, FS_Singleton
<1> QED BY <1>1, <1>2

\* Every index of the range is in one place.
LEMMA AccountedFrom ==
  ASSUME IInv
  PROVE  IndicesAccounted
<1>1. PICK t, f : t = table /\ f = fate
  OBVIOUS
<1>2. /\ t \in Tables /\ f \in [Entities -> Fates] /\ FreeInv(t) /\ FreshInv(t, f)
      /\ FatesInv(t, f) /\ SlotsInv(t) /\ PlacesInv(t, f)
  BY <1>1, IInvParts DEF TableInv
<1>3. PICK N, k, j : N = Len(t.free) /\ k = takenFree(t) /\ j = takenFresh(t)
  OBVIOUS
<1>4. /\ N \in Nat /\ k \in 0..N /\ j \in Nat /\ t.fresh \in Int
      /\ DOMAIN t.free = 1..N /\ (\A n \in 1..N : t.free[n] \in Pairs)
      /\ untaken(t) \in Seq(Pairs) /\ Len(untaken(t)) = N - k
      /\ \A n \in 1..N - k : untaken(t)[n] = t.free[n]
  <2>1. N = Len(t.free) /\ k = takenFree(t) /\ j = takenFresh(t) /\ t \in Tables
    BY <1>2, <1>3
  <2>2. N \in Nat /\ k \in 0..N /\ j \in Nat /\ t.fresh \in Int
    BY ONLY <2>1, Counts
  <2>3. DOMAIN t.free = 1..N
    BY ONLY <2>1, Counts
  <2>4. \A n \in 1..N : t.free[n] \in Pairs
    BY ONLY <2>1, Counts
  <2>5. untaken(t) \in Seq(Pairs) /\ Len(untaken(t)) = N - k
    BY ONLY <2>1, Counts
  <2>6. \A n \in 1..N - k : untaken(t)[n] = t.free[n]
    BY ONLY <2>1, Counts
  <2> QED BY <2>2, <2>3, <2>4, <2>5, <2>6
<1>5. PICK q, g : q = untaken(t) /\ g = t.fresh + j
  OBVIOUS
<1>6. /\ DOMAIN q = 1..N - k /\ g \in Int /\ t.fresh <= g
      /\ \A n \in DOMAIN q : n \in 1..N /\ q[n] = t.free[n] /\ index(q[n]) \in Int /\ q[n] \in ToSet(q)
  <2>1. DOMAIN q = 1..N - k
    BY <1>4, <1>5, LenProperties
  <2>2. ASSUME NEW n \in DOMAIN q PROVE n \in 1..N /\ q[n] = t.free[n] /\ index(q[n]) \in Int /\ q[n] \in ToSet(q)
    <3>1. n \in 1..N - k /\ n \in 1..N /\ q[n] = t.free[n]
      BY <1>4, <1>5, <2>1, <2>2
    <3>2. t.free[n] \in Pairs
      BY <1>4, <3>1
    <3>3. index(t.free[n]) \in InRange
      BY <3>2, Parts
    <3> QED BY <2>2, <3>1, <3>3, Parts DEF ToSet
  <2> QED BY <1>4, <1>5, <2>1, <2>2
<1>7. toHandOut(t) = ToSet(q) \cup {<<i, 1>> : i \in g..LastIndex}
  BY <1>3, <1>5 DEF toHandOut
<1>8. ASSUME NEW i \in InRange, NEW A, A = (IF i >= g THEN 1 ELSE 0),
             NEW B, B = Cardinality({n \in DOMAIN q : index(q[n]) = i}),
             NEW C, C = Cardinality({e \in Entities : index(e) = i /\ f[e] \in {"early", "waiting"}}),
             NEW D, D = (IF t.live[i] # 0 THEN 1 ELSE 0),
             NEW E, E = Cardinality({n \in DOMAIN t.despawned : t.despawned[n] = i})
      PROVE  A + B + C + D + E = 1
  <2>1. i \in Int /\ i \in Indices /\ i <= LastIndex /\ LastIndex \in Int
    BY EntityTableAssumption, Parts DEF Indices
  <2>2. PICK F, W, H : /\ F = {n \in DOMAIN q : index(q[n]) = i}
                                /\ W = {e \in Entities : index(e) = i /\ f[e] \in {"early", "waiting"}}
                                /\ H = {n \in DOMAIN t.despawned : t.despawned[n] = i}
    OBVIOUS
  <2>3. B = IF F = {} THEN 0 ELSE 1
    <3>1. \A m, n \in F : m = n
      BY <1>2, <1>4, <1>6, <2>2 DEF FreeInv
    <3>2. Cardinality(F) = IF F = {} THEN 0 ELSE 1
      BY <3>1, AtMostOne
    <3> QED BY <1>8, <2>2, <3>2
  <2>4. C = IF W = {} THEN 0 ELSE 1
    <3>1. ASSUME NEW d \in W, NEW e \in W PROVE d = e
      <4>1. /\ d \in Entities /\ e \in Entities /\ index(d) = i /\ index(e) = i
            /\ waits(f, d) /\ waits(f, e)
        BY <2>2, <3>1 DEF waits
      <4>2. generation(d) = t.last[i] + 1 /\ generation(e) = t.last[i] + 1
        BY <1>2, <4>1 DEF FatesInv
      <4>3. d = <<i, generation(d)>> /\ e = <<i, generation(e)>>
        BY <4>1, Parts
      <4> QED BY <4>2, <4>3
    <3>2. Cardinality(W) = IF W = {} THEN 0 ELSE 1
      BY <3>1, AtMostOne
    <3> QED BY <1>8, <2>2, <3>2
  <2>5. E = IF H = {} THEN 0 ELSE 1
    <3>1. \A m, n \in H : m = n
      BY <1>2, <2>2 DEF SlotsInv, IsInjective
    <3>2. Cardinality(H) = IF H = {} THEN 0 ELSE 1
      BY <3>1, AtMostOne
    <3> QED BY <1>8, <2>2, <3>2
  <2>6. W # {} <=> held(f, i)
    BY <2>2 DEF held, waits
  <2>7. H # {} <=> i \in ToSet(t.despawned)
    BY <2>2 DEF ToSet
  <2>8. F # {} => ~(i >= g)
    <3>1. ASSUME NEW n \in F PROVE ~(i >= g)
      <4>1. n \in DOMAIN q /\ index(q[n]) = i
        BY <2>2, <3>1
      <4>2. n \in DOMAIN t.free /\ q[n] = t.free[n]
        BY <1>4, <1>6, <4>1
      <4>3. i < t.fresh
        BY <1>2, <4>1, <4>2 DEF FreeInv
      <4> QED BY <1>4, <1>6, <2>1, <4>3
    <3> QED BY <3>1
  <2>9. (F # {} \/ i >= g) <=> \E e \in toHandOut(t) : index(e) = i
    <3>1. ASSUME F # {} PROVE \E e \in toHandOut(t) : index(e) = i
      <4>1. PICK n \in DOMAIN q : index(q[n]) = i
        BY <2>2, <3>1
      <4> QED BY <1>6, <1>7, <4>1
    <3>2. ASSUME i >= g PROVE \E e \in toHandOut(t) : index(e) = i
      <4>1. i \in g..LastIndex
        BY <1>6, <2>1, <3>2
      <4>2. <<i, 1>> \in toHandOut(t) /\ index(<<i, 1>>) = i
        BY <1>7, <4>1, Parts
      <4> QED BY <4>2
    <3>3. ASSUME NEW e \in toHandOut(t), index(e) = i PROVE F # {} \/ i >= g
      <4>1. CASE e \in ToSet(q)
        <5>1. PICK n \in DOMAIN q : e = q[n]
          BY <4>1 DEF ToSet
        <5> QED BY <2>2, <3>3, <5>1
      <4>2. CASE e \notin ToSet(q)
        <5>1. PICK x \in g..LastIndex : e = <<x, 1>>
          BY <1>7, <4>2
        <5>2. x = i
          BY <3>3, <5>1, Parts
        <5> QED BY <1>6, <2>1, <5>1, <5>2
      <4> QED BY <4>1, <4>2
    <3> QED BY <3>1, <3>2, <3>3
  <2>10. F # {} \/ i >= g => W = {} /\ t.live[i] = 0 /\ H = {}
    BY <1>2, <2>6, <2>7, <2>9 DEF FreshInv
  <2>11. W # {} => t.live[i] = 0 /\ H = {}
    <3>1. ASSUME NEW e \in W PROVE t.live[i] = 0 /\ H = {}
      <4>1. e \in Entities /\ index(e) = i /\ waits(f, e)
        BY <2>2, <3>1 DEF waits
      <4> QED BY <1>2, <2>7, <4>1 DEF FatesInv
    <3> QED BY <3>1
  <2>12. H # {} => t.live[i] = 0
    BY <1>2, <2>7 DEF SlotsInv
  <2>13. F # {} \/ i >= g \/ W # {} \/ t.live[i] # 0 \/ H # {}
    BY <1>2, <2>6, <2>7, <2>9 DEF PlacesInv
  <2>14. A = IF i >= g THEN 1 ELSE 0
    BY <1>8
  <2>15. D = IF t.live[i] # 0 THEN 1 ELSE 0
    BY <1>8
  <2> QED BY ONLY <2>3, <2>4, <2>5, <2>8, <2>10, <2>11, <2>12, <2>13, <2>14, <2>15
<1>9. \A d \in ToSet(t.despawned) : t.live[d] = 0
  BY <1>2 DEF SlotsInv
<1>10. ASSUME NEW i \in InRange
       PROVE  (IF i >= g THEN 1 ELSE 0)
              + Cardinality({n \in DOMAIN q : index(q[n]) = i})
              + Cardinality({e \in Entities : index(e) = i /\ f[e] \in {"early", "waiting"}})
              + (IF t.live[i] # 0 THEN 1 ELSE 0)
              + Cardinality({n \in DOMAIN t.despawned : t.despawned[n] = i}) = 1
  BY <1>8
<1> QED BY <1>1, <1>3, <1>5, <1>9, <1>10 DEF IndicesAccounted, occurrences

-----------------------------------------------------------------------------
(* The theorems *)

\* Every world reached is as the invariant says: its table, its stores and
\* its lanes (worldResource, CommandSink).
THEOREM WorldHolds == Spec => []IInv
<1>1. Init => IInv
  BY InitHolds
<1>2. IInv /\ [Next]_vars => IInv'
  BY NextKeeps
<1> QED BY <1>1, <1>2, PTL DEF Spec

\* Of the entities handed out exactly those still waiting are accepted by a
\* commit, however late, and those alive are just those that came alive and
\* were not despawned since (spawnReserved, burn, despawn).
THEOREM ReservationsHold == Spec => []ReservationsHonoured
<1>1. IInv => ReservationsHonoured
  BY HonouredFrom
<1> QED BY <1>1, WorldHolds, PTL

\* Every index of the allocation range is in exactly one place, whatever was
\* reserved, spawned, taken back or despawned (reserve, settleReservations,
\* despawn, endWindow).
THEOREM IndicesHold == Spec => []IndicesAccounted
<1>1. IInv => IndicesAccounted
  BY AccountedFrom
<1> QED BY <1>1, WorldHolds, PTL

\* Each entity finds, by its index, the value it was last given, and has just
\* the components its mask names (storeResource.add, remove, swap).
THEOREM ValuesHold == Spec => []ValuesKept
<1>1. IInv => ValuesKept
  BY KeptFrom
<1> QED BY <1>1, WorldHolds, PTL

\* The rows a delta query walks tell, once each, exactly how a store differs
\* from what it was at the last end of a window (delta, walkedRows,
\* resetObservation).
THEOREM DeltasHold == Spec => []DeltasExact
<1>1. IInv => DeltasExact
  BY ExactFrom
<1> QED BY <1>1, WorldHolds, PTL

=============================================================================
