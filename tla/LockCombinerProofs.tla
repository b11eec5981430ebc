------------------------- MODULE LockCombinerProofs -------------------------
(***************************************************************************)
(* Proofs about LockCombiner, for every set of goroutines, jobs and        *)
(* resources and every lock sets of the jobs.                              *)
(***************************************************************************)
EXTENDS LockCombiner, FiniteSetTheorems, SequenceTheorems, TLAPS

-----------------------------------------------------------------------------
(* What the queues hold *)

\* A sequence that holds nothing twice.
Distinct(s) == \A m, n \in 1..Len(s) : s[m] = s[n] => m = n

\* An empty queue holds nothing.
LEMMA EntriesEmpty == Entries(<<>>) = {} /\ Distinct(<<>>)
BY DEF Entries, Distinct

\* A queue of jobs holds jobs, and nothing only if it is empty.
LEMMA EntriesType ==
  ASSUME NEW S, NEW s \in Seq(S)
  PROVE  /\ Entries(s) \subseteq S
         /\ Entries(s) = {} <=> s = <<>>
BY EmptySeq, LenProperties DEF Entries

\* Pushing to a queue adds one entry.
LEMMA EntriesAppend ==
  ASSUME NEW S, NEW s \in Seq(S), NEW x \in S
  PROVE  /\ Append(s, x) \in Seq(S)
         /\ Entries(Append(s, x)) = Entries(s) \cup {x}
         /\ Distinct(s) /\ x \notin Entries(s) => Distinct(Append(s, x))
<1>1. /\ Append(s, x) \in Seq(S)
      /\ Len(Append(s, x)) = Len(s) + 1
      /\ \A i \in 1..Len(s) : Append(s, x)[i] = s[i]
      /\ Append(s, x)[Len(s) + 1] = x
      /\ Len(s) \in Nat
  BY AppendProperties, LenProperties
<1>2. 1..(Len(s) + 1) = 1..Len(s) \cup {Len(s) + 1}
  BY <1>1
<1>3. Entries(Append(s, x)) = Entries(s) \cup {x}
  BY <1>1, <1>2 DEF Entries
<1>4. ASSUME Distinct(s), x \notin Entries(s)
      PROVE  Distinct(Append(s, x))
  BY <1>1, <1>2, <1>4 DEF Distinct, Entries
<1> QED BY <1>1, <1>3, <1>4

\* Appending one queue to another joins what they hold.
LEMMA EntriesConcat ==
  ASSUME NEW S, NEW s \in Seq(S), NEW t \in Seq(S)
  PROVE  /\ s \o t \in Seq(S)
         /\ Entries(s \o t) = Entries(s) \cup Entries(t)
         /\ Distinct(s) /\ Distinct(t) /\ Entries(s) \cap Entries(t) = {}
              => Distinct(s \o t)
<1>1. /\ s \o t \in Seq(S)
      /\ Len(s \o t) = Len(s) + Len(t)
      /\ Len(s) \in Nat /\ Len(t) \in Nat
      /\ \A i \in 1..Len(s) + Len(t) :
           (s \o t)[i] = IF i <= Len(s) THEN s[i] ELSE t[i - Len(s)]
  BY ConcatProperties, LenProperties
<1>2. /\ \A i \in 1..Len(s) : (s \o t)[i] = s[i] /\ i \in 1..Len(s \o t)
      /\ \A i \in 1..Len(t) : /\ (s \o t)[i + Len(s)] = t[i]
                              /\ i + Len(s) \in 1..Len(s \o t)
  BY <1>1
<1>3. Entries(s \o t) = Entries(s) \cup Entries(t)
  <2>1. ASSUME NEW i \in 1..Len(s \o t)
        PROVE  (s \o t)[i] \in Entries(s) \cup Entries(t)
    BY <1>1, <2>1 DEF Entries
  <2>2. ASSUME NEW x \in Entries(s) \cup Entries(t)
        PROVE  x \in Entries(s \o t)
    BY <1>2, <2>2 DEF Entries
  <2> QED BY <2>1, <2>2 DEF Entries
<1>4. ASSUME Distinct(s), Distinct(t), Entries(s) \cap Entries(t) = {}
      PROVE  Distinct(s \o t)
  <2> SUFFICES ASSUME NEW m \in 1..Len(s \o t), NEW n \in 1..Len(s \o t),
                      (s \o t)[m] = (s \o t)[n]
               PROVE  m = n
    BY DEF Distinct
  <2>1. CASE m <= Len(s) /\ n <= Len(s)
    BY <1>1, <1>4, <2>1 DEF Distinct
  <2>2. CASE m > Len(s) /\ n > Len(s)
    <3>1. /\ m - Len(s) \in 1..Len(t) /\ n - Len(s) \in 1..Len(t)
          /\ t[m - Len(s)] = t[n - Len(s)]
      BY <1>1, <2>2
    <3> QED BY <1>1, <1>4, <3>1 DEF Distinct
  <2>3. CASE m <= Len(s) /\ n > Len(s)
    <3>1. m \in 1..Len(s) /\ n - Len(s) \in 1..Len(t) /\ s[m] = t[n - Len(s)]
      BY <1>1, <2>3
    <3>2. s[m] \in Entries(s) /\ t[n - Len(s)] \in Entries(t)
      BY <3>1 DEF Entries
    <3> QED BY <1>4, <3>1, <3>2
  <2>4. CASE m > Len(s) /\ n <= Len(s)
    <3>1. n \in 1..Len(s) /\ m - Len(s) \in 1..Len(t) /\ s[n] = t[m - Len(s)]
      BY <1>1, <2>4
    <3>2. s[n] \in Entries(s) /\ t[m - Len(s)] \in Entries(t)
      BY <3>1 DEF Entries
    <3> QED BY <1>4, <3>1, <3>2
  <2> QED BY <1>1, <2>1, <2>2, <2>3, <2>4
<1> QED BY <1>1, <1>3, <1>4

\* Popping from a queue removes the entry popped.
LEMMA EntriesTail ==
  ASSUME NEW S, NEW s \in Seq(S), s # <<>>
  PROVE  /\ Head(s) \in S /\ Tail(s) \in Seq(S)
         /\ Entries(s) = {Head(s)} \cup Entries(Tail(s))
         /\ Distinct(s) => Distinct(Tail(s)) /\ Head(s) \notin Entries(Tail(s))
<1>1. /\ Head(s) \in S /\ Tail(s) \in Seq(S)
      /\ Len(Tail(s)) = Len(s) - 1
      /\ \A i \in 1..Len(Tail(s)) : Tail(s)[i] = s[i + 1]
      /\ Len(s) \in Nat \ {0}
      /\ Head(s) = s[1]
  BY HeadTailProperties, EmptySeq
<1>2. /\ \A i \in 1..Len(Tail(s)) : i + 1 \in 1..Len(s)
      /\ 1 \in 1..Len(s)
      /\ \A i \in 1..Len(s) : i # 1 => i - 1 \in 1..Len(Tail(s)) /\ Tail(s)[i - 1] = s[i]
  BY <1>1
<1>3. Entries(s) = {Head(s)} \cup Entries(Tail(s))
  <2>1. ASSUME NEW i \in 1..Len(s)
        PROVE  s[i] \in {Head(s)} \cup Entries(Tail(s))
    BY <1>1, <1>2, <2>1 DEF Entries
  <2>2. ASSUME NEW x \in {Head(s)} \cup Entries(Tail(s))
        PROVE  x \in Entries(s)
    BY <1>1, <1>2, <2>2 DEF Entries
  <2> QED BY <2>1, <2>2 DEF Entries
<1>4. ASSUME Distinct(s)
      PROVE  Distinct(Tail(s)) /\ Head(s) \notin Entries(Tail(s))
  BY <1>1, <1>2, <1>4 DEF Distinct, Entries
<1> QED BY <1>1, <1>3, <1>4

-----------------------------------------------------------------------------
(* The inductive invariant *)

\* The mutex's owner is the goroutine inside the critical part of combine,
\* and the buffer of drained releases is empty except while it unlocks them.
Ownership ==
  /\ \A g \in Goroutines : pc[g] \in Critical <=> mutex = g
  /\ released # <<>> => \E g \in Goroutines : pc[g] = "unlock"

\* A job is in one place, once: asking in one of the three lists, handed to
\* the runner, or waiting in one of the two to be unlocked.
NothingTwice ==
  /\ Distinct(arrivals) /\ Distinct(waiting) /\ Distinct(kept)
  /\ Distinct(releases) /\ Distinct(released)
  /\ Entries(arrivals) \cap Entries(waiting) = {}
  /\ Entries(arrivals) \cap Entries(kept) = {}
  /\ Entries(waiting) \cap Entries(kept) = {}
  /\ Entries(releases) \cap Entries(released) = {}
  /\ Unreleased \cap ready = {}
  /\ Pending \cap Holders = {}

\* The inductive invariant: types, who owns the mutex, where a job may be, and
\* the lock state that says exactly what is held.
IInv ==
  /\ TypeOK
  /\ Ownership
  /\ NothingTwice
  /\ LockStateExact
  /\ MutualExclusion

-----------------------------------------------------------------------------
(* The lock state *)

\* The holders are jobs, and finitely many read a resource.
LEMMA HoldersType ==
  ASSUME TypeOK
  PROVE  /\ Holders \subseteq Jobs
         /\ \A r : LET R == {j \in Holders : r \in Reads[j]}
                   IN IsFiniteSet(R) /\ Cardinality(R) \in Nat
<1>1. Holders \subseteq Jobs
  BY EntriesType DEF TypeOK, Holders, Unreleased
<1>2. ASSUME NEW r
      PROVE  IsFiniteSet({j \in Holders : r \in Reads[j]})
  BY <1>1, CombinerAssumption, FS_Subset
<1> QED BY <1>1, <1>2, FS_CardinalityType

\* While the lock state stays and what is held stays, nothing changes.
LEMMA SameLocks ==
  ASSUME LockStateExact, MutualExclusion, UNCHANGED lockState,
         Holders' = Holders
  PROVE  LockStateExact' /\ MutualExclusion'
BY DEF LockStateExact, MutualExclusion, lockState, Conflict

\* A job that locks nothing becomes a holder without a change.
LEMMA NothingLocked ==
  ASSUME TypeOK, LockStateExact, MutualExclusion, UNCHANGED lockState,
         NEW j \in Jobs, LocksNothing(j), Holders' = Holders \cup {j}
  PROVE  LockStateExact' /\ MutualExclusion'
<1>1. Reads[j] = {} /\ Writes[j] = {}
  BY DEF LocksNothing
<1>2. /\ UNION {Writes[k] : k \in Holders \cup {j}} = UNION {Writes[k] : k \in Holders}
      /\ UNION {Reads[k] : k \in Holders \cup {j}} = UNION {Reads[k] : k \in Holders}
  BY <1>1
<1>3. ASSUME NEW r \in Resources
      PROVE  {k \in Holders \cup {j} : r \in Reads[k]} = {k \in Holders : r \in Reads[k]}
  BY <1>1
<1>4. LockStateExact'
  BY <1>2, <1>3 DEF LockStateExact, lockState
<1>5. MutualExclusion'
  BY <1>1 DEF MutualExclusion, Conflict
<1> QED BY <1>4, <1>5

\* canLock then lock: a job that may lock becomes a holder, and conflicts with
\* no other.
LEMMA GrantLocks ==
  ASSUME TypeOK, LockStateExact, MutualExclusion,
         NEW j \in Jobs, j \notin Holders, canLock(j), lock(j),
         Holders' = Holders \cup {j}
  PROVE  /\ LockStateExact' /\ MutualExclusion'
         /\ writeHeld' \subseteq Resources /\ readHeld' \subseteq Resources
         /\ readers' \in [Resources -> Nat]
<1>1. /\ writeHeld' = UNION {Writes[k] : k \in Holders'}
      /\ readHeld' = UNION {Reads[k] : k \in Holders'}
  BY DEF LockStateExact, lock
<1>2. ASSUME NEW r \in Resources
      PROVE  readers'[r] = Cardinality({k \in Holders' : r \in Reads[k]})
  <2> DEFINE R == {k \in Holders : r \in Reads[k]}
  <2>1. IsFiniteSet(R) /\ Cardinality(R) \in Nat /\ readers[r] = Cardinality(R)
    BY HoldersType DEF LockStateExact
  <2>2. CASE r \in Reads[j]
    <3>1. {k \in Holders' : r \in Reads[k]} = R \cup {j}
      BY <2>2
    <3>2. Cardinality(R \cup {j}) = Cardinality(R) + 1
      BY <2>1, FS_AddElement
    <3> QED BY <2>1, <2>2, <3>1, <3>2 DEF lock
  <2>3. CASE r \notin Reads[j]
    <3>1. {k \in Holders' : r \in Reads[k]} = R
      BY <2>3
    <3> QED BY <2>1, <2>3, <3>1 DEF lock
  <2> QED BY <2>2, <2>3
<1>3. LockStateExact'
  BY <1>1, <1>2 DEF LockStateExact
<1>4. ASSUME NEW k \in Holders
      PROVE  ~Conflict(j, k) /\ ~Conflict(k, j)
  <2>1. Writes[k] \subseteq writeHeld /\ Reads[k] \subseteq readHeld
    BY DEF LockStateExact
  <2> QED BY <2>1 DEF canLock, Conflict
<1>5. MutualExclusion'
  BY <1>4 DEF MutualExclusion, Conflict
<1>6. /\ writeHeld' \subseteq Resources /\ readHeld' \subseteq Resources
      /\ readers' \in [Resources -> Nat]
  BY CombinerAssumption DEF TypeOK, lock
<1> QED BY <1>3, <1>5, <1>6

\* unlock: a job gives up exactly its own locks.
LEMMA ReleaseLocks ==
  ASSUME TypeOK, LockStateExact, MutualExclusion,
         NEW j \in Holders, unlock(j), Holders' = Holders \ {j}
  PROVE  /\ LockStateExact' /\ MutualExclusion'
         /\ writeHeld' \subseteq Resources /\ readHeld' \subseteq Resources
         /\ readers' \in [Resources -> Nat]
<1>1. j \in Jobs
  BY HoldersType
<1>2. ASSUME NEW k \in Holders, k # j
      PROVE  Writes[k] \cap Writes[j] = {}
  BY <1>2 DEF MutualExclusion, Conflict
<1>3. writeHeld' = UNION {Writes[k] : k \in Holders'}
  BY <1>2 DEF LockStateExact, unlock
<1>4. ASSUME NEW r \in Resources
      PROVE  /\ readers'[r] = Cardinality({k \in Holders' : r \in Reads[k]})
             /\ readers'[r] \in Nat
             /\ r \in Reads[j] =>
                  (readers[r] - 1 = 0 <=> {k \in Holders' : r \in Reads[k]} = {})
  <2> DEFINE R == {k \in Holders : r \in Reads[k]}
  <2>1. IsFiniteSet(R) /\ Cardinality(R) \in Nat /\ readers[r] = Cardinality(R)
    BY HoldersType DEF LockStateExact
  <2>2. CASE r \in Reads[j]
    <3>1. {k \in Holders' : r \in Reads[k]} = R \ {j}
      BY <2>2
    <3>2. /\ IsFiniteSet(R \ {j}) /\ Cardinality(R \ {j}) = Cardinality(R) - 1
          /\ Cardinality(R \ {j}) \in Nat
          /\ Cardinality(R \ {j}) = 0 <=> R \ {j} = {}
      BY <2>1, <2>2, FS_RemoveElement, FS_CardinalityType, FS_EmptySet
    <3> QED BY <2>1, <2>2, <3>1, <3>2 DEF unlock
  <2>3. CASE r \notin Reads[j]
    <3>1. {k \in Holders' : r \in Reads[k]} = R
      BY <2>3
    <3> QED BY <2>1, <2>3, <3>1 DEF unlock
  <2> QED BY <2>2, <2>3
<1>5. readHeld' = UNION {Reads[k] : k \in Holders'}
  <2>1. ASSUME NEW r
        PROVE  r \in readHeld' <=> \E k \in Holders' : r \in Reads[k]
    <3>1. CASE r \in Reads[j]
      <4>1. r \in Resources
        BY <1>1, <3>1, CombinerAssumption
      <4>2. r \in readHeld
        BY <3>1 DEF LockStateExact
      <4> QED BY <1>4, <3>1, <4>1, <4>2 DEF unlock
    <3>2. CASE r \notin Reads[j]
      BY <3>2 DEF LockStateExact, unlock
    <3> QED BY <3>1, <3>2
  <2> QED BY <2>1
<1>6. LockStateExact'
  BY <1>3, <1>4, <1>5 DEF LockStateExact
<1>7. MutualExclusion'
  BY DEF MutualExclusion, Conflict
<1>8. /\ writeHeld' \subseteq Resources /\ readHeld' \subseteq Resources
      /\ readers' \in [Resources -> Nat]
  BY <1>4 DEF TypeOK, unlock
<1> QED BY <1>6, <1>7, <1>8

-----------------------------------------------------------------------------
(* Every step keeps the invariant *)

\* The empty combiner satisfies the invariant.
LEMMA InitIInv ==
  ASSUME Init
  PROVE  IInv
<1>1. /\ Entries(arrivals) = {} /\ Entries(releases) = {}
      /\ Entries(released) = {} /\ Entries(waiting) = {} /\ Entries(kept) = {}
      /\ Distinct(arrivals) /\ Distinct(releases)
      /\ Distinct(released) /\ Distinct(waiting) /\ Distinct(kept)
  BY EntriesEmpty DEF Init
<1>2. Holders = {} /\ Pending = {} /\ Unreleased = {}
  BY <1>1 DEF Init, Holders, Pending, Unreleased
<1>3. TypeOK
  BY EmptySeq DEF Init, TypeOK, Labels
<1>4. Ownership
  BY CombinerAssumption DEF Init, Ownership, Critical
<1>5. NothingTwice
  BY <1>1, <1>2 DEF NothingTwice
<1>6. LockStateExact
  <2>1. \A r : {j \in Holders : r \in Reads[j]} = {}
    BY <1>2
  <2> QED BY <1>2, <2>1, FS_EmptySet DEF Init, LockStateExact
<1>7. MutualExclusion
  BY <1>2 DEF MutualExclusion
<1> QED BY <1>3, <1>4, <1>5, <1>6, <1>7 DEF IInv

\* What a step leaves alone.
LEMMA StutterIInv ==
  ASSUME IInv, UNCHANGED vars
  PROVE  IInv' /\ UNCHANGED <<Pending, ready>>
<1> USE DEF vars, queues, pass, lockState
<1>1. /\ Holders' = Holders /\ Pending' = Pending /\ Unreleased' = Unreleased
  BY DEF Holders, Pending, Unreleased
<1>2. TypeOK' /\ Ownership'
  BY DEF IInv, TypeOK, Ownership
<1>3. NothingTwice'
  BY <1>1 DEF IInv, NothingTwice
<1>4. LockStateExact' /\ MutualExclusion'
  BY <1>1, SameLocks DEF IInv
<1> QED BY <1>1, <1>2, <1>3, <1>4 DEF IInv

\* arrive keeps it: a job that locks nothing is handed over, any other is
\* queued once and holds nothing yet.
LEMMA ArriveIInv ==
  ASSUME IInv, NEW g \in Goroutines, NEW j \in Jobs, Arrive(g, j)
  PROVE  /\ IInv'
         /\ Pending' = IF LocksNothing(j) THEN Pending ELSE Pending \cup {j}
<1> USE DEF IInv, queues, pass, lockState
<1>1. CASE LocksNothing(j)
  <2>1. /\ ready' = ready \cup {j}
        /\ UNCHANGED <<arrivals, pc, ahead, releases, mutex, pass, lockState>>
    BY <1>1 DEF Arrive
  <2>2. /\ Pending' = Pending /\ Unreleased' = Unreleased
        /\ Holders' = Holders \cup {j}
        /\ j \notin Pending \cup Unreleased \cup ready
    BY <2>1 DEF Pending, Unreleased, Holders, Arrive
  <2>3. TypeOK' /\ Ownership'
    BY <2>1 DEF TypeOK, Ownership
  <2>4. NothingTwice'
    BY <2>1, <2>2 DEF NothingTwice
  <2>5. LockStateExact' /\ MutualExclusion'
    BY <1>1, <2>1, <2>2, NothingLocked
  <2> QED BY <1>1, <2>2, <2>3, <2>4, <2>5
<1>2. CASE ~LocksNothing(j)
  <2>1. /\ pc[g] = "idle"
        /\ arrivals' = Append(arrivals, j)
        /\ ahead' = [ahead EXCEPT ![j] = Pending]
        /\ pc' = [pc EXCEPT ![g] = "tryLock"]
        /\ UNCHANGED <<ready, releases, mutex, pass, lockState>>
        /\ j \notin Pending \cup Unreleased \cup ready
    BY <1>2 DEF Arrive, goto
  <2>2. /\ arrivals' \in Seq(Jobs)
        /\ Entries(arrivals') = Entries(arrivals) \cup {j}
        /\ Distinct(arrivals')
    BY <2>1, EntriesAppend DEF TypeOK, NothingTwice, Pending
  <2>3. /\ Pending' = Pending \cup {j} /\ Unreleased' = Unreleased
        /\ Holders' = Holders
    BY <2>1, <2>2 DEF Pending, Unreleased, Holders
  <2>4. Pending \subseteq Jobs
    BY EntriesType DEF TypeOK, Pending
  <2>5. TypeOK'
    BY <2>1, <2>2, <2>4 DEF TypeOK, Labels
  <2>6. Ownership'
    BY <2>1 DEF TypeOK, Ownership, Critical
  <2>7. NothingTwice'
    BY <2>1, <2>2, <2>3 DEF NothingTwice, Pending, Holders
  <2>8. LockStateExact' /\ MutualExclusion'
    BY <2>1, <2>3, SameLocks
  <2> QED BY <1>2, <2>3, <2>5, <2>6, <2>7, <2>8
<1> QED BY <1>1, <1>2

\* release keeps it: a finished job holds its locks until its release is
\* unlocked.
LEMMA ReleaseIInv ==
  ASSUME IInv, NEW g \in Goroutines, NEW j \in Jobs, Release(g, j)
  PROVE  IInv' /\ UNCHANGED Pending
<1> USE DEF IInv, queues, pass, lockState
<1>1. CASE LocksNothing(j)
  <2>1. /\ ready' = ready \ {j} /\ j \in ready
        /\ UNCHANGED <<releases, pc, arrivals, mutex, pass, lockState, ahead>>
    BY <1>1 DEF Release
  <2>2. /\ Pending' = Pending /\ Unreleased' = Unreleased
        /\ j \notin Unreleased
    BY <2>1 DEF Pending, Unreleased, NothingTwice
  <2>3. Holders' = Holders \ {j}
    BY <2>1, <2>2 DEF Holders
  <2>4. TypeOK' /\ Ownership'
    BY <2>1 DEF TypeOK, Ownership
  <2>5. NothingTwice'
    BY <2>1, <2>2, <2>3 DEF NothingTwice
  <2>6. Reads[j] = {} /\ Writes[j] = {}
    BY <1>1 DEF LocksNothing
  <2>7. /\ UNION {Writes[k] : k \in Holders'} = UNION {Writes[k] : k \in Holders}
        /\ UNION {Reads[k] : k \in Holders'} = UNION {Reads[k] : k \in Holders}
        /\ \A r : {k \in Holders' : r \in Reads[k]} = {k \in Holders : r \in Reads[k]}
    BY <2>3, <2>6
  <2>8. LockStateExact'
    BY <2>1, <2>7 DEF LockStateExact
  <2>9. MutualExclusion'
    BY <2>3 DEF MutualExclusion, Conflict
  <2> QED BY <2>2, <2>4, <2>5, <2>8, <2>9
<1>2. CASE ~LocksNothing(j)
  <2>1. /\ pc[g] = "idle"
        /\ ready' = ready \ {j} /\ j \in ready
        /\ releases' = Append(releases, j)
        /\ pc' = [pc EXCEPT ![g] = "tryLock"]
        /\ UNCHANGED <<arrivals, mutex, pass, lockState, ahead>>
    BY <1>2 DEF Release, goto
  <2>2. j \notin Unreleased
    BY <2>1 DEF NothingTwice
  <2>3. /\ releases' \in Seq(Jobs)
        /\ Entries(releases') = Entries(releases) \cup {j}
        /\ Distinct(releases')
    BY <2>1, <2>2, EntriesAppend DEF TypeOK, NothingTwice, Unreleased
  <2>4. /\ Pending' = Pending /\ Unreleased' = Unreleased \cup {j}
        /\ Holders' = Holders
    BY <2>1, <2>3 DEF Pending, Unreleased, Holders
  <2>5. TypeOK'
    BY <2>1, <2>3 DEF TypeOK, Labels
  <2>6. Ownership'
    BY <2>1 DEF TypeOK, Ownership, Critical
  <2>7. NothingTwice'
    BY <2>1, <2>2, <2>3, <2>4 DEF NothingTwice, Unreleased
  <2>8. LockStateExact' /\ MutualExclusion'
    BY <2>1, <2>4, SameLocks
  <2> QED BY <2>4, <2>5, <2>6, <2>7, <2>8
<1> QED BY <1>1, <1>2

\* A step that changes only where goroutines are, and who owns the mutex.
LEMMA ControlIInv ==
  ASSUME IInv, TypeOK', Ownership',
         UNCHANGED <<queues, pass, lockState, ready>>
  PROVE  IInv' /\ UNCHANGED <<Pending, ready>>
<1> USE DEF IInv, queues, pass, lockState
<1>1. Pending' = Pending /\ Unreleased' = Unreleased /\ Holders' = Holders
  BY DEF Pending, Unreleased, Holders
<1>2. NothingTwice'
  BY <1>1 DEF NothingTwice
<1>3. LockStateExact' /\ MutualExclusion'
  BY <1>1, SameLocks
<1> QED BY <1>1, <1>2, <1>3

\* TryLock keeps it: only a free mutex gets an owner.
LEMMA TryLockIInv ==
  ASSUME IInv, NEW g \in Goroutines, TryLock(g)
  PROVE  IInv' /\ UNCHANGED <<Pending, ready>>
<1> USE DEF IInv, queues, pass, lockState
<1>1. TypeOK'
  BY DEF TryLock, TypeOK, Labels, Critical, goto
<1>2. Ownership'
  <2>1. released = <<>> \/ mutex # NoGoroutine
    BY CombinerAssumption DEF Ownership, Critical
  <2>2. CASE mutex = NoGoroutine
    <3>1. mutex' = g /\ pc' = [pc EXCEPT ![g] = "drainReleases"] /\ released' = <<>>
      BY <2>1, <2>2 DEF TryLock, goto
    <3> QED BY <2>2, <3>1, CombinerAssumption DEF TypeOK, Ownership, Critical
  <2>3. CASE mutex # NoGoroutine
    <3>1. /\ pc[g] = "tryLock" /\ pc' = [pc EXCEPT ![g] = "idle"]
          /\ UNCHANGED <<mutex, released>>
      BY <2>3 DEF TryLock, goto
    <3> QED BY <3>1 DEF TypeOK, Ownership, Critical
  <2> QED BY <2>2, <2>3
<1> QED BY <1>1, <1>2, ControlIInv DEF TryLock

\* The looks after the unlock (combine) keep it.
LEMMA LookIInv ==
  ASSUME IInv, NEW g \in Goroutines, LookReleases(g) \/ LookArrivals(g)
  PROVE  IInv' /\ UNCHANGED <<Pending, ready>>
<1> USE DEF IInv, queues, pass, lockState
<1>1. /\ pc[g] \in {"lookReleases", "lookArrivals"}
      /\ \E l \in {"idle", "tryLock", "lookArrivals"} : pc' = [pc EXCEPT ![g] = l]
      /\ UNCHANGED <<queues, mutex, pass, lockState, ready, ahead>>
  BY DEF LookReleases, LookArrivals, goto
<1>2. TypeOK'
  BY <1>1 DEF TypeOK, Labels
<1>3. Ownership'
  BY <1>1 DEF TypeOK, Ownership, Critical
<1> QED BY <1>1, <1>2, <1>3, ControlIInv

\* Draining the releases keeps it: the buffer holds what the queue held.
LEMMA DrainReleasesIInv ==
  ASSUME IInv, NEW g \in Goroutines, DrainReleases(g)
  PROVE  IInv' /\ UNCHANGED <<Pending, ready>>
<1> USE DEF IInv, queues, pass, lockState
<1>1. /\ pc[g] = "drainReleases" /\ pc' = [pc EXCEPT ![g] = "unlock"]
      /\ released' = releases /\ releases' = <<>>
      /\ UNCHANGED <<arrivals, mutex, waiting, kept, lockState, ready, ahead>>
  BY DEF DrainReleases, goto
<1>2. released = <<>>
  BY <1>1 DEF Ownership, Critical
<1>3. Entries(released) = {} /\ Entries(releases') = {} /\ Distinct(releases')
  BY <1>1, <1>2, EntriesEmpty
<1>4. Pending' = Pending /\ Unreleased' = Unreleased /\ Holders' = Holders
  BY <1>1, <1>3 DEF Pending, Unreleased, Holders
<1>5. TypeOK'
  BY <1>1, EmptySeq DEF TypeOK, Labels, Critical
<1>6. Ownership'
  BY <1>1 DEF TypeOK, Ownership, Critical
<1>7. NothingTwice'
  BY <1>1, <1>3, <1>4 DEF NothingTwice
<1>8. LockStateExact' /\ MutualExclusion'
  BY <1>1, <1>4, SameLocks
<1> QED BY <1>1, <1>4, <1>5, <1>6, <1>7, <1>8

\* Unlocking a drained release keeps it (lockState.unlock).
LEMMA UnlockNextIInv ==
  ASSUME IInv, NEW g \in Goroutines, UnlockNext(g)
  PROVE  IInv' /\ UNCHANGED <<Pending, ready>>
<1> USE DEF IInv, queues, pass
<1> DEFINE j == Head(released)
<1>1. /\ pc[g] = "unlock" /\ released # <<>> /\ unlock(j)
      /\ released' = Tail(released)
      /\ UNCHANGED <<queues, mutex, waiting, kept, reserved, ready, pc, ahead>>
  BY DEF UnlockNext
<1>2. /\ j \in Jobs /\ released' \in Seq(Jobs)
      /\ Entries(released) = {j} \cup Entries(released')
      /\ Distinct(released') /\ j \notin Entries(released')
  BY <1>1, EntriesTail DEF TypeOK, NothingTwice
<1>3. /\ j \in Holders /\ Pending' = Pending
      /\ Unreleased' = Unreleased \ {j} /\ Holders' = Holders \ {j}
  BY <1>1, <1>2 DEF Pending, Unreleased, Holders, NothingTwice
<1>4. /\ LockStateExact' /\ MutualExclusion'
      /\ writeHeld' \subseteq Resources /\ readHeld' \subseteq Resources
      /\ readers' \in [Resources -> Nat]
  BY <1>1, <1>3, ReleaseLocks
<1>5. TypeOK'
  BY <1>1, <1>2, <1>4 DEF TypeOK
<1>6. Ownership'
  BY <1>1 DEF Ownership
<1>7. NothingTwice'
  BY <1>1, <1>2, <1>3 DEF NothingTwice
<1> QED BY <1>1, <1>3, <1>4, <1>5, <1>6, <1>7

\* Draining the arrivals keeps it: they go behind the waiting jobs.
LEMMA DrainArrivalsIInv ==
  ASSUME IInv, NEW g \in Goroutines, DrainArrivals(g)
  PROVE  IInv' /\ UNCHANGED <<Pending, ready>>
<1> USE DEF IInv, queues, pass
<1>1. /\ pc[g] = "unlock" /\ released = <<>>
      /\ waiting' = waiting \o arrivals /\ arrivals' = <<>> /\ reserved' = {}
      /\ pc' = [pc EXCEPT ![g] = "scan"]
      /\ UNCHANGED <<releases, mutex, released, kept, writeHeld, readHeld,
                     readers, ready, ahead>>
  BY DEF DrainArrivals, clearReservations, goto
<1>2. /\ waiting' \in Seq(Jobs)
      /\ Entries(waiting') = Entries(waiting) \cup Entries(arrivals)
      /\ Distinct(waiting')
      /\ Entries(arrivals') = {} /\ Distinct(arrivals')
  BY <1>1, EntriesConcat, EntriesEmpty DEF TypeOK, NothingTwice
<1>3. Pending' = Pending /\ Unreleased' = Unreleased /\ Holders' = Holders
  BY <1>1, <1>2 DEF Pending, Unreleased, Holders
<1>4. TypeOK'
  BY <1>1, <1>2, EmptySeq DEF TypeOK, Labels, Critical
<1>5. Ownership'
  BY <1>1 DEF TypeOK, Ownership, Critical
<1>6. NothingTwice'
  BY <1>1, <1>2, <1>3 DEF NothingTwice
<1>7. LockStateExact' /\ MutualExclusion'
  BY <1>1, <1>3 DEF LockStateExact, MutualExclusion, Conflict
<1> QED BY <1>1, <1>3, <1>4, <1>5, <1>6, <1>7

\* Granting the oldest request of a pass keeps it (canLock, then lock).
LEMMA GrantNextIInv ==
  ASSUME IInv, NEW g \in Goroutines, GrantNext(g)
  PROVE  /\ IInv'
         /\ Head(waiting) \in Pending
         /\ Pending' = Pending \ {Head(waiting)}
<1> USE DEF IInv, queues, pass
<1> DEFINE j == Head(waiting)
<1>1. /\ waiting # <<>> /\ canLock(j) /\ lock(j)
      /\ ready' = ready \cup {j}
      /\ ahead' = [k \in Jobs |-> IF k = j THEN {} ELSE ahead[k] \ {j}]
      /\ waiting' = Tail(waiting)
      /\ UNCHANGED <<queues, mutex, released, kept, reserved, pc>>
  BY DEF GrantNext
<1>2. /\ j \in Jobs /\ waiting' \in Seq(Jobs)
      /\ Entries(waiting) = {j} \cup Entries(waiting')
      /\ Distinct(waiting') /\ j \notin Entries(waiting')
  BY <1>1, EntriesTail DEF TypeOK, NothingTwice
<1>3. /\ j \notin Holders /\ j \in Pending
      /\ Pending' = Pending \ {j} /\ Unreleased' = Unreleased
      /\ Holders' = Holders \cup {j}
  BY <1>1, <1>2 DEF Pending, Unreleased, Holders, NothingTwice
<1>4. /\ LockStateExact' /\ MutualExclusion'
      /\ writeHeld' \subseteq Resources /\ readHeld' \subseteq Resources
      /\ readers' \in [Resources -> Nat]
  BY <1>1, <1>2, <1>3, GrantLocks
<1>5. TypeOK'
  BY <1>1, <1>2, <1>4 DEF TypeOK
<1>6. Ownership'
  BY <1>1 DEF Ownership
<1>7. NothingTwice'
  BY <1>1, <1>2, <1>3 DEF NothingTwice, Holders
<1> QED BY <1>3, <1>4, <1>5, <1>6, <1>7

\* Keeping a request waiting keeps it (lockState.reserve).
LEMMA KeepNextIInv ==
  ASSUME IInv, NEW g \in Goroutines, KeepNext(g)
  PROVE  IInv' /\ UNCHANGED <<Pending, ready>>
<1> USE DEF IInv, queues, pass
<1> DEFINE j == Head(waiting)
<1>1. /\ waiting # <<>>
      /\ reserved' = reserved \cup Writes[j]
      /\ kept' = Append(kept, j) /\ waiting' = Tail(waiting)
      /\ UNCHANGED <<queues, mutex, released, writeHeld, readHeld, readers,
                     ready, pc, ahead>>
  BY DEF KeepNext, reserve
<1>2. /\ j \in Jobs /\ waiting' \in Seq(Jobs)
      /\ Entries(waiting) = {j} \cup Entries(waiting')
      /\ Distinct(waiting') /\ j \notin Entries(waiting')
  BY <1>1, EntriesTail DEF TypeOK, NothingTwice
<1>3. /\ kept' \in Seq(Jobs) /\ Entries(kept') = Entries(kept) \cup {j}
      /\ Distinct(kept')
  BY <1>1, <1>2, EntriesAppend DEF TypeOK, NothingTwice
<1>4. Pending' = Pending /\ Unreleased' = Unreleased /\ Holders' = Holders
  BY <1>1, <1>2, <1>3 DEF Pending, Unreleased, Holders
<1>5. TypeOK'
  BY <1>1, <1>2, <1>3, CombinerAssumption DEF TypeOK
<1>6. Ownership'
  BY <1>1 DEF Ownership
<1>7. NothingTwice'
  BY <1>1, <1>2, <1>3, <1>4 DEF NothingTwice
<1>8. LockStateExact' /\ MutualExclusion'
  BY <1>1, <1>4 DEF LockStateExact, MutualExclusion, Conflict
<1> QED BY <1>1, <1>4, <1>5, <1>6, <1>7, <1>8

\* Leaving the mutex keeps it: what the pass kept is what waits.
LEMMA UnlockIInv ==
  ASSUME IInv, NEW g \in Goroutines, Unlock(g)
  PROVE  IInv' /\ UNCHANGED <<Pending, ready>>
<1> USE DEF IInv, queues, pass
<1>1. /\ pc[g] = "scan" /\ waiting = <<>>
      /\ waiting' = kept /\ kept' = <<>> /\ mutex' = NoGoroutine
      /\ pc' = [pc EXCEPT ![g] = "lookReleases"]
      /\ UNCHANGED <<queues, released, lockState, ready, ahead>>
  BY DEF Unlock, goto
<1>2. Entries(waiting) = {} /\ Entries(kept') = {} /\ Distinct(kept')
  BY <1>1, EntriesEmpty
<1>3. Pending' = Pending /\ Unreleased' = Unreleased /\ Holders' = Holders
  BY <1>1, <1>2 DEF Pending, Unreleased, Holders
<1>4. TypeOK'
  BY <1>1, EmptySeq DEF TypeOK, Labels, lockState
<1>5. Ownership'
  BY <1>1, CombinerAssumption DEF TypeOK, Ownership, Critical
<1>6. NothingTwice'
  BY <1>1, <1>2, <1>3 DEF NothingTwice
<1>7. LockStateExact' /\ MutualExclusion'
  BY <1>1, <1>3, SameLocks
<1> QED BY <1>1, <1>3, <1>4, <1>5, <1>6, <1>7

\* Every step of the combiner keeps the invariant.
LEMMA NextIInv ==
  ASSUME IInv, [Next]_vars
  PROVE  IInv'
<1>1. ASSUME NEW g \in Goroutines, combine(g)
      PROVE  IInv'
  BY <1>1, TryLockIInv, DrainReleasesIInv, UnlockNextIInv, DrainArrivalsIInv,
     GrantNextIInv, KeepNextIInv, UnlockIInv, LookIInv DEF combine
<1> QED BY <1>1, ArriveIInv, ReleaseIInv, StutterIInv DEF Next

\* IInv holds in every reachable state.
THEOREM Invariance == Spec => []IInv
<1>1. Init => IInv
  BY InitIInv
<1>2. IInv /\ [Next]_vars => IInv'
  BY NextIInv
<1> QED BY <1>1, <1>2, PTL DEF Spec

\* Every variable keeps its type: in particular a reader count never drops
\* below zero, however arrivals and releases interleave (lockState.unlock).
THEOREM TypeCorrect == Spec => []TypeOK
<1>1. IInv => TypeOK
  BY DEF IInv
<1> QED BY <1>1, Invariance, PTL

\* Two jobs whose locks conflict are never both handed to the runner
\* (lockState.canLock under the combiner).
THEOREM Exclusive == Spec => []MutualExclusion
<1>1. IInv => MutualExclusion
  BY DEF IInv
<1> QED BY <1>1, Invariance, PTL

\* The lock state shows exactly the locks of the jobs that hold some
\* (lockState.lock and unlock).
THEOREM LockStateIsExact == Spec => []LockStateExact
<1>1. IInv => LockStateExact
  BY DEF IInv
<1> QED BY <1>1, Invariance, PTL

-----------------------------------------------------------------------------
(* Nothing queued is left behind *)

\* The mutex's owner is inside the critical part.
LEMMA OwnerIsCritical ==
  ASSUME IInv, mutex # NoGoroutine
  PROVE  mutex \in Goroutines /\ pc[mutex] \in Critical
BY DEF IInv, TypeOK, Ownership

\* Every step keeps someone looking at each queue that is not empty: who
\* queues goes on to TryLock, who fails there leaves it to the mutex's owner,
\* and who unlocks looks again (combine).
LEMMA NextNoRequestLeftBehind ==
  ASSUME IInv, NoRequestLeftBehind, [Next]_vars
  PROVE  NoRequestLeftBehind'
<1> USE DEF IInv, TypeOK, Labels, Critical, queues
<1>1. ASSUME NEW g \in Goroutines, NEW j \in Jobs, Arrive(g, j) \/ Release(g, j)
      PROVE  NoRequestLeftBehind'
  <2>1. /\ pc[g] = "idle"
        /\ \/ UNCHANGED <<arrivals, releases, pc>>
           \/ pc' = [pc EXCEPT ![g] = "tryLock"]
    BY <1>1 DEF Arrive, Release, goto
  <2>2. CASE UNCHANGED <<arrivals, releases, pc>>
    BY <2>2 DEF NoRequestLeftBehind
  <2>3. CASE pc' = [pc EXCEPT ![g] = "tryLock"]
    <3>1. pc'[g] = "tryLock"
      BY <2>3
    <3> QED BY <3>1 DEF NoRequestLeftBehind
  <2> QED BY <2>1, <2>2, <2>3
<1>2. ASSUME NEW g \in Goroutines, TryLock(g)
      PROVE  NoRequestLeftBehind'
  <2>1. CASE mutex = NoGoroutine
    <3>1. pc'[g] = "drainReleases"
      BY <1>2, <2>1 DEF TryLock, goto
    <3> QED BY <3>1 DEF NoRequestLeftBehind
  <2>2. CASE mutex # NoGoroutine
    <3>1. mutex \in Goroutines /\ pc[mutex] \in Critical
      BY <2>2, OwnerIsCritical
    <3>2. pc[g] = "tryLock" /\ pc' = [pc EXCEPT ![g] = "idle"]
      BY <1>2, <2>2 DEF TryLock, goto
    <3>3. pc'[mutex] \in Critical
      BY <3>1, <3>2
    <3> QED BY <3>1, <3>3 DEF NoRequestLeftBehind
  <2> QED BY <2>1, <2>2
<1>3. ASSUME NEW g \in Goroutines,
             \/ DrainReleases(g) \/ UnlockNext(g) \/ DrainArrivals(g)
             \/ GrantNext(g) \/ KeepNext(g) \/ Unlock(g)
      PROVE  NoRequestLeftBehind'
  <2>1. pc'[g] \in Critical \cup {"lookReleases"}
    BY <1>3 DEF DrainReleases, UnlockNext, DrainArrivals, GrantNext, KeepNext,
                Unlock, goto
  <2> QED BY <2>1 DEF NoRequestLeftBehind
<1>4. ASSUME NEW g \in Goroutines, LookReleases(g)
      PROVE  NoRequestLeftBehind'
  <2>1. /\ UNCHANGED <<releases, arrivals>>
        /\ pc'[g] = IF releases = <<>> THEN "lookArrivals" ELSE "tryLock"
    BY <1>4 DEF LookReleases, goto
  <2> QED BY <2>1 DEF NoRequestLeftBehind
<1>5. ASSUME NEW g \in Goroutines, LookArrivals(g)
      PROVE  NoRequestLeftBehind'
  <2>1. /\ UNCHANGED <<releases, arrivals>>
        /\ pc[g] = "lookArrivals"
        /\ pc' = [pc EXCEPT ![g] = IF arrivals = <<>> THEN "idle" ELSE "tryLock"]
    BY <1>5 DEF LookArrivals, goto
  <2>2. ASSUME releases # <<>>
        PROVE  \E h \in Goroutines :
                 pc'[h] \in Critical \cup {"tryLock", "lookReleases"}
    <3>1. PICK h \in Goroutines :
            pc[h] \in Critical \cup {"tryLock", "lookReleases"}
      BY <2>2 DEF NoRequestLeftBehind
    <3> QED BY <2>1, <3>1
  <2>3. arrivals # <<>> => pc'[g] # "idle"
    BY <2>1
  <2> QED BY <2>1, <2>2, <2>3 DEF NoRequestLeftBehind
<1>6. CASE UNCHANGED vars
  BY <1>6 DEF vars, NoRequestLeftBehind
<1> QED BY <1>1, <1>2, <1>3, <1>4, <1>5, <1>6 DEF Next, combine

\* A queued request is never left without a goroutine that will look at its
\* queue, whichever goroutines fail to become combiner (lockCombiner.combine).
THEOREM NothingLeftBehind == Spec => []NoRequestLeftBehind
<1>1. Init => NoRequestLeftBehind
  BY DEF Init, NoRequestLeftBehind
<1>2. IInv /\ NoRequestLeftBehind /\ [Next]_vars => NoRequestLeftBehind'
  BY NextNoRequestLeftBehind
<1> QED BY <1>1, <1>2, Invariance, PTL DEF Spec

-----------------------------------------------------------------------------
(* The combiner implements ResourceLocks *)

\* Every step asks, grants or gives back, or leaves the abstract state alone.
LEMMA StepImplements ==
  ASSUME IInv, [Next]_vars
  PROVE  [Locks!Next]_(Locks!vars)
<1>1. ASSUME NEW g \in Goroutines, NEW j \in Jobs, Arrive(g, j)
      PROVE  Locks!Ask(j) \/ Locks!GrantAtOnce(j)
  BY <1>1, ArriveIInv
     DEF Arrive, LocksNothing, Locks!Ask, Locks!GrantAtOnce, Locks!Touches
<1>2. ASSUME NEW g \in Goroutines, NEW j \in Jobs, Release(g, j)
      PROVE  Locks!GiveBack(j)
  BY <1>2, ReleaseIInv DEF Release, Locks!GiveBack
<1>3. ASSUME NEW g \in Goroutines, GrantNext(g)
      PROVE  Locks!Grant(Head(waiting)) /\ Head(waiting) \in Jobs
  <2> DEFINE j == Head(waiting)
  <2>1. /\ MutualExclusion' /\ j \in Pending /\ Pending' = Pending \ {j}
        /\ ready' = ready \cup {j}
    BY <1>3, GrantNextIInv DEF IInv, GrantNext
  <2>2. j \in Jobs
    BY <2>1, EntriesType DEF IInv, TypeOK, Pending
  <2>3. ASSUME NEW k \in ready
        PROVE  ~Locks!Conflict(j, k)
    <3>1. j # k
      BY <2>1 DEF IInv, NothingTwice, Holders
    <3>2. j \in Holders' /\ k \in Holders'
      BY <2>1 DEF Holders
    <3> QED BY <2>1, <3>1, <3>2
            DEF MutualExclusion, Conflict, Locks!Conflict, Locks!Touches
  <2> QED BY <2>1, <2>2, <2>3 DEF Locks!Grant
<1>4. ASSUME NEW g \in Goroutines, combine(g), ~GrantNext(g)
      PROVE  UNCHANGED <<Pending, ready>>
  BY <1>4, TryLockIInv, DrainReleasesIInv, UnlockNextIInv, DrainArrivalsIInv,
     KeepNextIInv, UnlockIInv, LookIInv DEF combine
<1>5. CASE UNCHANGED vars
  BY <1>5, StutterIInv DEF Locks!vars
<1> QED BY <1>1, <1>2, <1>3, <1>4, <1>5 DEF Next, Locks!Next, Locks!vars

\* Every behaviour of the combiner is one of the abstract lock service: jobs
\* ask, are granted all their locks at once while nothing that holds its locks
\* conflicts, and give them back (Kernel's promise in TaskBody).
THEOREM Implementation == Spec => ImplementsResourceLocks
<1>1. Init => Locks!Init
  BY EntriesEmpty DEF Init, Locks!Init, Pending
<1>2. IInv /\ [Next]_vars => [Locks!Next]_(Locks!vars)
  BY StepImplements
<1> QED BY <1>1, <1>2, Invariance, PTL DEF Spec, ImplementsResourceLocks, Locks!Spec

-----------------------------------------------------------------------------
(* No job overtakes a waiting writer *)

\* Each job of s has ahead of it only jobs of base and jobs before it in s.
Ordered(f, s, base) ==
  \A n \in 1..Len(s) : f[s[n]] \subseteq base \cup {s[m] : m \in 1..(n - 1)}

\* What is ahead of a job stands before it in the line of the jobs kept by the
\* running pass, those it has not looked at and those not drained yet; and a
\* pass has reserved what the jobs it kept write.
LineOrdered ==
  /\ Ordered(ahead, kept, {})
  /\ Ordered(ahead, waiting, Entries(kept))
  /\ Ordered(ahead, arrivals, Entries(kept) \cup Entries(waiting))
  /\ \A j \in Entries(kept) : Writes[j] \subseteq reserved
  /\ kept # <<>> => \E g \in Goroutines : pc[g] = "scan"

\* An empty queue is in order.
LEMMA OrderedEmpty ==
  ASSUME NEW f, NEW B
  PROVE  Ordered(f, <<>>, B)
BY DEF Ordered

\* Pushing a job that has only what stands in line ahead keeps the order
\* (arrive).
LEMMA OrderedAppend ==
  ASSUME NEW S, NEW f, NEW B, NEW s \in Seq(S), NEW x \in S,
         Ordered(f, s, B), f[x] \subseteq B \cup Entries(s)
  PROVE  Ordered(f, Append(s, x), B)
<1>1. /\ Len(Append(s, x)) = Len(s) + 1
      /\ \A i \in 1..Len(s) : Append(s, x)[i] = s[i]
      /\ Append(s, x)[Len(s) + 1] = x
      /\ Len(s) \in Nat
  BY AppendProperties, LenProperties
<1> SUFFICES ASSUME NEW n \in 1..(Len(s) + 1), NEW y \in f[Append(s, x)[n]],
                    y \notin B
             PROVE  \E m \in 1..(n - 1) : Append(s, x)[m] = y
  BY <1>1 DEF Ordered
<1>2. CASE n = Len(s) + 1
  BY <1>1, <1>2 DEF Entries
<1>3. CASE n \in 1..Len(s)
  <2>1. PICK m \in 1..(n - 1) : s[m] = y
    BY <1>1, <1>3 DEF Ordered
  <2>2. m \in 1..Len(s)
    BY <1>1, <1>3, <2>1
  <2> QED BY <1>1, <2>1, <2>2
<1> QED BY <1>1, <1>2, <1>3

\* Two queues in order, one behind the other, are one (draining arrivals).
LEMMA OrderedConcat ==
  ASSUME NEW S, NEW f, NEW B, NEW s \in Seq(S), NEW t \in Seq(S),
         Ordered(f, s, B), Ordered(f, t, B \cup Entries(s))
  PROVE  Ordered(f, s \o t, B)
<1>1. /\ Len(s \o t) = Len(s) + Len(t)
      /\ Len(s) \in Nat /\ Len(t) \in Nat
      /\ \A i \in 1..Len(s) + Len(t) :
           (s \o t)[i] = IF i <= Len(s) THEN s[i] ELSE t[i - Len(s)]
  BY ConcatProperties, LenProperties
<1> SUFFICES ASSUME NEW n \in 1..Len(s \o t), NEW y \in f[(s \o t)[n]],
                    y \notin B
             PROVE  \E m \in 1..(n - 1) : (s \o t)[m] = y
  BY DEF Ordered
<1>2. CASE n <= Len(s)
  <2>1. n \in 1..Len(s) /\ (s \o t)[n] = s[n]
    BY <1>1, <1>2
  <2>2. PICK m \in 1..(n - 1) : s[m] = y
    BY <2>1 DEF Ordered
  <2>3. m \in 1..Len(s) + Len(t) /\ m <= Len(s)
    BY <1>1, <1>2, <2>2
  <2> QED BY <1>1, <2>2, <2>3
<1>3. CASE n > Len(s)
  <2>1. n - Len(s) \in 1..Len(t) /\ (s \o t)[n] = t[n - Len(s)]
    BY <1>1, <1>3
  <2>2. CASE y \in Entries(s)
    <3>1. PICK m \in 1..Len(s) : s[m] = y
      BY <2>2 DEF Entries
    <3>2. m \in 1..Len(s) + Len(t) /\ m <= Len(s) /\ m \in 1..(n - 1)
      BY <1>1, <1>3, <3>1
    <3> QED BY <1>1, <3>1, <3>2
  <2>3. CASE y \notin Entries(s)
    <3>1. PICK m \in 1..(n - Len(s) - 1) : t[m] = y
      BY <2>1, <2>3 DEF Ordered
    <3>2. /\ m + Len(s) \in 1..Len(s) + Len(t) /\ m + Len(s) \in 1..(n - 1)
          /\ ~(m + Len(s) <= Len(s)) /\ (m + Len(s)) - Len(s) = m
      BY <1>1, <1>3, <3>1
    <3> QED BY <1>1, <3>1, <3>2
  <2> QED BY <2>2, <2>3
<1> QED BY <1>1, <1>2, <1>3

\* Popping keeps the order (a pass over the waiting jobs).
LEMMA OrderedTail ==
  ASSUME NEW S, NEW f, NEW B, NEW s \in Seq(S), s # <<>>, Ordered(f, s, B)
  PROVE  /\ f[Head(s)] \subseteq B
         /\ Ordered(f, Tail(s), B \cup {Head(s)})
<1>1. /\ Len(Tail(s)) = Len(s) - 1
      /\ \A i \in 1..Len(Tail(s)) : Tail(s)[i] = s[i + 1]
      /\ Len(s) \in Nat \ {0}
      /\ Head(s) = s[1]
  BY HeadTailProperties, EmptySeq
<1>2. f[Head(s)] \subseteq B
  BY <1>1 DEF Ordered
<1>3. ASSUME NEW n \in 1..Len(Tail(s)), NEW y \in f[Tail(s)[n]],
             y \notin B, y # Head(s)
      PROVE  \E m \in 1..(n - 1) : Tail(s)[m] = y
  <2>1. n + 1 \in 1..Len(s) /\ Tail(s)[n] = s[n + 1]
    BY <1>1
  <2>2. PICK m \in 1..((n + 1) - 1) : s[m] = y
    BY <1>3, <2>1 DEF Ordered
  <2>3. m # 1
    BY <1>1, <1>3, <2>2
  <2>4. /\ m - 1 \in 1..(n - 1) /\ m - 1 \in 1..Len(Tail(s))
        /\ (m - 1) + 1 = m
    BY <1>1, <2>2, <2>3
  <2> QED BY <1>1, <2>2, <2>4
<1> QED BY <1>2, <1>3 DEF Ordered

\* Having less ahead keeps the order.
LEMMA OrderedLess ==
  ASSUME NEW f, NEW h, NEW B, NEW C, NEW s, Ordered(f, s, B),
         \A x \in Entries(s) : h[x] \subseteq f[x],
         \A x \in Entries(s) : \A y \in h[x] : y \in B => y \in C
  PROVE  Ordered(h, s, C)
<1> SUFFICES ASSUME NEW n \in 1..Len(s), NEW y \in h[s[n]]
             PROVE  y \in C \/ \E m \in 1..(n - 1) : y = s[m]
  BY DEF Ordered
<1>1. s[n] \in Entries(s)
  BY DEF Entries
<1>2. y \in f[s[n]]
  BY <1>1
<1>3. y \in B \/ \E m \in 1..(n - 1) : y = s[m]
  BY <1>2 DEF Ordered
<1> QED BY <1>1, <1>3

\* Every step keeps the line in order (combine, arrive, release).
LEMMA NextLineOrdered ==
  ASSUME IInv, LineOrdered, [Next]_vars
  PROVE  LineOrdered'
<1> USE DEF queues, pass, lockState
<1>q. /\ kept \in Seq(Jobs) /\ waiting \in Seq(Jobs) /\ arrivals \in Seq(Jobs)
      /\ pc \in [Goroutines -> Labels]
      /\ ahead \in [Jobs -> SUBSET Jobs]
  BY DEF IInv, TypeOK
<1>e. Entries(<<>>) = {}
  BY EntriesEmpty
<1>1. ASSUME NEW g \in Goroutines, NEW j \in Jobs, Arrive(g, j)
      PROVE  LineOrdered'
  <2>1. CASE LocksNothing(j)
    BY <1>1, <2>1 DEF Arrive, LineOrdered
  <2>2. CASE ~LocksNothing(j)
    <3>1. /\ pc[g] = "idle" /\ j \notin Pending
          /\ arrivals' = Append(arrivals, j)
          /\ ahead' = [ahead EXCEPT ![j] = Pending]
          /\ pc' = [pc EXCEPT ![g] = "tryLock"]
          /\ UNCHANGED <<waiting, kept, reserved>>
      BY <1>1, <2>2 DEF Arrive, goto
    <3>2. \A x \in Pending : ahead'[x] = ahead[x]
      BY <1>q, <3>1, EntriesType DEF Pending
    <3>3. /\ Ordered(ahead', kept, {})
          /\ Ordered(ahead', waiting, Entries(kept))
          /\ Ordered(ahead', arrivals, Entries(kept) \cup Entries(waiting))
      BY <3>2, OrderedLess DEF LineOrdered, Pending
    <3>4. Ordered(ahead', Append(arrivals, j), Entries(kept) \cup Entries(waiting))
      <4>1. ahead'[j] \subseteq (Entries(kept) \cup Entries(waiting)) \cup Entries(arrivals)
        BY <1>q, <3>1 DEF Pending
      <4> QED BY <1>q, <3>3, <4>1, OrderedAppend
    <3>5. kept # <<>> => \E h \in Goroutines : pc'[h] = "scan"
      BY <1>q, <3>1 DEF LineOrdered
    <3> QED BY <3>1, <3>3, <3>4, <3>5 DEF LineOrdered
  <2> QED BY <2>1, <2>2
<1>2. ASSUME NEW g \in Goroutines,
             \/ TryLock(g) \/ DrainReleases(g) \/ UnlockNext(g)
             \/ LookReleases(g) \/ LookArrivals(g)
             \/ \E j \in Jobs : Release(g, j)
      PROVE  LineOrdered'
  <2>1. /\ UNCHANGED <<arrivals, waiting, kept, reserved, ahead>>
        /\ pc[g] # "scan"
        /\ pc' = pc \/ \E l \in Labels : pc' = [pc EXCEPT ![g] = l]
    BY <1>2 DEF TryLock, DrainReleases, UnlockNext, LookReleases, LookArrivals,
                Release, goto, Labels, Critical
  <2>2. kept # <<>> => \E h \in Goroutines : pc'[h] = "scan"
    BY <1>q, <2>1 DEF LineOrdered
  <2> QED BY <2>1, <2>2 DEF LineOrdered
<1>3. ASSUME NEW g \in Goroutines, DrainArrivals(g)
      PROVE  LineOrdered'
  <2>1. /\ pc[g] = "unlock"
        /\ waiting' = waiting \o arrivals /\ arrivals' = <<>>
        /\ UNCHANGED <<kept, ahead>>
    BY <1>3 DEF DrainArrivals
  <2>2. kept = <<>>
    BY <2>1 DEF IInv, Ownership, Critical, LineOrdered
  <2>3. Ordered(ahead, waiting \o arrivals, Entries(kept))
    BY <1>q, OrderedConcat DEF LineOrdered
  <2>4. Ordered(ahead', arrivals', Entries(kept') \cup Entries(waiting'))
    BY <2>1, OrderedEmpty
  <2> QED BY <1>e, <2>1, <2>2, <2>3, <2>4 DEF LineOrdered
<1>4. ASSUME NEW g \in Goroutines, GrantNext(g)
      PROVE  LineOrdered'
  <2> DEFINE j == Head(waiting)
  <2>1. /\ waiting # <<>> /\ waiting' = Tail(waiting)
        /\ ahead' = [k \in Jobs |-> IF k = j THEN {} ELSE ahead[k] \ {j}]
        /\ UNCHANGED <<arrivals, kept, reserved, pc>>
    BY <1>4 DEF GrantNext
  <2>2. /\ waiting' \in Seq(Jobs)
        /\ Entries(waiting) = {j} \cup Entries(waiting')
    BY <1>q, <2>1, EntriesTail
  <2>3. Ordered(ahead, waiting', Entries(kept) \cup {j})
    BY <1>q, <2>1, OrderedTail DEF LineOrdered
  <2>4. \A x \in Jobs : ahead'[x] \subseteq ahead[x] /\ j \notin ahead'[x]
    BY <2>1
  <2>5. /\ Entries(kept) \subseteq Jobs /\ Entries(waiting') \subseteq Jobs
        /\ Entries(arrivals) \subseteq Jobs
    BY <1>q, <2>2, EntriesType
  <2>6. Ordered(ahead', kept, {})
    <3>1. Ordered(ahead, kept, {})
      BY DEF LineOrdered
    <3> QED BY <2>4, <2>5, <3>1, OrderedLess
  <2>7. Ordered(ahead', waiting', Entries(kept))
    <3>1. \A x \in Entries(waiting') : ahead'[x] \subseteq ahead[x]
      BY <2>4, <2>5
    <3>2. \A x \in Entries(waiting') : \A y \in ahead'[x] :
            y \in Entries(kept) \cup {j} => y \in Entries(kept)
      BY <2>4, <2>5
    <3> QED BY <2>3, <3>1, <3>2, OrderedLess
  <2>8. Ordered(ahead', arrivals, Entries(kept) \cup Entries(waiting'))
    <3>1. \A x \in Entries(arrivals) : ahead'[x] \subseteq ahead[x]
      BY <2>4, <2>5
    <3>2. \A x \in Entries(arrivals) : \A y \in ahead'[x] :
            y \in Entries(kept) \cup Entries(waiting)
              => y \in Entries(kept) \cup Entries(waiting')
      BY <2>2, <2>4, <2>5
    <3>3. Ordered(ahead, arrivals, Entries(kept) \cup Entries(waiting))
      BY DEF LineOrdered
    <3> QED BY <3>1, <3>2, <3>3, OrderedLess
  <2> QED BY <2>1, <2>6, <2>7, <2>8 DEF LineOrdered
<1>5. ASSUME NEW g \in Goroutines, KeepNext(g)
      PROVE  LineOrdered'
  <2> DEFINE j == Head(waiting)
  <2>1. /\ pc[g] = "scan" /\ waiting # <<>> /\ waiting' = Tail(waiting)
        /\ kept' = Append(kept, j) /\ reserved' = reserved \cup Writes[j]
        /\ UNCHANGED <<arrivals, pc, ahead>>
    BY <1>5 DEF KeepNext, reserve
  <2>2. /\ j \in Jobs /\ waiting' \in Seq(Jobs)
        /\ Entries(waiting) = {j} \cup Entries(waiting')
    BY <1>q, <2>1, EntriesTail
  <2>3. Entries(kept') = Entries(kept) \cup {j}
    BY <1>q, <2>1, <2>2, EntriesAppend
  <2>4. /\ ahead[j] \subseteq Entries(kept)
        /\ Ordered(ahead, waiting', Entries(kept'))
    BY <1>q, <2>1, <2>3, OrderedTail DEF LineOrdered
  <2>5. Ordered(ahead, kept', {})
    BY <1>q, <2>1, <2>2, <2>4, OrderedAppend DEF LineOrdered
  <2>6. Entries(kept) \cup Entries(waiting) = Entries(kept') \cup Entries(waiting')
    BY <2>2, <2>3
  <2>7. Ordered(ahead, arrivals, Entries(kept') \cup Entries(waiting'))
    BY <2>6 DEF LineOrdered
  <2>8. \A k \in Entries(kept') : Writes[k] \subseteq reserved'
    BY <2>1, <2>3 DEF LineOrdered
  <2> QED BY <2>1, <2>4, <2>5, <2>7, <2>8 DEF LineOrdered
<1>6. ASSUME NEW g \in Goroutines, Unlock(g)
      PROVE  LineOrdered'
  <2>1. /\ waiting = <<>> /\ waiting' = kept /\ kept' = <<>>
        /\ UNCHANGED <<arrivals, ahead>>
    BY <1>6 DEF Unlock
  <2>2. Ordered(ahead', kept', {})
    BY <2>1, OrderedEmpty
  <2>3. Ordered(ahead', waiting', Entries(kept'))
    BY <1>e, <2>1 DEF LineOrdered
  <2>4. Ordered(ahead', arrivals', Entries(kept') \cup Entries(waiting'))
    <3>1. Entries(kept') \cup Entries(waiting') = Entries(kept) \cup Entries(waiting)
      BY <1>e, <2>1
    <3> QED BY <2>1, <3>1 DEF LineOrdered
  <2> QED BY <1>e, <2>1, <2>2, <2>3, <2>4 DEF LineOrdered
<1>7. CASE UNCHANGED vars
  BY <1>7 DEF vars, LineOrdered
<1> QED BY <1>1, <1>2, <1>3, <1>4, <1>5, <1>6, <1>7 DEF Next, combine

\* LineOrdered holds in every reachable state.
THEOREM LineIsOrdered == Spec => []LineOrdered
<1>1. Init => LineOrdered
  BY OrderedEmpty, EntriesEmpty DEF Init, LineOrdered
<1>2. IInv /\ LineOrdered /\ [Next]_vars => LineOrdered'
  BY NextLineOrdered
<1> QED BY <1>1, <1>2, Invariance, PTL DEF Spec

\* No job is granted a lock on what a job that arrived before it, and still
\* waits, writes (lockState.reserve under the passes of the combiner).
THEOREM NoOvertaking == Spec => WriterNotOvertaken
<1> DEFINE Keeps == \A k \in ready' \ ready, j \in Jobs :
                      j \in ahead[k] => Writes[j] \cap (Reads[k] \cup Writes[k]) = {}
<1>1. ASSUME IInv, LineOrdered, [Next]_vars
      PROVE  [Keeps]_vars
  <2> USE DEF queues, pass, lockState
  <2>1. ASSUME NEW g \in Goroutines, NEW i \in Jobs, Arrive(g, i)
        PROVE  Keeps
    BY <2>1 DEF Arrive, LocksNothing
  <2>2. ASSUME NEW g \in Goroutines, GrantNext(g)
        PROVE  Keeps
    <3> DEFINE i == Head(waiting)
    <3>1. /\ waiting # <<>> /\ ready' = ready \cup {i} /\ canLock(i)
          /\ waiting \in Seq(Jobs)
      BY <1>1, <2>2 DEF GrantNext, IInv, TypeOK
    <3>2. ahead[i] \subseteq Entries(kept)
      BY <1>1, <3>1, OrderedTail DEF LineOrdered
    <3>3. \A j \in ahead[i] : Writes[j] \subseteq reserved
      BY <1>1, <3>2 DEF LineOrdered
    <3> QED BY <3>1, <3>3 DEF canLock
  <2>3. ASSUME NEW g \in Goroutines,
               \/ \E i \in Jobs : Release(g, i)
               \/ TryLock(g) \/ DrainReleases(g) \/ UnlockNext(g)
               \/ DrainArrivals(g) \/ KeepNext(g) \/ Unlock(g)
               \/ LookReleases(g) \/ LookArrivals(g)
        PROVE  ready' \subseteq ready
    BY <2>3 DEF Release, TryLock, DrainReleases, UnlockNext, DrainArrivals,
                KeepNext, Unlock, LookReleases, LookArrivals
  <2> QED BY <1>1, <2>1, <2>2, <2>3 DEF Next, combine
<1> QED BY <1>1, Invariance, LineIsOrdered, PTL DEF Spec, WriterNotOvertaken

-----------------------------------------------------------------------------
(* No waiting job is forgotten *)

\* Each job of s conflicts with a job of H, or touches what one before it in s
\* writes.
BlockedIn(s, H) ==
  \A i \in 1..Len(s) :
    \/ \E k \in H : Conflict(s[i], k)
    \/ \E h \in 1..(i - 1) : Writes[s[h]] \cap (Reads[s[i]] \cup Writes[s[i]]) # {}

\* Outside of a pass every waiting job is blocked, while the releases not
\* drained yet still count as held; in a pass every job kept so far is, and
\* nothing is reserved but what those write.
WaitersBlocked ==
  /\ (\A g \in Goroutines : pc[g] \notin {"unlock", "scan"})
       => BlockedIn(waiting, Holders)
  /\ (\E g \in Goroutines : pc[g] = "scan")
       => /\ BlockedIn(kept, Holders)
          /\ reserved \subseteq UNION {Writes[j] : j \in Entries(kept)}

\* A job that locks nothing blocks none, and more holders block more.
LEMMA BlockedHolders ==
  ASSUME NEW s, NEW H, NEW G, BlockedIn(s, H),
         \A k \in H \ G : LocksNothing(k)
  PROVE  BlockedIn(s, G)
<1>1. ASSUME NEW j, NEW k \in H, Conflict(j, k)
      PROVE  k \in G
  BY <1>1 DEF Conflict, LocksNothing
<1> QED BY <1>1 DEF BlockedIn

\* Keeping one more job that is blocked (a pass over the waiting jobs).
LEMMA BlockedAppend ==
  ASSUME NEW S, NEW H, NEW s \in Seq(S), NEW x \in S, BlockedIn(s, H),
         \/ \E k \in H : Conflict(x, k)
         \/ \E y \in Entries(s) : Writes[y] \cap (Reads[x] \cup Writes[x]) # {}
  PROVE  BlockedIn(Append(s, x), H)
<1>1. /\ Len(Append(s, x)) = Len(s) + 1
      /\ \A i \in 1..Len(s) : Append(s, x)[i] = s[i]
      /\ Append(s, x)[Len(s) + 1] = x
      /\ Len(s) \in Nat
  BY AppendProperties, LenProperties
<1> SUFFICES ASSUME NEW i \in 1..(Len(s) + 1),
                    ~\E k \in H : Conflict(Append(s, x)[i], k)
             PROVE  \E h \in 1..(i - 1) :
                      Writes[Append(s, x)[h]] \cap
                        (Reads[Append(s, x)[i]] \cup Writes[Append(s, x)[i]]) # {}
  BY <1>1 DEF BlockedIn
<1>2. CASE i = Len(s) + 1
  <2>1. PICK y \in Entries(s) : Writes[y] \cap (Reads[x] \cup Writes[x]) # {}
    BY <1>1, <1>2
  <2>2. PICK h \in 1..Len(s) : s[h] = y
    BY <2>1 DEF Entries
  <2>3. h \in 1..(i - 1)
    BY <1>1, <1>2
  <2> QED BY <1>1, <1>2, <2>1, <2>2, <2>3
<1>3. CASE i \in 1..Len(s)
  <2>1. PICK h \in 1..(i - 1) : Writes[s[h]] \cap (Reads[s[i]] \cup Writes[s[i]]) # {}
    BY <1>1, <1>3 DEF BlockedIn
  <2>2. h \in 1..Len(s)
    BY <1>1, <1>3
  <2> QED BY <1>1, <1>3, <2>1, <2>2
<1>4. i = Len(s) + 1 \/ i \in 1..Len(s)
  BY <1>1
<1> QED BY <1>2, <1>3, <1>4

\* Every step keeps the waiting jobs blocked (combine, arrive, release).
LEMMA NextWaitersBlocked ==
  ASSUME IInv, LineOrdered, WaitersBlocked, [Next]_vars
  PROVE  WaitersBlocked'
<1> USE DEF queues, pass, lockState
<1>q. /\ kept \in Seq(Jobs) /\ waiting \in Seq(Jobs)
      /\ releases \in Seq(Jobs) /\ released \in Seq(Jobs)
      /\ pc \in [Goroutines -> Labels]
  BY DEF IInv, TypeOK
<1>o. ASSUME NEW g \in Goroutines, NEW h \in Goroutines,
             pc[g] \in Critical, pc[h] \in Critical
      PROVE  g = h
  BY <1>o DEF IInv, Ownership
\* A step outside of a pass that takes no locks away.
<1>f. ASSUME NEW g \in Goroutines, NEW l \in Labels \ {"scan"},
             pc[g] # "scan", pc[g] # "unlock",
             pc' = pc \/ pc' = [pc EXCEPT ![g] = l],
             UNCHANGED <<waiting, kept, reserved>>,
             \A k \in Holders \ Holders' : LocksNothing(k)
      PROVE  WaitersBlocked'
  <2>1. \A h \in Goroutines : h # g => pc'[h] = pc[h]
    BY <1>q, <1>f
  <2>2. pc'[g] # "scan"
    BY <1>q, <1>f
  <2>3. ASSUME \A h \in Goroutines : pc'[h] \notin {"unlock", "scan"}
        PROVE  BlockedIn(waiting', Holders')
    <3>1. BlockedIn(waiting, Holders)
      BY <1>f, <2>1, <2>3 DEF WaitersBlocked
    <3> QED BY <1>f, <3>1, BlockedHolders
  <2>4. ASSUME NEW h \in Goroutines, pc'[h] = "scan"
        PROVE  /\ BlockedIn(kept', Holders')
               /\ reserved' \subseteq UNION {Writes[j] : j \in Entries(kept')}
    <3>1. pc[h] = "scan"
      BY <2>1, <2>2, <2>4
    <3>2. /\ BlockedIn(kept, Holders)
          /\ reserved \subseteq UNION {Writes[j] : j \in Entries(kept)}
      BY <3>1 DEF WaitersBlocked
    <3>3. BlockedIn(kept, Holders')
      BY <1>f, <3>2, BlockedHolders
    <3> QED BY <1>f, <3>2, <3>3
  <2> QED BY <2>3, <2>4 DEF WaitersBlocked
<1>1. ASSUME NEW g \in Goroutines, NEW j \in Jobs, Arrive(g, j)
      PROVE  WaitersBlocked'
  <2>1. /\ pc[g] = "idle" /\ Holders \subseteq Holders'
        /\ pc' = pc \/ pc' = [pc EXCEPT ![g] = "tryLock"]
        /\ UNCHANGED <<waiting, kept, reserved>>
    BY <1>1 DEF Arrive, goto, Holders, Unreleased
  <2> QED BY <1>f, <2>1 DEF Labels
<1>2. ASSUME NEW g \in Goroutines, NEW j \in Jobs, Release(g, j)
      PROVE  WaitersBlocked'
  <2>1. /\ pc[g] = "idle"
        /\ pc' = pc \/ pc' = [pc EXCEPT ![g] = "tryLock"]
        /\ UNCHANGED <<waiting, kept, reserved, released>>
        /\ ready' = ready \ {j}
    BY <1>2 DEF Release, goto
  <2>2. \A k \in Holders \ Holders' : LocksNothing(k)
    <3>1. CASE LocksNothing(j)
      BY <1>2, <2>1, <3>1 DEF Release, Holders, Unreleased
    <3>2. CASE ~LocksNothing(j)
      <4>1. releases' = Append(releases, j)
        BY <1>2, <3>2 DEF Release
      <4>2. Entries(releases') = Entries(releases) \cup {j}
        BY <1>q, <4>1, EntriesAppend
      <4> QED BY <2>1, <4>2 DEF Holders, Unreleased
    <3> QED BY <3>1, <3>2
  <2> QED BY <1>f, <2>1, <2>2 DEF Labels
<1>3. ASSUME NEW g \in Goroutines,
             TryLock(g) \/ LookReleases(g) \/ LookArrivals(g)
      PROVE  WaitersBlocked'
  <2>1. /\ pc[g] # "scan" /\ pc[g] # "unlock"
        /\ \E l \in Labels \ {"scan"} : pc' = [pc EXCEPT ![g] = l]
        /\ UNCHANGED <<waiting, kept, reserved>>
    BY <1>3 DEF TryLock, LookReleases, LookArrivals, goto, Labels, Critical
  <2>2. Holders' = Holders
    BY <1>3 DEF TryLock, LookReleases, LookArrivals, Holders, Unreleased
  <2> QED BY <1>f, <2>1, <2>2
<1>4. ASSUME NEW g \in Goroutines, DrainReleases(g)
      PROVE  WaitersBlocked'
  <2>1. /\ pc[g] = "drainReleases" /\ pc' = [pc EXCEPT ![g] = "unlock"]
        /\ released' = releases /\ releases' = <<>>
        /\ UNCHANGED <<waiting, kept, reserved, ready>>
    BY <1>4 DEF DrainReleases, goto
  <2>2. \A h \in Goroutines : pc[h] # "unlock"
    BY <1>o, <2>1 DEF Critical
  <2>3. Entries(released) = {}
    BY <2>2, EntriesEmpty DEF IInv, Ownership
  <2>4. Holders' = Holders
    BY <2>1, <2>3, EntriesEmpty DEF Holders, Unreleased
  <2> QED BY <1>f, <2>1, <2>4 DEF Labels, Critical
<1>5. ASSUME NEW g \in Goroutines, UnlockNext(g)
      PROVE  WaitersBlocked'
  <2>1. pc[g] = "unlock" /\ pc' = pc
    BY <1>5 DEF UnlockNext
  <2>2. \A h \in Goroutines : pc'[h] # "scan"
    BY <1>o, <2>1 DEF Critical
  <2> QED BY <2>1, <2>2 DEF WaitersBlocked
<1>6. ASSUME NEW g \in Goroutines, DrainArrivals(g)
      PROVE  WaitersBlocked'
  <2>1. /\ pc[g] = "unlock" /\ pc' = [pc EXCEPT ![g] = "scan"]
        /\ kept' = kept /\ reserved' = {}
    BY <1>6 DEF DrainArrivals, goto, clearReservations
  <2>2. kept = <<>>
    BY <2>1 DEF IInv, Ownership, Critical, LineOrdered
  <2>3. BlockedIn(kept', Holders')
    BY <2>1, <2>2 DEF BlockedIn
  <2>4. pc'[g] = "scan"
    BY <1>q, <2>1
  <2> QED BY <2>1, <2>3, <2>4 DEF WaitersBlocked
<1>7. ASSUME NEW g \in Goroutines, GrantNext(g)
      PROVE  WaitersBlocked'
  <2>1. /\ pc[g] = "scan" /\ pc' = pc
        /\ Holders \subseteq Holders'
        /\ UNCHANGED <<kept, reserved>>
    BY <1>7 DEF GrantNext, Holders, Unreleased
  <2>2. BlockedIn(kept, Holders)
    BY <2>1 DEF WaitersBlocked
  <2>3. BlockedIn(kept, Holders')
    BY <2>1, <2>2, BlockedHolders
  <2> QED BY <2>1, <2>3 DEF WaitersBlocked
<1>8. ASSUME NEW g \in Goroutines, KeepNext(g)
      PROVE  WaitersBlocked'
  <2> DEFINE j == Head(waiting)
  <2>1. /\ pc[g] = "scan" /\ waiting # <<>> /\ pc' = pc
        /\ ~canLock(j)
        /\ kept' = Append(kept, j) /\ reserved' = reserved \cup Writes[j]
        /\ Holders' = Holders
    BY <1>8 DEF KeepNext, reserve, Holders, Unreleased
  <2>2. j \in Jobs
    BY <1>q, <2>1, EntriesTail
  <2>3. Entries(kept') = Entries(kept) \cup {j}
    BY <1>q, <2>1, <2>2, EntriesAppend
  <2>4. /\ BlockedIn(kept, Holders)
        /\ reserved \subseteq UNION {Writes[k] : k \in Entries(kept)}
    BY <2>1 DEF WaitersBlocked
  <2>5. \/ \E k \in Holders : Conflict(j, k)
        \/ \E y \in Entries(kept) : Writes[y] \cap (Reads[j] \cup Writes[j]) # {}
    <3>1. CASE writeHeld \cap (Reads[j] \cup Writes[j]) # {}
      BY <3>1 DEF IInv, LockStateExact, Conflict
    <3>2. CASE readHeld \cap Writes[j] # {}
      BY <3>2 DEF IInv, LockStateExact, Conflict
    <3>3. CASE reserved \cap (Reads[j] \cup Writes[j]) # {}
      BY <2>4, <3>3
    <3> QED BY <2>1, <3>1, <3>2, <3>3 DEF canLock
  <2>6. BlockedIn(kept', Holders')
    BY <1>q, <2>1, <2>2, <2>4, <2>5, BlockedAppend
  <2>7. reserved' \subseteq UNION {Writes[k] : k \in Entries(kept')}
    BY <2>1, <2>3, <2>4
  <2> QED BY <2>1, <2>6, <2>7 DEF WaitersBlocked
<1>9. ASSUME NEW g \in Goroutines, Unlock(g)
      PROVE  WaitersBlocked'
  <2>1. /\ pc[g] = "scan" /\ waiting' = kept
        /\ pc' = [pc EXCEPT ![g] = "lookReleases"]
        /\ Holders' = Holders
    BY <1>9 DEF Unlock, goto, Holders, Unreleased
  <2>2. \A h \in Goroutines : pc'[h] # "scan"
    BY <1>q, <1>o, <2>1 DEF Critical
  <2>3. BlockedIn(kept, Holders)
    BY <2>1 DEF WaitersBlocked
  <2> QED BY <2>1, <2>2, <2>3 DEF WaitersBlocked
<1>10. CASE UNCHANGED vars
  <2>1. Holders' = Holders
    BY <1>10 DEF vars, Holders, Unreleased
  <2> QED BY <1>10, <2>1 DEF vars, WaitersBlocked
<1> QED BY <1>1, <1>2, <1>3, <1>4, <1>5, <1>6, <1>7, <1>8, <1>9, <1>10
        DEF Next, combine

\* WaitersBlocked holds in every reachable state.
THEOREM WaitersStayBlocked == Spec => []WaitersBlocked
<1>1. Init => WaitersBlocked
  BY DEF Init, WaitersBlocked, BlockedIn
<1>2. IInv /\ LineOrdered /\ WaitersBlocked /\ [Next]_vars => WaitersBlocked'
  BY NextWaitersBlocked
<1> QED BY <1>1, <1>2, Invariance, LineIsOrdered, PTL DEF Spec

\* When every goroutine has left combine, a job still waits only because a
\* running job holds what it needs or an older waiting job is next for it, and
\* then some job is running whose release will look at the list again.
THEOREM QuietWaiters == Spec => []QuietWaitersAreBlocked
<1>1. ASSUME IInv, NoRequestLeftBehind, WaitersBlocked
      PROVE  QuietWaitersAreBlocked
  <2> SUFFICES ASSUME \A g \in Goroutines : pc[g] = "idle",
                      NEW i \in 1..Len(waiting)
               PROVE  \/ \E k \in ready : Conflict(waiting[i], k)
                      \/ /\ \E h \in 1..(i - 1) :
                              Writes[waiting[h]] \cap
                                (Reads[waiting[i]] \cup Writes[waiting[i]]) # {}
                         /\ ready # {}
    BY DEF QuietWaitersAreBlocked
  <2>1. releases = <<>> /\ released = <<>>
    BY <1>1 DEF IInv, NoRequestLeftBehind, Ownership, Critical
  <2>2. Holders = ready
    BY <2>1, EntriesEmpty DEF Holders, Unreleased
  <2>3. BlockedIn(waiting, ready)
    BY <1>1, <2>2 DEF WaitersBlocked
  <2>4. 1 \in 1..Len(waiting) /\ ~\E h \in 1..(1 - 1) : TRUE
    BY <1>1, LenProperties DEF IInv, TypeOK
  <2>5. ready # {}
    BY <2>3, <2>4 DEF BlockedIn
  <2> QED BY <2>3, <2>5 DEF BlockedIn
<1> QED BY <1>1, Invariance, NothingLeftBehind, WaitersStayBlocked, PTL

=============================================================================
