--------------------------- MODULE WindowsProofs ----------------------------
(***************************************************************************)
(* Proofs that the four lists of windows agree once a run has folded its   *)
(* changes, that who reads the events alone knows what the package keeps,  *)
(* and that no key stays held when the focus is lost.                      *)
(***************************************************************************)
EXTENDS Windows, SequenceTheorems, FiniteSetTheorems, WellFoundedInduction, TLAPS

-----------------------------------------------------------------------------
(* Types *)

Entries == [window : Ids, entry : {0, 1}, mode : Modes, pending : Positions \cup {Nowhere}]
States == [window : Ids, open : BOOLEAN, focused : BOOLEAN, mode : Modes]
Applied == [window : Ids, entry : {0, 1}, mode : Modes]
Pointers == [position : Positions, placed : BOOLEAN, inside : BOOLEAN]
Shown == [entry : {0, 1}, changed : BOOLEAN, effective : Modes, granted : BOOLEAN]
\* The functions from some of the windows into X.
Partial(X) == UNION {[W -> X] : W \in SUBSET Ids}

Lifes == [kind : {"Opened", "Closed"}, window : Ids]
Presses == [kind : {"Key"}, window : Ids, key : Keys, pressed : BOOLEAN]
Focuses == [kind : {"Focus"}, window : Ids, focused : BOOLEAN]
Moves == [kind : {"Move"}, window : Ids, motion : Int]
Changes == Lifes \cup Presses \cup Focuses
           \cup [kind : {"Move", "Enter", "Leave"}, window : Ids, position : Positions]
Events == Lifes \cup Presses \cup Focuses \cup Moves
          \cup [kind : {"Enter", "Leave"}, window : Ids, position : Positions]
Readers ==
  [held : SUBSET Keys, pressed : SUBSET Keys, released : SUBSET Keys, open : SUBSET Ids,
   closed : SUBSET Ids, inside : SUBSET Ids, right : BOOLEAN]

InputTypes ==
  [held : SUBSET Keys, pressed : SUBSET Keys, released : SUBSET Keys, pointers : Partial(Pointers)]
OSTypes == [windows : Partial(Shown), focus : Ids \cup {NoWindow}]
RunTypes == [phase : {"idle", "pump", "fold"}, changes : Seq(Changes), events : Seq(Events)]

TypeInv ==
  /\ lastID \in 0..MaxWindows
  /\ entries \in Seq(Entries) /\ states \in Seq(States) /\ applied \in Seq(Applied)
  /\ input \in InputTypes /\ os \in OSTypes /\ run \in RunTypes
  /\ reader \in Readers /\ motion \in [Ids -> Int] /\ orphaned \in BOOLEAN

-----------------------------------------------------------------------------
(* The invariants *)

\* A list has its windows in the order they were opened.
Sorted(q) == \A i, j \in DOMAIN q : i < j => q[i].window < q[j].window

\* The lists have the same windows; during a run so does the request, and
\* between runs the windows to open come after those that were.
ListsInv ==
  /\ Sorted(entries) /\ Sorted(states) /\ Sorted(applied)
  /\ windowsOf(entries) \subseteq 1..lastID /\ windowsOf(applied) \subseteq 1..lastID
  /\ windowsOf(states) = windowsOf(applied) /\ DOMAIN input.pointers = windowsOf(applied)
  /\ run.phase # "idle" => windowsOf(entries) = windowsOf(applied)
  /\ \A e \in windowsOf(entries) \ windowsOf(applied), a \in windowsOf(applied) : a < e

\* Which changes are still to fold.
opens(q, w) == \E i \in DOMAIN q : q[i].kind = "Opened" /\ q[i].window = w
closes(q, w) == \E i \in DOMAIN q : q[i].kind = "Closed" /\ q[i].window = w
focuses(q, w) ==
  \E i \in DOMAIN q : q[i].kind = "Focus" /\ q[i].window = w /\ q[i].focused
\* Whether w has the focus once q is folded, if it had it before or not.
endsFocused(q, w, before) ==
  \/ \E i \in DOMAIN q :
       /\ q[i].kind = "Focus" /\ q[i].window = w /\ q[i].focused
       /\ \A j \in DOMAIN q : q[j].kind = "Focus" /\ q[j].window = w => j <= i
  \/ before /\ \A j \in DOMAIN q : ~(q[j].kind = "Focus" /\ q[j].window = w)

\* The changes to fold: openings, then the rest, of windows that exist, but for
\* the closings of those that do not any more; each window opens and closes once.
ChangesInv(q, there, known) ==
  /\ \A i, j \in DOMAIN q : i < j /\ q[j].kind = "Opened" => q[i].kind = "Opened"
  /\ \A i, j \in DOMAIN q :
       q[i].kind \in {"Opened", "Closed"} /\ q[j].kind = q[i].kind /\ q[j].window = q[i].window
       => i = j
  /\ \A i \in DOMAIN q :
       /\ q[i].window \in known
       /\ q[i].kind = "Closed" => q[i].window \notin there
       /\ q[i].kind \notin {"Opened", "Closed"} => q[i].window \in there

\* What exists is as it was applied unless its last change failed, and the cursor
\* of the window with the focus is unless it was refused, once the focus it gained
\* is folded.
ShownInv(shown, focus, q, A) ==
  /\ focus \in DOMAIN shown \cup {NoWindow}
  /\ \A a \in A : a.window \in DOMAIN shown =>
       /\ shown[a.window].changed => shown[a.window].entry = a.entry
       /\ focus = a.window /\ shown[a.window].granted =>
            shown[a.window].effective = a.mode \/ focuses(q, a.window)
  /\ \A w \in DOMAIN shown : focus # w => shown[w].effective = "Normal"

\* The state s of a window, once q is folded, tells what became of it.
StateInv(s, shown, focus, q) ==
  LET w == s.window IN
  /\ w \in DOMAIN shown <=> (s.open \/ opens(q, w)) /\ ~closes(q, w)
  /\ opens(q, w) => ~s.open
  /\ w \in DOMAIN shown => (focus = w <=> endsFocused(q, w, s.focused))
  /\ w \notin DOMAIN shown => closes(q, w) \/ ~s.focused

\* Since the modes were asked for, the state has them.
ModeInv(s, shown) ==
  s.mode = IF s.window \in DOMAIN shown THEN shown[s.window].effective ELSE "Normal"

\* The states S and the applied windows A agree with what exists, once q is
\* folded.
known(S) == {s.window : s \in S}
Agree(shown, focus, q, S, A) ==
  /\ DOMAIN shown \subseteq known(S)
  /\ ChangesInv(q, DOMAIN shown, known(S))
  /\ ShownInv(shown, focus, q, A)
  /\ \A s \in S : StateInv(s, shown, focus, q)

WindowsInv ==
  /\ Agree(os.windows, os.focus, run.changes, ToSet(states), ToSet(applied))
  /\ run.phase = "fold" => \A s \in ToSet(states) : ModeInv(s, os.windows)
  /\ run.phase = "idle" => run.changes = <<>> /\ run.events = <<>>

\* A change that says that the focus is lost.
isBlur(c) == c.kind = "Focus" /\ ~c.focused

\* The loss of the focus is to fold after any key pressed and, if one is held
\* and no focused window has closed, at all.
ReleasesToFold(q, held, excused) ==
  /\ \A i \in DOMAIN q : q[i].kind = "Key" /\ q[i].pressed =>
       \E j \in DOMAIN q : i < j /\ isBlur(q[j])
  /\ ~excused /\ held # {} => \E j \in DOMAIN q : isBlur(q[j])
KeysInv == os.focus = NoWindow => ReleasesToFold(run.changes, input.held, orphaned)

\* What a reader will have made of the events so far.
tellAll(r, q) == FoldLeft(told, r, q)
begun == [reader EXCEPT !.pressed = {}, !.released = {}]
now == tellAll(begun, run.events)

ReaderInv ==
  /\ IsFiniteSet(input.held)
  /\ now.right /\ reader.right
  /\ now.closed \subseteq 1..lastID
  /\ now.closed \cap (windowsOf(entries) \cup windowsOf(applied)) = {}
  /\ now.held = input.held
  /\ now.open = {s.window : s \in {x \in ToSet(states) : x.open}}
  /\ now.inside = {w \in DOMAIN input.pointers : input.pointers[w].inside}
  /\ run.phase = "idle" => reader.pressed = input.pressed /\ reader.released = input.released
  /\ run.phase = "pump" => now.pressed = {} /\ now.released = {}
  /\ run.phase = "fold" => now.pressed = input.pressed /\ now.released = input.released

MovesInv(q, far) ==
  \A w \in Ids :
    /\ \A i, j \in DOMAIN q : isMoveIn(q[i], w) /\ isMoveIn(q[j], w) => i = j
    /\ \A i \in DOMAIN q : isMoveIn(q[i], w) => q[i].motion = far[w]
    /\ (\A i \in DOMAIN q : ~isMoveIn(q[i], w)) => far[w] = 0

IInv ==
  TypeInv /\ ListsInv /\ WindowsInv /\ KeysInv /\ ReaderInv /\ MovesInv(run.events, motion)

-----------------------------------------------------------------------------
(* Induction, and what a fold passes through *)

\* Of a set of numbers, one is the least.
LEMMA LeastNat ==
  ASSUME NEW T \in SUBSET Nat, T # {}
  PROVE  \E x \in T : \A y \in T : x <= y
<1>1. PICK R : R = {ss \in Nat \X Nat : ss[1] < ss[2]}
  OBVIOUS
<1>2. IsWellFoundedOn(R, Nat)
  BY <1>1, NatLessThanWellFounded DEF OpToRel
<1>3. PICK x \in T : \A y \in T : ~(<<y, x>> \in R)
  BY ONLY <1>2, WFMin, T \in SUBSET Nat, T # {}
<1>4. \A y \in T : ~(y < x)
  BY <1>1, <1>3
<1> QED BY <1>4

\* Induction up to a number.
LEMMA UpTo ==
  ASSUME NEW N \in Nat, NEW S, 0 \in S, \A n \in 1..N : n - 1 \in S => n \in S
  PROVE  \A n \in 0..N : n \in S
<1>1. PICK T : T = {n \in Nat : n \in 0..N /\ n \notin S}
  OBVIOUS
<1>2. ASSUME T # {} PROVE FALSE
  <2>1. PICK n \in T : \A m \in T : n <= m
    BY <1>1, <1>2, LeastNat
  <2>2. n \in 1..N /\ n - 1 \in Nat /\ n - 1 \in 0..N /\ ~(n <= n - 1)
    BY <1>1, <2>1
  <2>3. n - 1 \in S
    BY <1>1, <2>1, <2>2
  <2> QED BY <1>1, <2>1, <2>2, <2>3
<1> QED BY <1>1, <1>2

\* The greatest of a set of numbers.
LEMMA Greatest ==
  ASSUME NEW k \in Nat, NEW s \in SUBSET (1..k), k \in s
  PROVE  Max(s) = k
<1>1. \A y \in s : k >= y
  OBVIOUS
<1>2. \A x \in s : (\A y \in s : x >= y) => x = k
  OBVIOUS
<1> QED BY <1>1, <1>2 DEF Max

\* The function a fold of F from b over q is defined with.
Folds(g, F, b, q, G) ==
  /\ g \in [SUBSET (1..Len(q)) -> G]
  /\ \A s \in SUBSET (1..Len(q)) :
       g[s] = IF s = {} THEN b ELSE F[<<g[s \ {Max(s)}], q[Max(s)]>>]
StepsIn(F, X, G) == F \in [G \X X -> G]

\* That function exists, F staying within a set.
LEMMA FoldExists ==
  ASSUME NEW G, NEW X, NEW F, StepsIn(F, X, G), NEW b \in G, NEW q \in Seq(X)
  PROVE  \E g : Folds(g, F, b, q, G)
<1>0. F \in [G \X X -> G]
  BY DEF StepsIn
<1>1. DOMAIN q = 1..Len(q) /\ Len(q) \in Nat /\ \A n \in 1..Len(q) : q[n] \in X
  BY LenProperties, ElementOfSeq
<1> DEFINE D(k, g) == \A s \in SUBSET (1..k) :
                        g[s] = IF s = {} THEN b ELSE F[<<g[s \ {Max(s)}], q[Max(s)]>>]
<1>2. PICK S : S = {k \in 0..Len(q) : \E g \in [SUBSET (1..k) -> G] : D(k, g)}
  OBVIOUS
<1>3. 0 \in S
  <2>1. PICK g : g = [s \in SUBSET (1..0) |-> b]
    OBVIOUS
  <2>2. \A s \in SUBSET (1..0) : s = {}
    OBVIOUS
  <2>3. g \in [SUBSET (1..0) -> G]
    BY <2>1
  <2>4. D(0, g)
    BY <2>1, <2>2
  <2>5. 0 \in 0..Len(q)
    BY <1>1
  <2> QED BY <1>2, <2>3, <2>4, <2>5
<1>4. ASSUME NEW k \in 1..Len(q), k - 1 \in S PROVE k \in S
  <2>1. PICK j : j = k - 1
    OBVIOUS
  <2>2. k \in Nat /\ j \in Nat /\ k \in 0..Len(q) /\ 1..j \subseteq 1..k
    BY <1>1, <2>1
  <2>3. PICK g \in [SUBSET (1..j) -> G] : D(j, g)
    BY <1>2, <1>4, <2>1
  <2>4. \A s \in SUBSET (1..k) : s \ {k} \in SUBSET (1..j) /\ (k \notin s => s \in SUBSET (1..j))
    BY <1>1, <2>1, <2>2
  <2>5. PICK h : h = [s \in SUBSET (1..k) |-> IF k \in s THEN F[<<g[s \ {k}], q[k]>>] ELSE g[s]]
    OBVIOUS
  <2>6. h \in [SUBSET (1..k) -> G]
    <3>1. ASSUME NEW s \in SUBSET (1..k)
          PROVE  (IF k \in s THEN F[<<g[s \ {k}], q[k]>>] ELSE g[s]) \in G
      <4>1. g[s \ {k}] \in G /\ q[k] \in X
        BY <1>1, <2>4
      <4>2. F[<<g[s \ {k}], q[k]>>] \in G
        BY <1>0, <4>1
      <4>3. k \notin s => g[s] \in G
        BY <2>4
      <4> QED BY <4>2, <4>3
    <3> QED BY <2>5, <3>1
  <2>7. \A s \in SUBSET (1..j) : s \in SUBSET (1..k) /\ k \notin s /\ h[s] = g[s]
    <3>1. k \notin 1..j
      BY <1>1, <2>1
    <3> QED BY <2>2, <2>5, <3>1
  <2>8. ASSUME NEW s \in SUBSET (1..k)
        PROVE  h[s] = IF s = {} THEN b ELSE F[<<h[s \ {Max(s)}], q[Max(s)]>>]
    <3>1. CASE k \in s
      <4>1. Max(s) = k
        BY <2>2, <3>1, Greatest
      <4>2. h[s \ {k}] = g[s \ {k}]
        BY <2>4, <2>7
      <4>3. h[s] = F[<<g[s \ {k}], q[k]>>]
        BY <2>5, <3>1
      <4> QED BY <3>1, <4>1, <4>2, <4>3
    <3>2. CASE k \notin s
      <4>1. s \in SUBSET (1..j) /\ s \ {Max(s)} \in SUBSET (1..j)
        BY <2>4, <3>2
      <4>2. h[s] = g[s] /\ h[s \ {Max(s)}] = g[s \ {Max(s)}]
        BY <2>7, <4>1
      <4>3. g[s] = IF s = {} THEN b ELSE F[<<g[s \ {Max(s)}], q[Max(s)]>>]
        BY <2>3, <4>1
      <4> QED BY <4>2, <4>3
    <3> QED BY <3>1, <3>2
  <2>9. D(k, h)
    BY <2>8
  <2> QED BY <1>2, <2>2, <2>6, <2>9
<1>5. Len(q) \in S
  <2>1. \A n \in 0..Len(q) : n \in S
    BY <1>1, <1>3, <1>4, UpTo
  <2> QED BY <1>1, <2>1
<1> QED BY <1>2, <1>5 DEF Folds

\* The greatest of a set of numbers is one of them.
LEMMA GreatestIn ==
  ASSUME NEW N \in Nat, NEW s \in SUBSET (1..N), s # {}
  PROVE  Max(s) \in s
<1>1. PICK T : T = {m \in Nat : \A y \in s : y <= m}
  OBVIOUS
<1>2. N \in T
  BY <1>1
<1>3. PICK m \in T : \A k \in T : m <= k
  BY <1>1, <1>2, LeastNat
<1>4. m \in s
  <2>1. ASSUME m \notin s PROVE FALSE
    <3>1. \A y \in s : y <= m /\ y # m /\ y \in Nat /\ y >= 1 /\ m \in Nat
      BY <1>1, <2>1
    <3>2. \A y \in s : y <= m - 1 /\ m >= 1
      BY <3>1
    <3>3. m - 1 \in Nat
      <4>1. PICK y \in s : TRUE
        OBVIOUS
      <4>2. m \in Nat /\ m >= 1
        BY <3>1, <3>2, <4>1
      <4> QED BY <4>2
    <3>4. m - 1 \in T
      BY <1>1, <3>2, <3>3
    <3> QED BY <1>1, <1>3, <3>3, <3>4
  <2> QED BY <2>1
<1>5. \A y \in s : m >= y
  BY <1>1
<1> QED BY <1>4, <1>5 DEF Max

\* The two folds of the model.
keep(W, rest, e) == IF e.window \in W THEN rest ELSE Append(rest, e)

\* Each stays within G, given members of X.
KeepStays(G, X, W) == \A r \in G, x \in X : keep(W, r, x) \in G
TellStays(G, X) == \A r \in G, x \in X : told(r, x) \in G

\* What each passes through.
KeepPath(f, G, q, W) ==
  /\ f \in [0..Len(q) -> G] /\ f[0] = <<>> /\ f[Len(q)] = without(q, W)
  /\ \A n \in 1..Len(q) : f[n] = keep(W, f[n - 1], q[n])
TellPath(f, G, b, q) ==
  /\ f \in [0..Len(q) -> G] /\ f[0] = b /\ f[Len(q)] = tellAll(b, q)
  /\ \A n \in 1..Len(q) : f[n] = told(f[n - 1], q[n])

\* What is left of q, one by one.
LEMMA KeepFolded ==
  ASSUME NEW G, NEW X, NEW W, KeepStays(G, X, W), NEW b, b = <<>>, b \in G, NEW q \in Seq(X)
  PROVE  \E f : KeepPath(f, G, q, W)
<1> USE DEF KeepStays
<1>1. DOMAIN q = 1..Len(q) /\ Len(q) \in Nat /\ \A n \in 1..Len(q) : q[n] \in X
  BY LenProperties, ElementOfSeq
<1> DEFINE D(g) == g = [s \in SUBSET (1..Len(q)) |->
                          IF s = {} THEN b ELSE keep(W, g[s \ {Max(s)}], q[Max(s)])]
<1>2. without(q, W) = (CHOOSE g : D(g))[1..Len(q)]
  BY <1>1 DEF without, keep, FoldLeft, MapThenFoldSet
<1>3. \A k \in 1..Len(q) : Max(1..k) = k /\ (1..k) \ {k} = 1..k - 1 /\ 1..k # {}
  <2>1. ASSUME NEW k \in 1..Len(q) PROVE Max(1..k) = k /\ (1..k) \ {k} = 1..k - 1 /\ 1..k # {}
    <3>1. k \in Nat /\ k \in 1..k /\ 1..k \in SUBSET (1..k)
      BY <1>1
    <3>2. Max(1..k) = k
      BY <3>1, Greatest
    <3>3. (1..k) \ {k} = 1..k - 1
      BY <3>1
    <3> QED BY <3>1, <3>2, <3>3
  <2> QED BY <2>1
<1>4. \E g : D(g)
  <2>1. PICK F : F = [x \in G \X X |-> keep(W, x[1], x[2])]
    OBVIOUS
  <2>2. StepsIn(F, X, G)
    BY <2>1 DEF StepsIn
  <2>3. PICK g : Folds(g, F, b, q, G)
    BY ONLY <2>2, FoldExists, b \in G, q \in Seq(X)
  <2>4. ASSUME NEW s \in SUBSET (1..Len(q)), s # {}
        PROVE  F[<<g[s \ {Max(s)}], q[Max(s)]>>] = keep(W, g[s \ {Max(s)}], q[Max(s)])
    <3>1. Max(s) \in 1..Len(q)
      BY <1>1, <2>4, GreatestIn
    <3>2. PICK w, x : w = g[s \ {Max(s)}] /\ x = q[Max(s)]
      OBVIOUS
    <3>3. w \in G /\ x \in X
      BY <1>1, <2>3, <3>1, <3>2 DEF Folds
    <3>4. F[<<w, x>>] = keep(W, w, x)
      BY <2>1, <3>3
    <3> QED BY <3>2, <3>4
  <2>5. \A s \in SUBSET (1..Len(q)) :
          g[s] = IF s = {} THEN b ELSE keep(W, g[s \ {Max(s)}], q[Max(s)])
    BY <2>3, <2>4 DEF Folds
  <2>6. D(g)
    BY <2>3, <2>5 DEF Folds
  <2> QED BY <2>6
<1>5. PICK g : g = CHOOSE h : D(h)
  OBVIOUS
<1>6. D(g)
  BY <1>4, <1>5
<1>7. PICK f : f = [n \in 0..Len(q) |-> g[1..n]]
  OBVIOUS
<1>8. f[0] = b
  <2>1. 0 \in 0..Len(q) /\ 1..0 = {} /\ {} \in SUBSET (1..Len(q))
    BY <1>1
  <2> QED BY <1>6, <1>7, <2>1
<1>9. ASSUME NEW n \in 1..Len(q) PROVE f[n] = keep(W, f[n - 1], q[n])
  <2>1. n \in 0..Len(q) /\ n - 1 \in 0..Len(q) /\ 1..n \in SUBSET (1..Len(q))
    BY <1>1
  <2>2. g[1..n] = keep(W, g[1..n - 1], q[n])
    BY <1>3, <1>6, <2>1
  <2> QED BY <1>7, <2>1, <2>2
<1>10. f[Len(q)] = without(q, W)
  <2>1. Len(q) \in 0..Len(q)
    BY <1>1
  <2> QED BY <1>2, <1>5, <1>7, <2>1
<1>11. \A n \in 0..Len(q) : f[n] \in G
  <2>1. PICK S : S = {n \in 0..Len(q) : f[n] \in G}
    OBVIOUS
  <2>2. 0 \in S
    BY <1>1, <1>8, <2>1
  <2>3. \A n \in 1..Len(q) : n - 1 \in S => n \in S
    BY <1>1, <1>9, <2>1
  <2>4. \A n \in 0..Len(q) : n \in S
    BY <1>1, <2>2, <2>3, UpTo
  <2> QED BY <2>1, <2>4
<1>12. f \in [0..Len(q) -> G]
  BY <1>7, <1>11
<1> QED BY <1>8, <1>9, <1>10, <1>12 DEF KeepPath

\* What a reader passes through that is told q.
LEMMA TellFolded ==
  ASSUME NEW G, NEW X, TellStays(G, X), NEW b \in G, NEW q \in Seq(X)
  PROVE  \E f : TellPath(f, G, b, q)
<1> USE DEF TellStays
<1>1. DOMAIN q = 1..Len(q) /\ Len(q) \in Nat /\ \A n \in 1..Len(q) : q[n] \in X
  BY LenProperties, ElementOfSeq
<1> DEFINE D(g) == g = [s \in SUBSET (1..Len(q)) |->
                          IF s = {} THEN b ELSE told(g[s \ {Max(s)}], q[Max(s)])]
<1>2. tellAll(b, q) = (CHOOSE g : D(g))[1..Len(q)]
  BY <1>1 DEF tellAll, FoldLeft, MapThenFoldSet
<1>3. \A k \in 1..Len(q) : Max(1..k) = k /\ (1..k) \ {k} = 1..k - 1 /\ 1..k # {}
  <2>1. ASSUME NEW k \in 1..Len(q) PROVE Max(1..k) = k /\ (1..k) \ {k} = 1..k - 1 /\ 1..k # {}
    <3>1. k \in Nat /\ k \in 1..k /\ 1..k \in SUBSET (1..k)
      BY <1>1
    <3>2. Max(1..k) = k
      BY <3>1, Greatest
    <3>3. (1..k) \ {k} = 1..k - 1
      BY <3>1
    <3> QED BY <3>1, <3>2, <3>3
  <2> QED BY <2>1
<1>4. \E g : D(g)
  <2>1. PICK F : F = [x \in G \X X |-> told(x[1], x[2])]
    OBVIOUS
  <2>2. StepsIn(F, X, G)
    BY <2>1 DEF StepsIn
  <2>3. PICK g : Folds(g, F, b, q, G)
    BY ONLY <2>2, FoldExists, b \in G, q \in Seq(X)
  <2>4. ASSUME NEW s \in SUBSET (1..Len(q)), s # {}
        PROVE  F[<<g[s \ {Max(s)}], q[Max(s)]>>] = told(g[s \ {Max(s)}], q[Max(s)])
    <3>1. Max(s) \in 1..Len(q)
      BY <1>1, <2>4, GreatestIn
    <3>2. PICK w, x : w = g[s \ {Max(s)}] /\ x = q[Max(s)]
      OBVIOUS
    <3>3. w \in G /\ x \in X
      BY <1>1, <2>3, <3>1, <3>2 DEF Folds
    <3>4. F[<<w, x>>] = told(w, x)
      BY <2>1, <3>3
    <3> QED BY <3>2, <3>4
  <2>5. \A s \in SUBSET (1..Len(q)) :
          g[s] = IF s = {} THEN b ELSE told(g[s \ {Max(s)}], q[Max(s)])
    BY <2>3, <2>4 DEF Folds
  <2>6. D(g)
    BY <2>3, <2>5 DEF Folds
  <2> QED BY <2>6
<1>5. PICK g : g = CHOOSE h : D(h)
  OBVIOUS
<1>6. D(g)
  BY <1>4, <1>5
<1>7. PICK f : f = [n \in 0..Len(q) |-> g[1..n]]
  OBVIOUS
<1>8. f[0] = b
  <2>1. 0 \in 0..Len(q) /\ 1..0 = {} /\ {} \in SUBSET (1..Len(q))
    BY <1>1
  <2> QED BY <1>6, <1>7, <2>1
<1>9. ASSUME NEW n \in 1..Len(q) PROVE f[n] = told(f[n - 1], q[n])
  <2>1. n \in 0..Len(q) /\ n - 1 \in 0..Len(q) /\ 1..n \in SUBSET (1..Len(q))
    BY <1>1
  <2>2. g[1..n] = told(g[1..n - 1], q[n])
    BY <1>3, <1>6, <2>1
  <2> QED BY <1>7, <2>1, <2>2
<1>10. f[Len(q)] = tellAll(b, q)
  <2>1. Len(q) \in 0..Len(q)
    BY <1>1
  <2> QED BY <1>2, <1>5, <1>7, <2>1
<1>11. \A n \in 0..Len(q) : f[n] \in G
  <2>1. PICK S : S = {n \in 0..Len(q) : f[n] \in G}
    OBVIOUS
  <2>2. 0 \in S
    BY <1>1, <1>8, <2>1
  <2>3. \A n \in 1..Len(q) : n - 1 \in S => n \in S
    BY <1>1, <1>9, <2>1
  <2>4. \A n \in 0..Len(q) : n \in S
    BY <1>1, <2>2, <2>3, UpTo
  <2> QED BY <2>1, <2>4
<1>12. f \in [0..Len(q) -> G]
  BY <1>7, <1>11
<1> QED BY <1>8, <1>9, <1>10, <1>12 DEF TellPath

-----------------------------------------------------------------------------
(* Lists of windows *)

\* The windows of a list by its members.
LEMMA WindowsOf ==
  ASSUME NEW q
  PROVE  windowsOf(q) = {x.window : x \in ToSet(q)}
BY DEF windowsOf, ToSet

\* A list in order names a window once.
LEMMA Once ==
  ASSUME NEW X, \A x \in X : x.window \in Nat, NEW q \in Seq(X), Sorted(q)
  PROVE  /\ \A i, j \in DOMAIN q : q[i].window = q[j].window => i = j
         /\ \A x, y \in ToSet(q) : x.window = y.window => x = y
         /\ ToSet(q) \subseteq X
<1>1. DOMAIN q = 1..Len(q) /\ Len(q) \in Nat /\ \A i \in DOMAIN q : q[i] \in X /\ q[i].window \in Nat
  BY LenProperties, ElementOfSeq
<1>2. ASSUME NEW i \in DOMAIN q, NEW j \in DOMAIN q, q[i].window = q[j].window PROVE i = j
  <2>1. ~(i < j) /\ ~(j < i)
    BY <1>1, <1>2 DEF Sorted
  <2> QED BY <1>1, <2>1
<1> QED BY <1>1, <1>2 DEF ToSet

\* find finds the place of a window in a list.
LEMMA Found ==
  ASSUME NEW q, NEW w \in windowsOf(q)
  PROVE  /\ find(q, w) \in DOMAIN q /\ q[find(q, w)].window = w
         /\ q[find(q, w)] \in ToSet(q)
<1>1. \E i \in DOMAIN q : q[i].window = w
  BY DEF windowsOf
<1> QED BY <1>1 DEF find, ToSet

\* Two lists in order that name the same windows name them at the same places.
LEMMA SameNames ==
  ASSUME NEW X, \A x \in X : x.window \in Nat, NEW p \in Seq(X), Sorted(p),
         NEW Y, \A y \in Y : y.window \in Nat, NEW q \in Seq(Y), Sorted(q),
         windowsOf(p) = windowsOf(q)
  PROVE  names(p) = names(q) /\ DOMAIN p = DOMAIN q
<1>1. /\ DOMAIN p = 1..Len(p) /\ Len(p) \in Nat /\ \A i \in DOMAIN p : p[i].window \in Nat
      /\ DOMAIN q = 1..Len(q) /\ Len(q) \in Nat /\ \A i \in DOMAIN q : q[i].window \in Nat
  BY LenProperties, ElementOfSeq
<1>2. PICK T : T = {n \in Nat : /\ n \in DOMAIN p \cup DOMAIN q
                                /\ ~(n \in DOMAIN p \cap DOMAIN q /\ p[n].window = q[n].window)}
  OBVIOUS
<1>3. ASSUME T # {} PROVE FALSE
  <2>1. PICK n \in T : \A m \in T : n <= m
    BY <1>2, <1>3, LeastNat
  <2>2. n \in Nat /\ n >= 1 /\ \A m \in 1..n - 1 :
          m \in DOMAIN p /\ m \in DOMAIN q /\ p[m].window = q[m].window
    <3>1. n \in Nat /\ n >= 1 /\ n \in DOMAIN p \cup DOMAIN q
      BY <1>1, <1>2, <2>1
    <3>2. ASSUME NEW m \in 1..n - 1
          PROVE  m \in DOMAIN p /\ m \in DOMAIN q /\ p[m].window = q[m].window
      <4>1. m \in Nat /\ ~(n <= m) /\ m \in DOMAIN p \cup DOMAIN q
        BY <1>1, <3>1, <3>2
      <4>2. m \notin T
        BY <2>1, <4>1
      <4> QED BY <1>2, <4>1, <4>2
    <3> QED BY <3>1, <3>2
  <2>3. ASSUME n \in DOMAIN p PROVE n \in DOMAIN q /\ q[n].window <= p[n].window
    <3>1. PICK j \in DOMAIN q : q[j].window = p[n].window
      <4>1. p[n].window \in windowsOf(p)
        BY <2>3 DEF windowsOf
      <4> QED BY <4>1 DEF windowsOf
    <3>2. ~(j < n)
      <4>1. ASSUME j < n PROVE FALSE
        <5>1. j \in 1..n - 1
          BY <1>1, <2>2, <4>1
        <5>2. j \in DOMAIN p /\ p[j].window = p[n].window
          BY <2>2, <3>1, <5>1
        <5>3. p[j].window < p[n].window
          BY <2>3, <4>1, <5>2 DEF Sorted
        <5> QED BY <1>1, <2>3, <5>2, <5>3
      <4> QED BY <4>1
    <3>3. n \in DOMAIN q
      BY <1>1, <2>2, <3>1, <3>2
    <3>4. j = n \/ n < j
      BY <1>1, <2>2, <3>2
    <3>5. n < j => q[n].window < q[j].window
      BY <3>3 DEF Sorted
    <3> QED BY <1>1, <3>1, <3>3, <3>4, <3>5
  <2>4. ASSUME n \in DOMAIN q PROVE n \in DOMAIN p /\ p[n].window <= q[n].window
    <3>1. PICK j \in DOMAIN p : p[j].window = q[n].window
      <4>1. q[n].window \in windowsOf(q)
        BY <2>4 DEF windowsOf
      <4> QED BY <4>1 DEF windowsOf
    <3>2. ~(j < n)
      <4>1. ASSUME j < n PROVE FALSE
        <5>1. j \in 1..n - 1
          BY <1>1, <2>2, <4>1
        <5>2. j \in DOMAIN q /\ q[j].window = q[n].window
          BY <2>2, <3>1, <5>1
        <5>3. q[j].window < q[n].window
          BY <2>4, <4>1, <5>2 DEF Sorted
        <5> QED BY <1>1, <2>4, <5>2, <5>3
      <4> QED BY <4>1
    <3>3. n \in DOMAIN p
      BY <1>1, <2>2, <3>1, <3>2
    <3>4. j = n \/ n < j
      BY <1>1, <2>2, <3>2
    <3>5. n < j => p[n].window < p[j].window
      BY <3>3 DEF Sorted
    <3> QED BY <1>1, <3>1, <3>3, <3>4, <3>5
  <2>5. n \in DOMAIN p /\ n \in DOMAIN q /\ p[n].window = q[n].window
    <3>1. n \in DOMAIN p /\ n \in DOMAIN q
      BY <1>2, <2>1, <2>3, <2>4
    <3> QED BY <1>1, <2>3, <2>4, <3>1
  <2> QED BY <1>2, <2>1, <2>5
<1>4. ASSUME NEW n \in DOMAIN p \cup DOMAIN q
      PROVE  n \in DOMAIN p /\ n \in DOMAIN q /\ p[n].window = q[n].window
  <2>1. n \in Nat
    BY <1>1, <1>4
  <2>2. n \notin T
    BY <1>3
  <2> QED BY <1>2, <1>4, <2>1, <2>2
<1>5. DOMAIN p = DOMAIN q
  BY <1>4
<1> QED BY <1>4, <1>5 DEF names

\* edited puts e in the place of what the list has of w.
LEMMA Edited ==
  ASSUME NEW X, NEW q \in Seq(X), NEW w, NEW e, w \in windowsOf(q) => e \in X /\ e.window = w,
         NEW u, u = edited(q, w, e)
  PROVE  /\ u \in Seq(X) /\ windowsOf(u) = windowsOf(q) /\ DOMAIN u = DOMAIN q
         /\ Sorted(q) => Sorted(u)
         /\ \A i \in DOMAIN q : u[i].window = q[i].window
         /\ \A x \in ToSet(u) : \/ x \in ToSet(q) /\ x.window # w
                                \/ x = e /\ x.window = w /\ w \in windowsOf(q)
<1>1. DOMAIN q = 1..Len(q) /\ Len(q) \in Nat /\ \A i \in DOMAIN q : q[i] \in X
  BY LenProperties, ElementOfSeq
<1>2. DOMAIN u = DOMAIN q /\ \A i \in DOMAIN q : u[i] = IF q[i].window = w THEN e ELSE q[i]
  BY DEF edited
<1>3. \A i \in DOMAIN q : q[i].window = w => w \in windowsOf(q)
  BY DEF windowsOf
<1>4. ASSUME NEW i \in DOMAIN q PROVE u[i] \in X /\ u[i].window = q[i].window
  <2>1. CASE q[i].window = w
    BY <1>2, <1>3, <2>1
  <2>2. CASE q[i].window # w
    BY <1>1, <1>2, <2>2
  <2> QED BY <2>1, <2>2
<1>5. u \in Seq(X)
  <2>1. u = [i \in 1..Len(q) |-> u[i]]
    BY <1>1, <1>2 DEF edited
  <2>2. \A i \in 1..Len(q) : u[i] \in X
    BY <1>1, <1>4
  <2> QED BY <1>1, <2>1, <2>2, IsASeq
<1>6. windowsOf(u) = windowsOf(q)
  BY <1>2, <1>4 DEF windowsOf
<1>7. Sorted(q) => Sorted(u)
  BY <1>2, <1>4 DEF Sorted
<1>8. ASSUME NEW x \in ToSet(u)
      PROVE  \/ x \in ToSet(q) /\ x.window # w
             \/ x = e /\ x.window = w /\ w \in windowsOf(q)
  <2>1. PICK i \in DOMAIN q : x = u[i]
    BY <1>2, <1>8 DEF ToSet
  <2> QED BY <1>2, <1>3, <1>4, <2>1 DEF ToSet
<1> QED BY <1>2, <1>4, <1>5, <1>6, <1>7, <1>8

\* without leaves the windows outside of W, in order.
LEMMA Without ==
  ASSUME NEW X, \A x \in X : x.window \in Nat, NEW q \in Seq(X), Sorted(q), NEW W,
         NEW u, u = without(q, W)
  PROVE  /\ u \in Seq(X) /\ Sorted(u) /\ windowsOf(u) = windowsOf(q) \ W
         /\ ToSet(u) = {x \in ToSet(q) : x.window \notin W}
<1>1. DOMAIN q = 1..Len(q) /\ Len(q) \in Nat /\ \A i \in 1..Len(q) : q[i] \in X /\ q[i].window \in Nat
  BY LenProperties, ElementOfSeq
<1>2. PICK b : b = <<>>
  OBVIOUS
<1>3. b \in Seq(X) /\ KeepStays(Seq(X), X, W)
  <2>1. \A r \in Seq(X), x \in X : Append(r, x) \in Seq(X)
    BY AppendProperties
  <2> QED BY <1>2, <2>1, EmptySeq DEF KeepStays, keep
<1>4. PICK f : KeepPath(f, Seq(X), q, W)
  BY <1>2, <1>3, KeepFolded
<1> DEFINE Left(n) == {q[i] : i \in {j \in 1..n : q[j].window \notin W}}
<1>5. PICK S : S = {n \in 0..Len(q) : ToSet(f[n]) = Left(n) /\ Sorted(f[n])}
  OBVIOUS
<1>6. 0 \in S
  <2>1. f[0] = <<>> /\ 0 \in 0..Len(q)
    BY <1>1, <1>4 DEF KeepPath
  <2>2. ToSet(<<>>) = {} /\ Sorted(<<>>)
    BY DEF ToSet, Sorted
  <2>3. Left(0) = {}
    OBVIOUS
  <2> QED BY <1>5, <2>1, <2>2, <2>3
<1>7. ASSUME NEW n \in 1..Len(q), n - 1 \in S PROVE n \in S
  <2>1. PICK r : r = f[n - 1]
    OBVIOUS
  <2>2. PICK x : x = q[n]
    OBVIOUS
  <2>3. /\ r \in Seq(X) /\ x \in X /\ ToSet(r) = Left(n - 1) /\ Sorted(r)
        /\ f[n] = keep(W, r, x) /\ n \in 0..Len(q) /\ x.window \in Nat
    <3>1. n \in 0..Len(q) /\ n - 1 \in 0..Len(q)
      BY <1>1, <1>7
    <3>2. r \in Seq(X) /\ f[n] = keep(W, r, x)
      BY <1>4, <2>1, <2>2, <3>1 DEF KeepPath
    <3>3. ToSet(r) = Left(n - 1) /\ Sorted(r)
      BY <1>5, <1>7, <2>1
    <3>4. x \in X /\ x.window \in Nat
      BY <1>1, <2>2
    <3> QED BY <3>1, <3>2, <3>3, <3>4
  <2>4. CASE x.window \in W
    <3>1. Left(n) = Left(n - 1)
      <4>1. {j \in 1..n : q[j].window \notin W} = {j \in 1..n - 1 : q[j].window \notin W}
        BY <1>1, <2>2, <2>4
      <4> QED BY <4>1
    <3>2. f[n] = r
      BY <2>3, <2>4 DEF keep
    <3> QED BY <1>5, <2>3, <3>1, <3>2
  <2>5. CASE x.window \notin W
    <3>1. Left(n) = Left(n - 1) \cup {x}
      <4>1. {j \in 1..n : q[j].window \notin W} = {j \in 1..n - 1 : q[j].window \notin W} \cup {n}
        BY <1>1, <2>2, <2>5
      <4> QED BY <2>2, <4>1
    <3>2. f[n] = Append(r, x)
      BY <2>3, <2>5 DEF keep
    <3>3. PICK v : v = Append(r, x)
      OBVIOUS
    <3>4. /\ Len(r) \in Nat /\ DOMAIN r = 1..Len(r) /\ DOMAIN v = 1..Len(r) + 1
          /\ v[Len(r) + 1] = x /\ \A i \in 1..Len(r) : v[i] = r[i]
      BY <2>3, <3>3, AppendProperties, LenProperties
    <3>5. ToSet(v) = ToSet(r) \cup {x}
      <4>1. ToSet(v) = {v[i] : i \in 1..Len(r) + 1} /\ ToSet(r) = {r[i] : i \in 1..Len(r)}
        BY <3>4 DEF ToSet
      <4>2. 1..Len(r) + 1 = (1..Len(r)) \cup {Len(r) + 1}
        BY <3>4
      <4> QED BY <3>4, <4>1, <4>2
    <3>6. ASSUME NEW i \in DOMAIN v, NEW j \in DOMAIN v, i < j PROVE v[i].window < v[j].window
      <4>1. i \in 1..Len(r) /\ v[i] = r[i]
        BY <3>4, <3>6
      <4>2. CASE j \in 1..Len(r)
        BY <2>3, <3>4, <3>6, <4>1, <4>2 DEF Sorted
      <4>3. CASE j = Len(r) + 1
        <5>1. r[i] \in Left(n - 1)
          BY <2>3, <3>4, <4>1 DEF ToSet
        <5>2. PICK k \in 1..n - 1 : r[i] = q[k]
          BY <5>1
        <5>3. k \in DOMAIN q /\ n \in DOMAIN q /\ k < n
          BY <1>1, <1>7, <5>2
        <5>4. q[k].window < q[n].window
          BY <5>3 DEF Sorted
        <5> QED BY <2>2, <3>4, <4>1, <4>3, <5>2, <5>4
      <4> QED BY <3>4, <4>2, <4>3
    <3>7. Sorted(v)
      BY <3>6 DEF Sorted
    <3> QED BY <1>5, <2>3, <3>1, <3>2, <3>3, <3>5, <3>7
  <2> QED BY <2>4, <2>5
<1>8. \A n \in 0..Len(q) : n \in S
  BY <1>1, <1>6, <1>7, UpTo
<1>9. u = f[Len(q)] /\ f[Len(q)] \in Seq(X) /\ Len(q) \in S
  BY <1>1, <1>4, <1>8 DEF KeepPath
<1>10. Left(Len(q)) = {x \in ToSet(q) : x.window \notin W}
  BY <1>1 DEF ToSet
<1>11. ToSet(u) = {x \in ToSet(q) : x.window \notin W} /\ Sorted(u)
  BY <1>5, <1>9, <1>10
<1>12. windowsOf(u) = windowsOf(q) \ W
  BY <1>11, WindowsOf
<1> QED BY <1>9, <1>11, <1>12

-----------------------------------------------------------------------------
(* Members *)

\* Windows are numbers.
LEMMA Numbers ==
  /\ Ids \subseteq Nat /\ NoWindow \notin Ids /\ \A w \in Ids : w \in 1..MaxWindows
  /\ \A x \in Entries : x.window \in Nat /\ x.window \in Ids
  /\ \A x \in States : x.window \in Nat /\ x.window \in Ids
  /\ \A x \in Applied : x.window \in Nat /\ x.window \in Ids
BY WindowsAssumption DEF Ids, NoWindow, Entries, States, Applied

\* A function from some of the windows.
LEMMA Partials ==
  ASSUME NEW X, NEW f
  PROVE  /\ f \in Partial(X) => /\ f \in [DOMAIN f -> X] /\ DOMAIN f \in SUBSET Ids
                                /\ \A w \in DOMAIN f : f[w] \in X
         /\ \A W \in SUBSET Ids : f \in [W -> X] => f \in Partial(X)
<1>1. ASSUME f \in Partial(X)
      PROVE  /\ f \in [DOMAIN f -> X] /\ DOMAIN f \in SUBSET Ids
             /\ \A w \in DOMAIN f : f[w] \in X
  <2>1. PICK W \in SUBSET Ids : f \in [W -> X]
    BY <1>1 DEF Partial
  <2> QED BY <2>1
<1>2. ASSUME NEW W \in SUBSET Ids, f \in [W -> X] PROVE f \in Partial(X)
  BY <1>2 DEF Partial
<1> QED BY <1>1, <1>2

\* The kinds of changes and what each kind has.
LEMMA ChangeKinds ==
  ASSUME NEW c \in Changes
  PROVE  /\ c.window \in Ids
         /\ c.kind \in {"Opened", "Closed", "Key", "Focus", "Move", "Enter", "Leave"}
         /\ c.kind \in {"Opened", "Closed"} => c \in Lifes
         /\ c.kind = "Key" => c \in Presses /\ c.key \in Keys /\ c.pressed \in BOOLEAN
         /\ c.kind = "Focus" => c \in Focuses /\ c.focused \in BOOLEAN
         /\ c.kind \in {"Move", "Enter", "Leave"} => c.position \in Positions
         /\ c.kind # "Move" => c \in Events
<1>1. CASE c \in Lifes
  BY <1>1 DEF Lifes, Events
<1>2. CASE c \in Presses
  BY <1>2 DEF Presses, Events
<1>3. CASE c \in Focuses
  BY <1>3 DEF Focuses, Events
<1>4. CASE c \in [kind : {"Move", "Enter", "Leave"}, window : Ids, position : Positions]
  <2>1. c.kind \in {"Move", "Enter", "Leave"} /\ c.window \in Ids /\ c.position \in Positions
    BY <1>4
  <2>2. c.kind # "Move" => c \in [kind : {"Enter", "Leave"}, window : Ids, position : Positions]
    BY <1>4
  <2> QED BY <2>1, <2>2 DEF Events
<1> QED BY <1>1, <1>2, <1>3, <1>4 DEF Changes

\* What is appended to a list comes last.
LEMMA Appended ==
  ASSUME NEW X, NEW q \in Seq(X), NEW c \in X, NEW u, u = Append(q, c)
  PROVE  /\ u \in Seq(X) /\ Len(q) \in Nat /\ DOMAIN q = 1..Len(q) /\ DOMAIN u = 1..Len(q) + 1
         /\ Len(u) = Len(q) + 1
         /\ u[Len(q) + 1] = c /\ \A i \in DOMAIN q : i \in DOMAIN u /\ u[i] = q[i]
         /\ \A i \in DOMAIN u : i \in DOMAIN q \/ i = Len(q) + 1
         /\ \A i \in DOMAIN q : i < Len(q) + 1
         /\ ToSet(u) = ToSet(q) \cup {c}
<1>1. /\ u \in Seq(X) /\ Len(q) \in Nat /\ DOMAIN q = 1..Len(q) /\ DOMAIN u = 1..Len(q) + 1
      /\ Len(u) = Len(q) + 1
      /\ u[Len(q) + 1] = c /\ \A i \in 1..Len(q) : u[i] = q[i]
  BY AppendProperties, LenProperties
<1>2. /\ \A i \in DOMAIN q : i \in DOMAIN u /\ u[i] = q[i]
      /\ \A i \in DOMAIN u : i \in DOMAIN q \/ i = Len(q) + 1
      /\ \A i \in DOMAIN q : i < Len(q) + 1
  BY <1>1
<1>3. ToSet(u) = ToSet(q) \cup {c}
  BY <1>1, <1>2 DEF ToSet
<1> QED BY <1>1, <1>2, <1>3

\* The first of a list, and the rest one place further.
LEMMA Tailed ==
  ASSUME NEW X, NEW q \in Seq(X), q # <<>>, NEW t, t = Tail(q)
  PROVE  /\ t \in Seq(X) /\ Head(q) = q[1] /\ 1 \in DOMAIN q /\ Head(q) \in X
         /\ Len(q) \in Nat /\ DOMAIN q = 1..Len(q)
         /\ \A i \in DOMAIN t : i \in Nat /\ i + 1 \in DOMAIN q /\ t[i] = q[i + 1]
         /\ \A i \in DOMAIN q : i # 1 => i - 1 \in DOMAIN t /\ t[i - 1] = q[i]
<1>1. /\ t \in Seq(X) /\ Head(q) \in X /\ Len(q) \in Nat /\ Len(q) # 0
      /\ DOMAIN q = 1..Len(q) /\ Len(t) = Len(q) - 1 /\ DOMAIN t = 1..Len(t)
      /\ \A i \in 1..Len(t) : t[i] = q[i + 1]
  BY HeadTailProperties, LenProperties, EmptySeq
<1>2. Head(q) = q[1]
  OBVIOUS
<1>3. \A i \in DOMAIN t : i \in Nat /\ i + 1 \in DOMAIN q /\ t[i] = q[i + 1]
  BY <1>1
<1>4. ASSUME NEW i \in DOMAIN q, i # 1 PROVE i - 1 \in DOMAIN t /\ t[i - 1] = q[i]
  <2>1. i - 1 \in 1..Len(t) /\ (i - 1) + 1 = i
    BY <1>1, <1>4
  <2> QED BY <1>1, <2>1
<1> QED BY <1>1, <1>2, <1>3, <1>4

-----------------------------------------------------------------------------
(* The changes to fold *)

\* One change more.
LEMMA MoreToFold ==
  ASSUME NEW q \in Seq(Changes), NEW c \in Changes, NEW u, u = Append(q, c), NEW w, NEW b
  PROVE  /\ opens(u, w) <=> opens(q, w) \/ (c.kind = "Opened" /\ c.window = w)
         /\ closes(u, w) <=> closes(q, w) \/ (c.kind = "Closed" /\ c.window = w)
         /\ focuses(u, w) <=>
              focuses(q, w) \/ (c.kind = "Focus" /\ c.window = w /\ c.focused)
         /\ endsFocused(u, w, b) <=>
              IF c.kind = "Focus" /\ c.window = w THEN c.focused ELSE endsFocused(q, w, b)
<1>1. PICK n : n = Len(q) + 1
  OBVIOUS
<1>2. /\ u \in Seq(Changes) /\ n \in Nat /\ n \in DOMAIN u /\ u[n] = c
      /\ \A i \in DOMAIN q : i \in DOMAIN u /\ u[i] = q[i] /\ i \in Nat /\ i < n
      /\ \A i \in DOMAIN u : i \in Nat /\ (i \in DOMAIN q \/ i = n)
  BY <1>1, Appended
<1>3. opens(u, w) <=> opens(q, w) \/ (c.kind = "Opened" /\ c.window = w)
  BY <1>2 DEF opens
<1>4. closes(u, w) <=> closes(q, w) \/ (c.kind = "Closed" /\ c.window = w)
  BY <1>2 DEF closes
<1>5. focuses(u, w) <=> focuses(q, w) \/ (c.kind = "Focus" /\ c.window = w /\ c.focused)
  BY <1>2 DEF focuses
<1>6. CASE c.kind = "Focus" /\ c.window = w
  <2>1. ASSUME c.focused PROVE endsFocused(u, w, b)
    <3>1. \A j \in DOMAIN u : j <= n
      BY <1>2
    <3> QED BY <1>2, <1>6, <2>1, <3>1 DEF endsFocused
  <2>2. ASSUME endsFocused(u, w, b) PROVE c.focused
    <3>1. PICK i \in DOMAIN u :
            /\ u[i].kind = "Focus" /\ u[i].window = w /\ u[i].focused
            /\ \A j \in DOMAIN u : u[j].kind = "Focus" /\ u[j].window = w => j <= i
      BY <1>2, <1>6, <2>2 DEF endsFocused
    <3>2. n <= i /\ i <= n /\ i \in Nat
      BY <1>2, <1>6, <3>1
    <3>3. i = n
      BY <1>2, <3>2
    <3> QED BY <1>2, <3>1, <3>3
  <2> QED BY <1>3, <1>4, <1>5, <1>6, <2>1, <2>2
<1>7. CASE ~(c.kind = "Focus" /\ c.window = w)
  <2>1. \A i \in DOMAIN u : u[i].kind = "Focus" /\ u[i].window = w => i \in DOMAIN q
    BY <1>2, <1>7
  <2>2. endsFocused(u, w, b) <=> endsFocused(q, w, b)
    <3>1. ASSUME endsFocused(u, w, b) PROVE endsFocused(q, w, b)
      BY <1>2, <2>1, <3>1 DEF endsFocused
    <3>2. ASSUME endsFocused(q, w, b) PROVE endsFocused(u, w, b)
      BY <1>2, <2>1, <3>2 DEF endsFocused
    <3> QED BY <3>1, <3>2
  <2> QED BY <1>3, <1>4, <1>5, <1>7, <2>2
<1> QED BY <1>6, <1>7

\* One change less.
LEMMA LessToFold ==
  ASSUME NEW q \in Seq(Changes), q # <<>>, NEW c, c = Head(q), NEW t, t = Tail(q), NEW w
  PROVE  /\ opens(q, w) <=> opens(t, w) \/ (c.kind = "Opened" /\ c.window = w)
         /\ closes(q, w) <=> closes(t, w) \/ (c.kind = "Closed" /\ c.window = w)
         /\ focuses(q, w) <=>
              focuses(t, w) \/ (c.kind = "Focus" /\ c.window = w /\ c.focused)
<1>1. /\ t \in Seq(Changes) /\ c = q[1] /\ 1 \in DOMAIN q
      /\ \A i \in DOMAIN t : i \in Nat /\ i + 1 \in DOMAIN q /\ t[i] = q[i + 1]
      /\ \A i \in DOMAIN q : i \in Nat /\ 1 <= i /\ (i # 1 => i - 1 \in DOMAIN t /\ t[i - 1] = q[i])
  BY Tailed
<1>2. opens(q, w) <=> opens(t, w) \/ (c.kind = "Opened" /\ c.window = w)
  <2> DEFINE G(x) == x.kind = "Opened" /\ x.window = w
  <2>1. (\E i \in DOMAIN q : G(q[i])) <=> (\E i \in DOMAIN t : G(t[i])) \/ G(q[1])
    <3> HIDE DEF G
    <3> QED BY <1>1
  <2> QED BY <1>1, <2>1 DEF opens
<1>3. closes(q, w) <=> closes(t, w) \/ (c.kind = "Closed" /\ c.window = w)
  <2> DEFINE G(x) == x.kind = "Closed" /\ x.window = w
  <2>1. (\E i \in DOMAIN q : G(q[i])) <=> (\E i \in DOMAIN t : G(t[i])) \/ G(q[1])
    <3> HIDE DEF G
    <3> QED BY <1>1
  <2> QED BY <1>1, <2>1 DEF closes
<1>4. focuses(q, w) <=> focuses(t, w) \/ (c.kind = "Focus" /\ c.window = w /\ c.focused)
  <2> DEFINE G(x) == x.kind = "Focus" /\ x.window = w /\ x.focused
  <2>1. (\E i \in DOMAIN q : G(q[i])) <=> (\E i \in DOMAIN t : G(t[i])) \/ G(q[1])
    <3> HIDE DEF G
    <3> QED BY <1>1
  <2> QED BY <1>1, <2>1 DEF focuses
<1> QED BY <1>2, <1>3, <1>4

\* Whether w ends with the focus, after one change less.
LEMMA LessFocus ==
  ASSUME NEW q \in Seq(Changes), q # <<>>, NEW w, NEW b \in BOOLEAN, NEW a \in BOOLEAN,
         Head(q).kind = "Focus" /\ Head(q).window = w => (a <=> Head(q).focused),
         ~(Head(q).kind = "Focus" /\ Head(q).window = w) => (a <=> b)
  PROVE  endsFocused(q, w, b) <=> endsFocused(Tail(q), w, a)
<1>0. PICK c, t : c = Head(q) /\ t = Tail(q)
  OBVIOUS
<1>1. /\ t \in Seq(Changes) /\ c = q[1] /\ 1 \in DOMAIN q
      /\ \A i \in DOMAIN t : i \in Nat /\ i + 1 \in DOMAIN q /\ t[i] = q[i + 1]
      /\ \A i \in DOMAIN q : i \in Nat /\ 1 <= i /\ (i # 1 => i - 1 \in DOMAIN t /\ t[i - 1] = q[i])
  BY <1>0, Tailed
<1> DEFINE F(x) == x.kind = "Focus" /\ x.window = w
<1>2. ASSUME endsFocused(q, w, b) PROVE endsFocused(t, w, a)
  <2>1. CASE \E i \in DOMAIN q : F(q[i]) /\ q[i].focused /\ \A j \in DOMAIN q : F(q[j]) => j <= i
    <3>1. PICK i \in DOMAIN q : F(q[i]) /\ q[i].focused /\ \A j \in DOMAIN q : F(q[j]) => j <= i
      BY <2>1
    <3>2. CASE i = 1
      <4>1. a
        BY <1>0, <1>1, <3>1, <3>2
      <4>2. ASSUME NEW j \in DOMAIN t PROVE ~F(t[j])
        <5>1. j \in Nat /\ j + 1 \in DOMAIN q /\ t[j] = q[j + 1]
          BY <1>1
        <5>2. j # 0
          <6>1. DOMAIN t = 1..Len(t)
            BY <1>1, LenProperties
          <6> QED BY <6>1
        <5>3. ~(j + 1 <= i)
          BY <3>2, <5>1, <5>2
        <5> QED BY <3>1, <5>1, <5>3
      <4> QED BY <4>1, <4>2 DEF endsFocused
    <3>3. CASE i # 1
      <4>1. i - 1 \in DOMAIN t /\ t[i - 1] = q[i]
        BY <1>1, <3>3
      <4>2. ASSUME NEW j \in DOMAIN t, F(t[j]) PROVE j <= i - 1
        <5>1. j \in Nat /\ j + 1 \in DOMAIN q /\ t[j] = q[j + 1]
          BY <1>1
        <5>2. j + 1 <= i
          BY <3>1, <4>2, <5>1
        <5> QED BY <1>1, <5>1, <5>2
      <4> QED BY <3>1, <4>1, <4>2 DEF endsFocused
    <3> QED BY <3>2, <3>3
  <2>2. CASE b /\ \A j \in DOMAIN q : ~F(q[j])
    <3>1. a
      BY <1>0, <1>1, <2>2
    <3>2. \A j \in DOMAIN t : ~F(t[j])
      BY <1>1, <2>2
    <3> QED BY <3>1, <3>2 DEF endsFocused
  <2> QED BY <1>2, <2>1, <2>2 DEF endsFocused
<1>3. ASSUME endsFocused(t, w, a) PROVE endsFocused(q, w, b)
  <2>1. CASE \E i \in DOMAIN t : F(t[i]) /\ t[i].focused /\ \A j \in DOMAIN t : F(t[j]) => j <= i
    <3>1. PICK i \in DOMAIN t : F(t[i]) /\ t[i].focused /\ \A j \in DOMAIN t : F(t[j]) => j <= i
      BY <2>1
    <3>2. i \in Nat /\ i + 1 \in DOMAIN q /\ t[i] = q[i + 1]
      BY <1>1
    <3>3. ASSUME NEW j \in DOMAIN q, F(q[j]) PROVE j <= i + 1
      <4>1. CASE j = 1
        BY <3>2, <4>1
      <4>2. CASE j # 1
        <5>1. j \in Nat /\ j - 1 \in DOMAIN t /\ t[j - 1] = q[j]
          BY <1>1, <4>2
        <5>2. j - 1 <= i
          BY <3>1, <3>3, <5>1
        <5> QED BY <3>2, <5>1, <5>2
      <4> QED BY <4>1, <4>2
    <3> QED BY <3>1, <3>2, <3>3 DEF endsFocused
  <2>2. CASE a /\ \A j \in DOMAIN t : ~F(t[j])
    <3>1. CASE F(c)
      <4>1. c.focused
        BY <1>0, <2>2, <3>1
      <4>2. ASSUME NEW j \in DOMAIN q, F(q[j]) PROVE j <= 1
        <5>1. ASSUME j # 1 PROVE FALSE
          <6>1. j - 1 \in DOMAIN t /\ F(t[j - 1])
            BY <1>1, <4>2, <5>1
          <6> QED BY <2>2, <6>1
        <5> QED BY <5>1
      <4> QED BY <1>1, <3>1, <4>1, <4>2 DEF endsFocused
    <3>2. CASE ~F(c)
      <4>1. b
        BY <1>0, <2>2, <3>2
      <4>2. ASSUME NEW j \in DOMAIN q, F(q[j]) PROVE FALSE
        <5>1. j # 1
          BY <1>1, <3>2, <4>2
        <5>2. j - 1 \in DOMAIN t /\ F(t[j - 1])
          BY <1>1, <4>2, <5>1
        <5> QED BY <2>2, <5>2
      <4> QED BY <4>1, <4>2 DEF endsFocused
    <3> QED BY <3>1, <3>2
  <2> QED BY <1>3, <2>1, <2>2 DEF endsFocused
<1> QED BY <1>0, <1>2, <1>3

\* The changes stay in order when one more is reported that opens nothing.
LEMMA ChangesMore ==
  ASSUME NEW there, NEW W, NEW q \in Seq(Changes), ChangesInv(q, there, W),
         NEW c \in Changes, c.kind # "Opened", c.window \in there, there \subseteq W,
         NEW left, IF c.kind = "Closed"
                   THEN /\ left = there \ {c.window}
                        /\ \A i \in DOMAIN q : q[i].kind \in {"Opened", "Closed"}
                   ELSE left = there,
         NEW u, u = Append(q, c)
  PROVE  ChangesInv(u, left, W)
<1>1. PICK n : n = Len(q) + 1
  OBVIOUS
<1>2. /\ u \in Seq(Changes) /\ n \in Nat /\ n \in DOMAIN u /\ u[n] = c
      /\ \A i \in DOMAIN q : i \in DOMAIN u /\ u[i] = q[i] /\ i \in Nat /\ i < n
      /\ \A i \in DOMAIN u : i \in Nat /\ (i \in DOMAIN q \/ i = n)
  BY <1>1, Appended
<1>3. ASSUME NEW i \in DOMAIN u, NEW j \in DOMAIN u, i < j, u[j].kind = "Opened"
      PROVE  u[i].kind = "Opened"
  <2>1. j \in DOMAIN q
    BY <1>2, <1>3
  <2>2. i \in DOMAIN q
    <3>1. j < n /\ i \in Nat /\ j \in Nat
      BY <1>2, <2>1
    <3>2. i # n
      BY <1>2, <1>3, <3>1
    <3> QED BY <1>2, <3>2
  <2> QED BY <1>2, <1>3, <2>1, <2>2 DEF ChangesInv
<1>4. ASSUME c.kind = "Closed", NEW i \in DOMAIN q, q[i].kind = "Closed"
      PROVE  q[i].window # c.window
  BY <1>4 DEF ChangesInv
<1>5. ASSUME NEW i \in DOMAIN u, NEW j \in DOMAIN u, u[i].kind \in {"Opened", "Closed"},
             u[j].kind = u[i].kind, u[j].window = u[i].window
      PROVE  i = j
  <2>1. CASE i \in DOMAIN q /\ j \in DOMAIN q
    BY <1>2, <1>5, <2>1 DEF ChangesInv
  <2>2. CASE i = n /\ j \in DOMAIN q
    <3>1. c.kind = "Closed" /\ q[j].kind = "Closed" /\ q[j].window = c.window
      BY <1>2, <1>5, <2>2
    <3> QED BY <1>4, <2>2, <3>1
  <2>3. CASE i \in DOMAIN q /\ j = n
    <3>1. c.kind = "Closed" /\ q[i].kind = "Closed" /\ q[i].window = c.window
      BY <1>2, <1>5, <2>3
    <3> QED BY <1>4, <2>3, <3>1
  <2> QED BY <1>2, <2>1, <2>2, <2>3
<1>6. ASSUME NEW i \in DOMAIN u
      PROVE  /\ u[i].window \in W
             /\ u[i].kind = "Closed" => u[i].window \notin left
             /\ u[i].kind \notin {"Opened", "Closed"} => u[i].window \in left
  <2>1. CASE i = n
    BY <1>2, <2>1
  <2>2. CASE i \in DOMAIN q
    <3>1. u[i] = q[i]
      BY <1>2, <2>2
    <3>2. /\ q[i].window \in W
          /\ q[i].kind = "Closed" => q[i].window \notin there
          /\ q[i].kind \notin {"Opened", "Closed"} => q[i].window \in there
      BY <2>2 DEF ChangesInv
    <3>3. c.kind = "Closed" => q[i].kind \in {"Opened", "Closed"}
      BY <2>2
    <3> QED BY <3>1, <3>2, <3>3
  <2> QED BY <1>2, <2>1, <2>2
<1> QED BY <1>3, <1>5, <1>6 DEF ChangesInv

\* And when the first is folded; what closed is known no longer.
LEMMA ChangesLess ==
  ASSUME NEW there, NEW W, NEW q \in Seq(Changes), q # <<>>, ChangesInv(q, there, W),
         NEW c, c = Head(q), NEW t, t = Tail(q),
         NEW left, left = IF c.kind = "Closed" THEN W \ {c.window} ELSE W
  PROVE  ChangesInv(t, there, left)
<1>1. /\ t \in Seq(Changes) /\ c = q[1] /\ 1 \in DOMAIN q
      /\ \A i \in DOMAIN t : i \in Nat /\ i + 1 \in DOMAIN q /\ t[i] = q[i + 1] /\ 1 < i + 1
  <2>1. DOMAIN Tail(q) = 1..Len(Tail(q))
    BY Tailed, LenProperties
  <2> QED BY <2>1, Tailed
<1>2. ASSUME NEW i \in DOMAIN t, NEW j \in DOMAIN t, i < j, t[j].kind = "Opened"
      PROVE  t[i].kind = "Opened"
  <2>1. i + 1 < j + 1
    BY <1>1, <1>2
  <2> QED BY <1>1, <1>2, <2>1 DEF ChangesInv
<1>3. ASSUME NEW i \in DOMAIN t, NEW j \in DOMAIN t, t[i].kind \in {"Opened", "Closed"},
             t[j].kind = t[i].kind, t[j].window = t[i].window
      PROVE  i = j
  <2>1. i + 1 = j + 1
    BY <1>1, <1>3 DEF ChangesInv
  <2> QED BY <1>1, <2>1
<1>4. ASSUME NEW i \in DOMAIN t
      PROVE  /\ t[i].window \in left
             /\ t[i].kind = "Closed" => t[i].window \notin there
             /\ t[i].kind \notin {"Opened", "Closed"} => t[i].window \in there
  <2>1. i + 1 \in DOMAIN q /\ t[i] = q[i + 1] /\ 1 < i + 1 /\ i \in Nat
    BY <1>1
  <2>2. /\ t[i].window \in W
        /\ t[i].kind = "Closed" => t[i].window \notin there
        /\ t[i].kind \notin {"Opened", "Closed"} => t[i].window \in there
    BY <2>1 DEF ChangesInv
  <2>3. ASSUME c.kind = "Closed", t[i].window = c.window PROVE FALSE
    <3>1. t[i].kind # "Opened"
      BY <1>1, <2>1, <2>3 DEF ChangesInv
    <3>2. c.window \notin there
      BY <1>1, <2>3 DEF ChangesInv
    <3>3. t[i].kind = "Closed"
      BY <2>2, <2>3, <3>1, <3>2
    <3>4. i + 1 = 1
      BY <1>1, <2>1, <2>3, <3>3 DEF ChangesInv
    <3> QED BY <2>1, <3>4
  <2> QED BY <2>2, <2>3
<1> QED BY <1>2, <1>3, <1>4 DEF ChangesInv

-----------------------------------------------------------------------------
(* What the operating system reports *)

\* A window gains the focus.
LEMMA AgreeFocus ==
  ASSUME NEW shown \in Partial(Shown), NEW q \in Seq(Changes), NEW S \in SUBSET States, NEW A,
         Agree(shown, NoWindow, q, S, A), NEW w \in DOMAIN shown,
         NEW c \in Changes, c.kind = "Focus", c.window = w, c.focused,
         NEW u, u = Append(q, c)
  PROVE  Agree(shown, w, u, S, A)
<1>1. w \in Ids /\ w # NoWindow
  BY Numbers, Partials
<1>3. ChangesInv(u, DOMAIN shown, known(S)) /\ DOMAIN shown \subseteq known(S)
  BY ChangesMore DEF Agree
<1>4. ShownInv(shown, w, u, A)
  <2>1. \A v \in DOMAIN shown : v # NoWindow /\ (focuses(u, v) <=> focuses(q, v) \/ v = w)
    BY MoreToFold, Numbers, Partials
  <2> QED BY <2>1 DEF Agree, ShownInv
<1>5. ASSUME NEW s \in S PROVE StateInv(s, shown, w, u)
  <2>1. PICK v : v = s.window
    OBVIOUS
  <2>2. /\ opens(u, v) <=> opens(q, v)
        /\ closes(u, v) <=> closes(q, v)
        /\ endsFocused(u, v, s.focused) <=> IF w = v THEN TRUE ELSE endsFocused(q, v, s.focused)
    BY MoreToFold
  <2>3. v # NoWindow
    BY <1>5, <2>1, Numbers
  <2>4. StateInv(s, shown, NoWindow, q)
    BY <1>5 DEF Agree
  <2> QED BY <2>1, <2>2, <2>3, <2>4 DEF StateInv
<1> QED BY <1>3, <1>4, <1>5 DEF Agree

\* The window with the focus loses it.
LEMMA AgreeBlur ==
  ASSUME NEW shown \in Partial(Shown), NEW q \in Seq(Changes), NEW S \in SUBSET States, NEW A,
         NEW w \in DOMAIN shown, Agree(shown, w, q, S, A),
         NEW c \in Changes, c.kind = "Focus", c.window = w, ~c.focused,
         NEW u, u = Append(q, c),
         NEW now2, now2 = [shown EXCEPT ![w] = [@ EXCEPT !.effective = "Normal", !.granted = TRUE]]
  PROVE  Agree(now2, NoWindow, u, S, A)
<1>1. w \in Ids /\ w # NoWindow
  BY Numbers, Partials
<1>2. DOMAIN now2 = DOMAIN shown
  OBVIOUS
<1>3. ASSUME NEW v \in DOMAIN shown
      PROVE  /\ now2[v].entry = shown[v].entry /\ now2[v].changed = shown[v].changed
             /\ now2[v].effective = IF v = w THEN "Normal" ELSE shown[v].effective
  <2>1. shown[v] \in Shown /\ shown[w] \in Shown
    BY Partials
  <2>2. now2[v] = IF v = w THEN [shown[w] EXCEPT !.effective = "Normal", !.granted = TRUE]
                  ELSE shown[v]
    OBVIOUS
  <2> QED BY <2>1, <2>2 DEF Shown
<1>4. ChangesInv(u, DOMAIN now2, known(S)) /\ DOMAIN now2 \subseteq known(S)
  BY <1>2, ChangesMore DEF Agree
<1>5. ShownInv(now2, NoWindow, u, A)
  <2>1. \A v \in DOMAIN shown : v # NoWindow
    BY Numbers, Partials
  <2> QED BY <1>2, <1>3, <2>1 DEF Agree, ShownInv
<1>6. ASSUME NEW s \in S PROVE StateInv(s, now2, NoWindow, u)
  <2>1. PICK v : v = s.window
    OBVIOUS
  <2>2. /\ opens(u, v) <=> opens(q, v)
        /\ closes(u, v) <=> closes(q, v)
        /\ endsFocused(u, v, s.focused) <=> IF w = v THEN FALSE ELSE endsFocused(q, v, s.focused)
    BY MoreToFold
  <2>3. v # NoWindow
    BY <1>6, <2>1, Numbers
  <2>4. StateInv(s, shown, w, q)
    BY <1>6 DEF Agree
  <2> QED BY <1>2, <1>3, <2>1, <2>2, <2>3, <2>4 DEF StateInv
<1> QED BY <1>4, <1>5, <1>6 DEF Agree

\* A window closes by itself, before any input is reported.
LEMMA AgreeClose ==
  ASSUME NEW shown \in Partial(Shown), NEW q \in Seq(Changes), NEW S \in SUBSET States, NEW A,
         NEW focus, Agree(shown, focus, q, S, A), NEW w \in DOMAIN shown,
         \A i \in DOMAIN q : q[i].kind \in {"Opened", "Closed"},
         NEW c \in Changes, c.kind = "Closed", c.window = w,
         NEW u, u = Append(q, c),
         NEW now2, now2 = Restrict(shown, DOMAIN shown \ {w}),
         NEW focus2, focus2 = IF focus = w THEN NoWindow ELSE focus
  PROVE  Agree(now2, focus2, u, S, A)
<1>1. w \in Ids /\ w # NoWindow
  BY Numbers, Partials
<1>3. DOMAIN now2 = DOMAIN shown \ {w} /\ \A v \in DOMAIN now2 : now2[v] = shown[v]
  BY DEF Restrict
<1>4. ChangesInv(u, DOMAIN now2, known(S)) /\ DOMAIN now2 \subseteq known(S)
  <2>1. ChangesInv(u, DOMAIN now2, known(S))
    BY <1>3, ChangesMore DEF Agree
  <2> QED BY <1>3, <2>1 DEF Agree
<1>5. ShownInv(now2, focus2, u, A)
  <2>1. \A v \in DOMAIN shown : v # NoWindow /\ (focuses(u, v) <=> focuses(q, v))
    BY MoreToFold, Numbers, Partials
  <2>2. ShownInv(shown, focus, q, A)
    BY DEF Agree
  <2>3. focus2 \in DOMAIN now2 \cup {NoWindow}
    BY <1>3, <2>2 DEF ShownInv
  <2>4. \A v \in DOMAIN now2 :
          v \in DOMAIN shown /\ now2[v] = shown[v] /\ (focus2 = v <=> focus = v)
    BY <1>3, <2>1
  <2> QED BY <2>1, <2>2, <2>3, <2>4 DEF ShownInv
<1>6. ASSUME NEW s \in S PROVE StateInv(s, now2, focus2, u)
  <2>1. PICK v : v = s.window
    OBVIOUS
  <2>2. /\ opens(u, v) <=> opens(q, v)
        /\ closes(u, v) <=> closes(q, v) \/ w = v
        /\ endsFocused(u, v, s.focused) <=> endsFocused(q, v, s.focused)
    BY MoreToFold
  <2>3. v # NoWindow
    BY <1>6, <2>1, Numbers
  <2>4. StateInv(s, shown, focus, q)
    BY <1>6 DEF Agree
  <2> QED BY <1>3, <2>1, <2>2, <2>3, <2>4 DEF StateInv
<1> QED BY <1>4, <1>5, <1>6 DEF Agree

\* Other input changes nothing that exists.
LEMMA AgreeInput ==
  ASSUME NEW shown \in Partial(Shown), NEW q \in Seq(Changes), NEW S \in SUBSET States, NEW A,
         NEW focus, Agree(shown, focus, q, S, A),
         NEW c \in Changes, c.kind \in {"Key", "Move", "Enter", "Leave"}, c.window \in DOMAIN shown,
         NEW u, u = Append(q, c)
  PROVE  Agree(shown, focus, u, S, A)
<1>1. ChangesInv(u, DOMAIN shown, known(S)) /\ DOMAIN shown \subseteq known(S)
  BY ChangesMore DEF Agree
<1>2. ShownInv(shown, focus, u, A)
  <2>1. \A v \in DOMAIN shown : focuses(u, v) <=> focuses(q, v)
    BY MoreToFold
  <2> QED BY <2>1 DEF Agree, ShownInv
<1>3. ASSUME NEW s \in S PROVE StateInv(s, shown, focus, u)
  <2>1. PICK v : v = s.window
    OBVIOUS
  <2>2. /\ opens(u, v) <=> opens(q, v)
        /\ closes(u, v) <=> closes(q, v)
        /\ endsFocused(u, v, s.focused) <=> endsFocused(q, v, s.focused)
    BY MoreToFold
  <2>3. StateInv(s, shown, focus, q)
    BY <1>3 DEF Agree
  <2> QED BY <2>1, <2>2, <2>3 DEF StateInv
<1> QED BY <1>1, <1>2, <1>3 DEF Agree

-----------------------------------------------------------------------------
(* What is folded *)

\* The states N are S but that w is open.
NowOpen(S, N, w) ==
  \A x \in N : \/ x \in S /\ x.window # w
               \/ /\ x.window = w /\ x.open
                  /\ \E s \in S : s.window = w /\ x.focused = s.focused

\* A window opened.
LEMMA AgreeOpened ==
  ASSUME NEW shown \in Partial(Shown), NEW q \in Seq(Changes), q # <<>>,
         NEW S \in SUBSET States, NEW A, NEW focus, Agree(shown, focus, q, S, A),
         NEW c, c = Head(q), c.kind = "Opened", NEW t, t = Tail(q),
         NEW N \in SUBSET States, known(N) = known(S), NowOpen(S, N, c.window)
  PROVE  Agree(shown, focus, t, N, A)
<1>1. c \in Changes /\ c.kind # "Focus"
  BY Tailed
<1>2. ChangesInv(t, DOMAIN shown, known(N)) /\ DOMAIN shown \subseteq known(N)
  BY ChangesLess DEF Agree
<1>3. ShownInv(shown, focus, t, A)
  <2>1. \A v \in DOMAIN shown : focuses(t, v) <=> focuses(q, v)
    BY <1>1, LessToFold
  <2> QED BY <2>1 DEF Agree, ShownInv
<1>4. ~opens(t, c.window)
  <2>1. ChangesInv(q, DOMAIN shown, known(S))
    BY DEF Agree
  <2>2. /\ c = q[1] /\ 1 \in DOMAIN q
        /\ \A i \in DOMAIN t : i \in Nat /\ i + 1 \in DOMAIN q /\ t[i] = q[i + 1]
    BY Tailed
  <2>3. DOMAIN t = 1..Len(t)
    BY Tailed, LenProperties
  <2>4. ASSUME NEW i \in DOMAIN t, t[i].kind = "Opened", t[i].window = c.window PROVE FALSE
    <3>1. i + 1 = 1
      BY <2>1, <2>2, <2>4 DEF ChangesInv
    <3> QED BY <2>3, <3>1
  <2> QED BY <2>4 DEF opens
<1>5. ASSUME NEW x \in N PROVE StateInv(x, shown, focus, t)
  <2>1. PICK v : v = x.window
    OBVIOUS
  <2>2. PICK s \in S : s.window = v /\ s.focused = x.focused
                       /\ (IF v = c.window THEN x.open ELSE s = x)
    BY <1>5, <2>1 DEF NowOpen
  <2>3. StateInv(s, shown, focus, q)
    BY DEF Agree
  <2>4. /\ opens(q, v) <=> opens(t, v) \/ v = c.window
        /\ closes(q, v) <=> closes(t, v)
    BY ONLY LessToFold, q \in Seq(Changes), q # <<>>, c = Head(q), t = Tail(q), c.kind = "Opened"
  <2>5. s.focused \in BOOLEAN /\ x.focused = s.focused
    BY <2>2 DEF States
  <2>6. endsFocused(q, v, s.focused) <=> endsFocused(t, v, x.focused)
    <3>1. endsFocused(q, v, s.focused) <=> endsFocused(t, v, s.focused)
      BY <1>1, <2>5, LessFocus
    <3> QED BY ONLY <2>5, <3>1, Zenon
  <2> QED BY <1>4, <2>1, <2>2, <2>3, <2>4, <2>6 DEF StateInv
<1> QED BY <1>2, <1>3, <1>5 DEF Agree

\* The states N are S without w.
NoLonger(S, N, w) == N = {s \in S : s.window # w}

\* A window that closed is forgotten.
LEMMA AgreeClosed ==
  ASSUME NEW shown \in Partial(Shown), NEW q \in Seq(Changes), q # <<>>,
         NEW S \in SUBSET States, NEW A, NEW focus, Agree(shown, focus, q, S, A),
         NEW c, c = Head(q), c.kind = "Closed", NEW t, t = Tail(q),
         NEW N, NoLonger(S, N, c.window), NEW B \in SUBSET A
  PROVE  Agree(shown, focus, t, N, B)
<1>0. N = {s \in S : s.window # c.window}
  BY DEF NoLonger
<1>1. c \in Changes /\ c.kind # "Focus"
  BY Tailed
<1>2. known(N) = known(S) \ {c.window}
  BY <1>0 DEF known
<1>3. c.window \notin DOMAIN shown
  <2>1. c = q[1] /\ 1 \in DOMAIN q
    BY Tailed
  <2> QED BY <2>1 DEF Agree, ChangesInv
<1>4. ChangesInv(t, DOMAIN shown, known(N)) /\ DOMAIN shown \subseteq known(N)
  <2>1. ChangesInv(t, DOMAIN shown, known(N))
    BY <1>2, ChangesLess DEF Agree
  <2> QED BY <1>2, <1>3, <2>1 DEF Agree
<1>5. ShownInv(shown, focus, t, B)
  <2>1. \A v \in DOMAIN shown : focuses(t, v) <=> focuses(q, v)
    BY <1>1, LessToFold
  <2> QED BY <2>1 DEF Agree, ShownInv
<1>6. ASSUME NEW x \in N PROVE StateInv(x, shown, focus, t)
  <2>1. PICK v : v = x.window
    OBVIOUS
  <2>2. StateInv(x, shown, focus, q) /\ v # c.window
    BY <1>0, <1>6, <2>1 DEF Agree
  <2>3. /\ opens(q, v) <=> opens(t, v)
        /\ closes(q, v) <=> closes(t, v)
    BY <1>1, <2>2, LessToFold
  <2>4. endsFocused(q, v, x.focused) <=> endsFocused(t, v, x.focused)
    <3>1. x.focused \in BOOLEAN
      BY <1>0 DEF States
    <3> QED BY <1>1, <3>1, LessFocus
  <2> QED BY <2>1, <2>2, <2>3, <2>4 DEF StateInv
<1> QED BY <1>4, <1>5, <1>6 DEF Agree

\* Input that changes no window.
LEMMA AgreeFolded ==
  ASSUME NEW shown \in Partial(Shown), NEW q \in Seq(Changes), q # <<>>,
         NEW S \in SUBSET States, NEW A, NEW focus, Agree(shown, focus, q, S, A),
         NEW c, c = Head(q), c.kind \in {"Key", "Move", "Enter", "Leave"}, NEW t, t = Tail(q)
  PROVE  Agree(shown, focus, t, S, A)
<1>1. c \in Changes /\ c.kind # "Focus"
  BY Tailed
<1>2. ChangesInv(t, DOMAIN shown, known(S)) /\ DOMAIN shown \subseteq known(S)
  BY ChangesLess DEF Agree
<1>3. ShownInv(shown, focus, t, A)
  <2>1. \A v \in DOMAIN shown : focuses(t, v) <=> focuses(q, v)
    BY <1>1, LessToFold
  <2> QED BY <2>1 DEF Agree, ShownInv
<1>4. ASSUME NEW x \in S PROVE StateInv(x, shown, focus, t)
  <2>1. PICK v : v = x.window
    OBVIOUS
  <2>2. StateInv(x, shown, focus, q)
    BY <1>4 DEF Agree
  <2>3. /\ opens(q, v) <=> opens(t, v)
        /\ closes(q, v) <=> closes(t, v)
    BY <1>1, LessToFold
  <2>4. endsFocused(q, v, x.focused) <=> endsFocused(t, v, x.focused)
    <3>1. x.focused \in BOOLEAN
      BY DEF States
    <3> QED BY <1>1, <3>1, LessFocus
  <2> QED BY <2>1, <2>2, <2>3, <2>4 DEF StateInv
<1> QED BY <1>2, <1>3, <1>4 DEF Agree

\* The states N are S but that the window of c has the focus as c says, and what
\* is shown of it then.
NowFocused(S, N, c) ==
  \A x \in N : \E s \in S :
    /\ s.window = x.window /\ x.open = s.open
    /\ x.focused = IF x.window = c.window THEN c.focused ELSE s.focused
NowShown(shown, now2, focus, c, A) ==
  /\ DOMAIN now2 = DOMAIN shown
  /\ \A v \in DOMAIN shown :
       /\ now2[v].entry = shown[v].entry /\ now2[v].changed = shown[v].changed
       /\ v # c.window \/ ~c.focused => now2[v] = shown[v]
       /\ v = c.window /\ c.focused =>
            IF focus = v
            THEN now2[v].granted => \A a \in A : a.window = v => now2[v].effective = a.mode
            ELSE now2[v].effective = "Normal"

\* The focus gained or lost. What is shown of the window may change in its
\* cursor, which is as it should be from then on unless it is refused.
LEMMA AgreeFocused ==
  ASSUME NEW shown \in Partial(Shown), NEW q \in Seq(Changes), q # <<>>,
         NEW S \in SUBSET States, NEW A, NEW focus, Agree(shown, focus, q, S, A),
         NEW c, c = Head(q), c.kind = "Focus", NEW t, t = Tail(q),
         NEW now2, NowShown(shown, now2, focus, c, A),
         NEW N \in SUBSET States, known(N) = known(S), NowFocused(S, N, c)
  PROVE  Agree(now2, focus, t, N, A)
<1>0. /\ DOMAIN now2 = DOMAIN shown
      /\ \A v \in DOMAIN shown :
           /\ now2[v].entry = shown[v].entry /\ now2[v].changed = shown[v].changed
           /\ v # c.window \/ ~c.focused => now2[v] = shown[v]
           /\ v = c.window /\ c.focused =>
                IF focus = v
                THEN now2[v].granted => \A a \in A : a.window = v => now2[v].effective = a.mode
                ELSE now2[v].effective = "Normal"
  BY DEF NowShown
<1>1. c \in Changes
  BY Tailed
<1>2. ChangesInv(t, DOMAIN now2, known(N)) /\ DOMAIN now2 \subseteq known(N)
  BY <1>0, ChangesLess DEF Agree
<1>3. ShownInv(now2, focus, t, A)
  <2>1. ShownInv(shown, focus, q, A)
    BY DEF Agree
  <2>2. ASSUME NEW v \in DOMAIN now2
        PROVE  /\ focus # v => now2[v].effective = "Normal"
               /\ focus = v /\ now2[v].granted =>
                    \A a \in A : a.window = v => now2[v].effective = a.mode \/ focuses(t, v)
    <3>1. CASE v = c.window /\ c.focused
      BY <1>0, <2>2, <3>1
    <3>2. CASE ~(v = c.window /\ c.focused)
      <4>1. focuses(q, v) <=> focuses(t, v)
        BY ONLY <3>2, LessToFold, q \in Seq(Changes), q # <<>>, c = Head(q), t = Tail(q)
      <4>2. now2[v] = shown[v]
        BY <1>0, <2>2, <3>2
      <4> QED BY <1>0, <2>1, <2>2, <4>1, <4>2 DEF ShownInv
    <3> QED BY <3>1, <3>2
  <2> QED BY <1>0, <2>1, <2>2 DEF ShownInv
<1>4. ASSUME NEW x \in N PROVE StateInv(x, now2, focus, t)
  <2>1. PICK v : v = x.window
    OBVIOUS
  <2>2. PICK s \in S : /\ s.window = v /\ x.open = s.open
                       /\ x.focused = IF v = c.window THEN c.focused ELSE s.focused
    BY <1>4, <2>1 DEF NowFocused
  <2>3. StateInv(s, shown, focus, q)
    BY DEF Agree
  <2>4. /\ opens(q, v) <=> opens(t, v)
        /\ closes(q, v) <=> closes(t, v)
        /\ endsFocused(q, v, s.focused) <=> endsFocused(t, v, x.focused)
    <3>1. s.focused \in BOOLEAN /\ x.focused \in BOOLEAN
      BY <1>4 DEF States
    <3>2. PICK a \in BOOLEAN, b \in BOOLEAN : a = x.focused /\ b = s.focused
      BY <3>1
    <3>3. /\ c.kind = "Focus" /\ c.window = v => (a <=> c.focused)
          /\ ~(c.kind = "Focus" /\ c.window = v) => (a <=> b)
      BY <2>2, <3>2
    <3>4. endsFocused(q, v, b) <=> endsFocused(t, v, a)
      BY ONLY <3>3, LessFocus, q \in Seq(Changes), q # <<>>, c = Head(q), t = Tail(q)
    <3>5. endsFocused(q, v, s.focused) <=> endsFocused(t, v, x.focused)
      BY ONLY <3>2, <3>4, Zenon
    <3> QED BY <3>5, LessToFold
  <2>5. v = c.window => v \in DOMAIN shown
    <3>1. c = q[1] /\ 1 \in DOMAIN q
      BY Tailed
    <3> QED BY <3>1 DEF Agree, ChangesInv
  <2> QED BY <1>0, <2>1, <2>2, <2>3, <2>4, <2>5 DEF StateInv
<1> QED BY <1>2, <1>3, <1>4 DEF Agree

\* Nothing to fold.
LEMMA NothingToFold ==
  ASSUME NEW w
  PROVE  ~opens(<<>>, w) /\ ~closes(<<>>, w) /\ ~focuses(<<>>, w)
BY DEF opens, closes, focuses

\* What is shown is what B says was applied, but for what failed or was refused.
ShownAs(next, focus, B) ==
  /\ \A a \in B : a.window \in DOMAIN next =>
       /\ next[a.window].changed => next[a.window].entry = a.entry
       /\ focus = a.window /\ next[a.window].granted => next[a.window].effective = a.mode
  /\ \A w \in DOMAIN next : focus # w => next[w].effective = "Normal"
\* u opens the windows W, each once.
Openings(u, W) ==
  /\ \A i \in DOMAIN u : u[i].kind = "Opened" /\ u[i].window \in W
  /\ \A i, j \in DOMAIN u : u[i].window = u[j].window => i = j
  /\ \A w \in W : \E i \in DOMAIN u : u[i].window = w
\* The states N are S but those away, and those of the windows fresh.
NextStates(S, N, away, fresh) ==
  \A x \in N : \/ x \in S /\ x.window \notin away
               \/ x.window \in fresh /\ ~x.open /\ ~x.focused

\* The request is applied: the windows E are asked for.
LEMMA AgreeApplied ==
  ASSUME NEW shown \in Partial(Shown), NEW S \in SUBSET States, NEW A, NEW focus,
         Agree(shown, focus, <<>>, S, A),
         NEW E \in SUBSET Ids, NEW away, away = known(S) \ E, NEW fresh, fresh = E \ known(S),
         NEW failed \in SUBSET fresh,
         NEW focus2, focus2 = IF focus \in away THEN NoWindow ELSE focus,
         NEW now2, DOMAIN now2 = (DOMAIN shown \ away) \cup (fresh \ failed),
         NEW B, ShownAs(now2, focus2, B),
         NEW W, W = fresh \ failed, NEW u, Openings(u, W),
         NEW N \in SUBSET States, known(N) = E, NextStates(S, N, away, fresh)
  PROVE  Agree(now2, focus2, u, N, B)
<1>0. /\ \A i \in DOMAIN u : u[i].kind = "Opened" /\ u[i].window \in fresh \ failed
      /\ \A i, j \in DOMAIN u : u[i].window = u[j].window => i = j
      /\ \A w \in fresh \ failed : \E i \in DOMAIN u : u[i].window = w
      /\ \A x \in N : \/ x \in S /\ x.window \notin away
                      \/ x.window \in fresh /\ ~x.open /\ ~x.focused
  BY DEF Openings, NextStates
<1>1. DOMAIN shown \in SUBSET Ids /\ NoWindow \notin Ids /\ DOMAIN shown \subseteq known(S)
  BY Numbers, Partials DEF Agree
<1>2. DOMAIN now2 \subseteq known(N)
  BY <1>1
<1>3. ChangesInv(u, DOMAIN now2, known(N))
  <2>1. \A i \in DOMAIN u : u[i].kind = "Opened" /\ u[i].window \in known(N)
    BY <1>0
  <2> QED BY <1>0, <2>1 DEF ChangesInv
<1>4. ShownInv(now2, focus2, u, B)
  <2>1. ShownInv(shown, focus, <<>>, A)
    BY DEF Agree
  <2>2. focus2 \in DOMAIN now2 \cup {NoWindow}
    BY <2>1 DEF ShownInv
  <2> QED BY <2>2 DEF ShownInv, ShownAs
<1>5. ASSUME NEW x \in N PROVE StateInv(x, now2, focus2, u)
  <2>1. PICK w : w = x.window
    OBVIOUS
  <2>2. /\ opens(u, w) <=> w \in fresh \ failed
        /\ ~closes(u, w)
        /\ endsFocused(u, w, x.focused) <=> x.focused
    <3>1. opens(u, w) <=> w \in fresh \ failed
      BY <1>0 DEF opens
    <3>2. ~closes(u, w) /\ (endsFocused(u, w, x.focused) <=> x.focused)
      <4>1. \A i \in DOMAIN u : u[i].kind = "Opened"
        BY <1>0
      <4> QED BY <4>1 DEF closes, endsFocused
    <3> QED BY <3>1, <3>2
  <2>3. w # NoWindow
    BY <1>5, <2>1, Numbers
  <2>4. CASE x \in S /\ x.window \notin away
    <3>1. StateInv(x, shown, focus, <<>>)
      BY <2>4 DEF Agree
    <3>2. w \in known(S)
      BY <2>1, <2>4 DEF known
    <3>3. /\ w \in DOMAIN shown <=> x.open
          /\ w \in DOMAIN shown => (focus = w <=> x.focused)
          /\ w \notin DOMAIN shown => ~x.focused
      <4>1. endsFocused(<<>>, w, x.focused) <=> x.focused
        BY DEF endsFocused
      <4>2. ~opens(<<>>, w) /\ ~closes(<<>>, w)
        BY NothingToFold
      <4> QED BY <2>1, <3>1, <4>1, <4>2 DEF StateInv
    <3>4. /\ w \in DOMAIN now2 <=> w \in DOMAIN shown
          /\ focus2 = w <=> focus = w
      BY <2>1, <2>3, <2>4, <3>2
    <3>5. w \notin fresh
      BY <3>2
    <3> QED BY <2>1, <2>2, <3>3, <3>4, <3>5 DEF StateInv
  <2>5. CASE x.window \in fresh /\ ~x.open /\ ~x.focused
    <3>1. w \in DOMAIN now2 <=> w \in fresh \ failed
      BY <1>1, <2>1, <2>5
    <3>2. focus2 # w
      BY <1>1, <2>1, <2>3, <2>5 DEF Agree, ShownInv
    <3> QED BY <2>1, <2>2, <2>5, <3>1, <3>2 DEF StateInv
  <2> QED BY <1>0, <1>5, <2>4, <2>5
<1> QED BY <1>2, <1>3, <1>4, <1>5 DEF Agree

\* What is to fold still releases the keys when something is folded: a loss of
\* the focus leaves none held, and only a key pressed is held in addition.
LEMMA StillReleased ==
  ASSUME NEW q \in Seq(Changes), q # <<>>, NEW h, NEW o \in BOOLEAN, ReleasesToFold(q, h, o),
         NEW h2, isBlur(Head(q)) => h2 = {},
         ~(Head(q).kind = "Key" /\ Head(q).pressed) => h2 \subseteq h,
         NEW o2 \in BOOLEAN, isBlur(Head(q)) \/ o2 = o
  PROVE  ReleasesToFold(Tail(q), h2, o2)
<1>0. PICK c, t : c = Head(q) /\ t = Tail(q)
  OBVIOUS
<1>1. /\ t \in Seq(Changes) /\ c = q[1] /\ 1 \in DOMAIN q
      /\ \A i \in DOMAIN t : i \in Nat /\ i + 1 \in DOMAIN q /\ t[i] = q[i + 1]
      /\ \A i \in DOMAIN q : i \in Nat /\ (i # 1 => i - 1 \in DOMAIN t /\ t[i - 1] = q[i])
  BY <1>0, Tailed
<1>2. ASSUME NEW i \in DOMAIN t, t[i].kind = "Key", t[i].pressed
      PROVE  \E j \in DOMAIN t : i < j /\ isBlur(t[j])
  <2>1. i \in Nat /\ i + 1 \in DOMAIN q /\ t[i] = q[i + 1]
    BY <1>1
  <2>2. PICK j \in DOMAIN q : i + 1 < j /\ isBlur(q[j])
    BY <1>2, <2>1 DEF ReleasesToFold
  <2>3. j \in Nat /\ j # 1 /\ i < j - 1
    BY <1>1, <2>1, <2>2
  <2>4. j - 1 \in DOMAIN t /\ isBlur(t[j - 1])
    BY <1>1, <2>2, <2>3
  <2> QED BY <2>3, <2>4
<1>3. ASSUME ~o2, h2 # {} PROVE \E j \in DOMAIN t : isBlur(t[j])
  <2>1. ~isBlur(c) /\ o2 = o
    BY <1>0, <1>3
  <2>2. PICK j \in DOMAIN q : isBlur(q[j])
    <3>1. CASE c.kind = "Key" /\ c.pressed
      BY <1>1, <3>1 DEF ReleasesToFold
    <3>2. CASE ~(c.kind = "Key" /\ c.pressed)
      <4>1. h # {} /\ ~o
        BY <1>0, <1>3, <2>1, <3>2
      <4> QED BY <4>1 DEF ReleasesToFold
    <3> QED BY <3>1, <3>2
  <2>3. j # 1
    BY <1>1, <2>1, <2>2
  <2>4. j - 1 \in DOMAIN t /\ isBlur(t[j - 1])
    BY <1>1, <2>2, <2>3
  <2> QED BY <2>4
<1> QED BY <1>0, <1>2, <1>3 DEF ReleasesToFold

\* And when something is reported that is no key pressed.
LEMMA ReleasedToo ==
  ASSUME NEW q \in Seq(Changes), NEW h, NEW o, ReleasesToFold(q, h, o),
         NEW c \in Changes, ~(c.kind = "Key"), NEW u, u = Append(q, c)
  PROVE  ReleasesToFold(u, h, o)
<1>1. PICK n : n = Len(q) + 1
  OBVIOUS
<1>2. /\ u[n] = c
      /\ \A i \in DOMAIN q : i \in DOMAIN u /\ u[i] = q[i]
      /\ \A i \in DOMAIN u : i \in DOMAIN q \/ i = n
  BY <1>1, Appended
<1>3. ASSUME NEW i \in DOMAIN u, u[i].kind = "Key", u[i].pressed
      PROVE  \E j \in DOMAIN u : i < j /\ isBlur(u[j])
  <2>1. i \in DOMAIN q /\ u[i] = q[i]
    BY <1>2, <1>3
  <2>2. PICK j \in DOMAIN q : i < j /\ isBlur(q[j])
    BY <1>3, <2>1 DEF ReleasesToFold
  <2> QED BY <1>2, <2>2
<1>4. ~o /\ h # {} => \E j \in DOMAIN u : isBlur(u[j])
  <2>1. ASSUME NEW j \in DOMAIN q, isBlur(q[j]) PROVE j \in DOMAIN u /\ isBlur(u[j])
    BY <1>2, <2>1
  <2> QED BY <2>1 DEF ReleasesToFold
<1> QED BY <1>3, <1>4 DEF ReleasesToFold

-----------------------------------------------------------------------------
(* What a reader makes of the events *)

\* The kinds of events and what each kind has.
LEMMA EventKinds ==
  ASSUME NEW e \in Events
  PROVE  /\ e.window \in Ids
         /\ e.kind \in {"Opened", "Closed", "Key", "Focus", "Move", "Enter", "Leave"}
         /\ e.kind = "Key" => e.key \in Keys /\ e.pressed \in BOOLEAN
         /\ e.kind = "Move" => e.motion \in Int
<1>1. CASE e \in Lifes
  BY <1>1 DEF Lifes
<1>2. CASE e \in Presses
  BY <1>2 DEF Presses
<1>3. CASE e \in Focuses
  BY <1>3 DEF Focuses
<1>4. CASE e \in Moves
  BY <1>4 DEF Moves
<1>5. CASE e \in [kind : {"Enter", "Leave"}, window : Ids, position : Positions]
  BY <1>5
<1> QED BY <1>1, <1>2, <1>3, <1>4, <1>5 DEF Events

\* The keys stay as they were.
SameKeys(v, r) == v.held = r.held /\ v.pressed = r.pressed /\ v.released = r.released

\* A window opened.
LEMMA ToldOpened ==
  ASSUME NEW r \in Readers, NEW e \in Events, e.kind = "Opened", NEW v, v = told(r, e)
  PROVE  /\ v \in Readers /\ (v.right <=> r.right /\ e.window \notin r.open \cup r.closed)
         /\ v.open = r.open \cup {e.window} /\ v.closed = r.closed /\ v.inside = r.inside
         /\ SameKeys(v, r)
<1>1. PICK b \in BOOLEAN, W \in SUBSET Ids :
        b = (r.right /\ e.window \notin r.open \cup r.closed) /\ W = r.open \cup {e.window}
  BY EventKinds DEF Readers
<1>2. v = [r EXCEPT !.open = W, !.right = b]
  BY <1>1 DEF told
<1>3. /\ v \in Readers /\ v.right = b /\ v.open = W /\ v.closed = r.closed
      /\ v.inside = r.inside /\ v.held = r.held /\ v.pressed = r.pressed
      /\ v.released = r.released
  BY <1>2 DEF Readers
<1> QED BY <1>1, <1>3 DEF SameKeys

\* A window closed.
LEMMA ToldClosed ==
  ASSUME NEW r \in Readers, NEW e \in Events, e.kind = "Closed", NEW v, v = told(r, e)
  PROVE  /\ v \in Readers /\ (v.right <=> r.right /\ e.window \notin r.closed)
         /\ v.open = r.open \ {e.window} /\ v.closed = r.closed \cup {e.window}
         /\ v.inside = r.inside \ {e.window} /\ SameKeys(v, r)
<1>1. PICK b \in BOOLEAN, W \in SUBSET Ids, C \in SUBSET Ids, I \in SUBSET Ids :
        /\ b = (r.right /\ e.window \notin r.closed)
        /\ W = r.open \ {e.window} /\ C = r.closed \cup {e.window}
        /\ I = r.inside \ {e.window}
  BY EventKinds DEF Readers
<1>2. v = [r EXCEPT !.open = W, !.closed = C, !.inside = I, !.right = b]
  BY <1>1 DEF told
<1>3. /\ v \in Readers /\ v.right = b /\ v.open = W /\ v.closed = C
      /\ v.inside = I /\ v.held = r.held /\ v.pressed = r.pressed
      /\ v.released = r.released
  BY <1>2 DEF Readers
<1> QED BY <1>1, <1>3 DEF SameKeys

\* A key pressed.
LEMMA ToldPressed ==
  ASSUME NEW r \in Readers, NEW e \in Events, e.kind = "Key", e.pressed, NEW v, v = told(r, e)
  PROVE  /\ v \in Readers /\ (v.right <=> r.right /\ e.window \in r.open)
         /\ v.open = r.open /\ v.closed = r.closed /\ v.inside = r.inside
         /\ v.held = r.held \cup {e.key} /\ v.pressed = r.pressed \cup ({e.key} \ r.held)
         /\ v.released = r.released
<1>1. PICK b \in BOOLEAN, H \in SUBSET Keys, P \in SUBSET Keys :
        /\ b = (r.right /\ e.window \in r.open)
        /\ H = r.held \cup {e.key} /\ P = r.pressed \cup ({e.key} \ r.held)
  BY EventKinds DEF Readers
<1>2. v = [[r EXCEPT !.right = b] EXCEPT !.held = H, !.pressed = P]
  <2>1. PICK k : k = [r EXCEPT !.right = b]
    OBVIOUS
  <2>2. k = [r EXCEPT !.right = @ /\ e.window \in r.open] /\ k.held = r.held
        /\ k.pressed = r.pressed
    BY <1>1, <2>1 DEF Readers
  <2>3. v = [k EXCEPT !.held = @ \cup {e.key}, !.pressed = @ \cup ({e.key} \ r.held)]
    BY <2>2 DEF told
  <2> QED BY <1>1, <2>1, <2>2, <2>3
<1>3. /\ v \in Readers /\ v.right = b /\ v.open = r.open /\ v.closed = r.closed
      /\ v.inside = r.inside /\ v.held = H /\ v.pressed = P /\ v.released = r.released
  BY <1>2 DEF Readers
<1> QED BY <1>1, <1>3

\* A key released.
LEMMA ToldReleased ==
  ASSUME NEW r \in Readers, NEW e \in Events, e.kind = "Key", ~e.pressed, NEW v, v = told(r, e)
  PROVE  /\ v \in Readers /\ (v.right <=> r.right /\ e.window \in r.open)
         /\ v.open = r.open /\ v.closed = r.closed /\ v.inside = r.inside
         /\ v.held = r.held \ {e.key} /\ v.released = r.released \cup {e.key}
         /\ v.pressed = r.pressed
<1>1. PICK b \in BOOLEAN, H \in SUBSET Keys, R \in SUBSET Keys :
        /\ b = (r.right /\ e.window \in r.open)
        /\ H = r.held \ {e.key} /\ R = r.released \cup {e.key}
  BY EventKinds DEF Readers
<1>2. v = [[r EXCEPT !.right = b] EXCEPT !.held = H, !.released = R]
  <2>1. PICK k : k = [r EXCEPT !.right = b]
    OBVIOUS
  <2>2. k = [r EXCEPT !.right = @ /\ e.window \in r.open] /\ k.held = r.held
        /\ k.released = r.released
    BY <1>1, <2>1 DEF Readers
  <2>3. v = [k EXCEPT !.held = @ \ {e.key}, !.released = @ \cup {e.key}]
    BY <2>2 DEF told
  <2> QED BY <1>1, <2>1, <2>2, <2>3
<1>3. /\ v \in Readers /\ v.right = b /\ v.open = r.open /\ v.closed = r.closed
      /\ v.inside = r.inside /\ v.held = H /\ v.pressed = r.pressed /\ v.released = R
  BY <1>2 DEF Readers
<1> QED BY <1>1, <1>3

\* The pointer enters or leaves a window.
LEMMA ToldPointer ==
  ASSUME NEW r \in Readers, NEW e \in Events, e.kind \in {"Enter", "Leave"}, NEW v, v = told(r, e)
  PROVE  /\ v \in Readers /\ (v.right <=> r.right /\ e.window \in r.open)
         /\ v.open = r.open /\ v.closed = r.closed /\ SameKeys(v, r)
         /\ v.inside = IF e.kind = "Enter" THEN r.inside \cup {e.window} ELSE r.inside \ {e.window}
<1>1. PICK b \in BOOLEAN, I \in SUBSET Ids :
        /\ b = (r.right /\ e.window \in r.open)
        /\ I = IF e.kind = "Enter" THEN r.inside \cup {e.window} ELSE r.inside \ {e.window}
  BY EventKinds DEF Readers
<1>2. v = [[r EXCEPT !.right = b] EXCEPT !.inside = I]
  <2>1. PICK k : k = [r EXCEPT !.right = b]
    OBVIOUS
  <2>2. k = [r EXCEPT !.right = @ /\ e.window \in r.open] /\ k.inside = r.inside
    BY <1>1, <2>1 DEF Readers
  <2>3. CASE e.kind = "Enter"
    <3>1. v = [k EXCEPT !.inside = @ \cup {e.window}]
      BY <2>2, <2>3 DEF told
    <3> QED BY <1>1, <2>1, <2>2, <2>3, <3>1
  <2>4. CASE e.kind = "Leave"
    <3>1. v = [k EXCEPT !.inside = @ \ {e.window}]
      BY <2>2, <2>4 DEF told
    <3> QED BY <1>1, <2>1, <2>2, <2>4, <3>1
  <2> QED BY <2>3, <2>4
<1>3. /\ v \in Readers /\ v.right = b /\ v.open = r.open /\ v.closed = r.closed
      /\ v.inside = I /\ v.held = r.held /\ v.pressed = r.pressed /\ v.released = r.released
  BY <1>2 DEF Readers
<1> QED BY <1>1, <1>3 DEF SameKeys

\* The focus and the moves are nothing this reader keeps.
LEMMA ToldOther ==
  ASSUME NEW r \in Readers, NEW e \in Events, e.kind \in {"Focus", "Move"}, NEW v, v = told(r, e)
  PROVE  /\ v \in Readers /\ (v.right <=> r.right /\ e.window \in r.open) /\ (v.right => v = r)
<1>1. PICK b \in BOOLEAN : b = (r.right /\ e.window \in r.open)
  BY DEF Readers
<1>2. v = [r EXCEPT !.right = b]
  BY <1>1 DEF told
<1>3. v \in Readers /\ v.right = b
  BY <1>2 DEF Readers
<1>4. ASSUME v.right PROVE v = r
  <2>1. r.right = b
    BY <1>1, <1>3, <1>4 DEF Readers
  <2> QED BY <1>2, <2>1 DEF Readers
<1> QED BY <1>1, <1>3, <1>4

\* Whatever it is told, a reader stays one, and is right only if it was.
LEMMA ToldOne ==
  ASSUME NEW r \in Readers, NEW e \in Events
  PROVE  told(r, e) \in Readers /\ (told(r, e).right => r.right)
<1>1. /\ e.kind \in {"Opened", "Closed", "Key", "Focus", "Move", "Enter", "Leave"}
      /\ e.kind = "Key" => e.pressed \in BOOLEAN
  BY EventKinds
<1>2. CASE e.kind = "Opened"
  BY <1>2, ToldOpened
<1>3. CASE e.kind = "Closed"
  BY <1>3, ToldClosed
<1>4. CASE e.kind = "Key" /\ e.pressed
  BY <1>4, ToldPressed
<1>5. CASE e.kind = "Key" /\ ~e.pressed
  BY <1>5, ToldReleased
<1>6. CASE e.kind \in {"Enter", "Leave"}
  BY <1>6, ToldPointer
<1>7. CASE e.kind \in {"Focus", "Move"}
  BY <1>7, ToldOther
<1> QED BY <1>1, <1>2, <1>3, <1>4, <1>5, <1>6, <1>7

\* A reader stays one.
LEMMA ReadersStay == TellStays(Readers, Events)
BY ToldOne DEF TellStays

\* What a reader passes through is decided by where it begins.
LEMMA ToldSo ==
  ASSUME NEW r \in Readers, NEW q \in Seq(Events), NEW f, f[0] = r,
         \A n \in 1..Len(q) : f[n] = told(f[n - 1], q[n])
  PROVE  f[Len(q)] = tellAll(r, q) /\ tellAll(r, q) \in Readers
<1>1. Len(q) \in Nat
  BY LenProperties
<1>2. PICK g : TellPath(g, Readers, r, q)
  BY ReadersStay, TellFolded
<1>3. PICK S : S = {n \in 0..Len(q) : f[n] = g[n]}
  OBVIOUS
<1>4. 0 \in S
  BY <1>1, <1>2, <1>3 DEF TellPath
<1>5. ASSUME NEW n \in 1..Len(q), n - 1 \in S PROVE n \in S
  <2>1. f[n - 1] = g[n - 1] /\ n \in 0..Len(q)
    BY <1>1, <1>3, <1>5
  <2>2. f[n] = told(f[n - 1], q[n]) /\ g[n] = told(g[n - 1], q[n])
    BY <1>2 DEF TellPath
  <2> QED BY <1>3, <2>1, <2>2
<1>6. \A n \in 0..Len(q) : n \in S
  BY <1>1, <1>4, <1>5, UpTo
<1>7. Len(q) \in 0..Len(q)
  BY <1>1
<1> QED BY <1>2, <1>3, <1>6, <1>7 DEF TellPath

\* Told nothing it stays as it is.
LEMMA ToldNothing ==
  ASSUME NEW r \in Readers
  PROVE  tellAll(r, <<>>) = r
<1>1. PICK f : f = [n \in {0} |-> r]
  OBVIOUS
<1>2. <<>> \in Seq(Events) /\ Len(<<>>) = 0
  BY EmptySeq
<1>3. f[0] = r /\ \A n \in 1..0 : FALSE
  BY <1>1
<1> QED BY <1>2, <1>3, ToldSo

\* One event more.
LEMMA ToldMore ==
  ASSUME NEW r \in Readers, NEW q \in Seq(Events), NEW e \in Events
  PROVE  /\ tellAll(r, Append(q, e)) = told(tellAll(r, q), e)
         /\ tellAll(r, q) \in Readers
<1>1. PICK n : n = Len(q) + 1
  OBVIOUS
<1>2. PICK u : u = Append(q, e)
  OBVIOUS
<1>3. /\ u \in Seq(Events) /\ n \in Nat /\ Len(u) = n /\ u[n] = e /\ Len(q) = n - 1
      /\ DOMAIN q = 1..n - 1 /\ \A i \in DOMAIN q : u[i] = q[i]
  BY <1>1, <1>2, Appended
<1>4. PICK g : TellPath(g, Readers, r, q)
  BY ReadersStay, TellFolded
<1>5. g[0] = r /\ g[n - 1] = tellAll(r, q) /\ tellAll(r, q) \in Readers
  <2>1. n - 1 \in 0..n - 1
    BY <1>3, LenProperties
  <2> QED BY <1>3, <1>4, <2>1 DEF TellPath
<1>6. PICK f : f = [i \in 0..n |-> IF i = n THEN told(g[n - 1], e) ELSE g[i]]
  OBVIOUS
<1>7. f[0] = r /\ f[n] = told(tellAll(r, q), e)
  <2>1. 0 \in 0..n /\ n \in 0..n /\ n # 0
    BY <1>3, LenProperties
  <2> QED BY <1>5, <1>6, <2>1
<1>8. ASSUME NEW i \in 1..n PROVE f[i] = told(f[i - 1], u[i])
  <2>1. i \in 0..n /\ i - 1 \in 0..n /\ i - 1 # n
    BY <1>3
  <2>2. f[i - 1] = g[i - 1]
    BY <1>6, <2>1
  <2>3. CASE i = n
    BY <1>3, <1>6, <2>1, <2>2, <2>3
  <2>4. CASE i # n
    <3>1. i \in DOMAIN q /\ i \in 1..Len(q)
      BY <1>3, <1>8, <2>4
    <3>2. g[i] = told(g[i - 1], q[i])
      BY <1>4, <3>1 DEF TellPath
    <3> QED BY <1>3, <1>6, <2>1, <2>2, <2>4, <3>1, <3>2
  <2> QED BY <2>3, <2>4
<1>9. f[n] = tellAll(r, u)
  BY <1>3, <1>7, <1>8, ToldSo
<1> QED BY <1>2, <1>5, <1>7, <1>9

\* First some events, then others.
LEMMA ToldBoth ==
  ASSUME NEW r \in Readers, NEW q \in Seq(Events), NEW p \in Seq(Events)
  PROVE  /\ tellAll(r, q \o p) = tellAll(tellAll(r, q), p)
         /\ tellAll(r, q) \in Readers
<1>1. PICK m, n : m = Len(q) /\ n = Len(p)
  OBVIOUS
<1>2. PICK u : u = q \o p
  OBVIOUS
<1>3. /\ u \in Seq(Events) /\ m \in Nat /\ n \in Nat /\ Len(u) = m + n
      /\ \A i \in 1..m + n : u[i] = IF i <= m THEN q[i] ELSE p[i - m]
  BY <1>1, <1>2, ConcatProperties, LenProperties
<1>4. PICK g : TellPath(g, Readers, r, q)
  BY ReadersStay, TellFolded
<1>5. g[0] = r /\ g[m] = tellAll(r, q) /\ tellAll(r, q) \in Readers
  <2>1. m \in 0..m
    BY <1>3
  <2> QED BY <1>1, <1>4, <2>1 DEF TellPath
<1>6. PICK h : TellPath(h, Readers, tellAll(r, q), p)
  BY <1>5, ReadersStay, TellFolded
<1>7. h[0] = g[m] /\ h[n] = tellAll(tellAll(r, q), p)
  BY <1>1, <1>5, <1>6 DEF TellPath
<1>8. PICK f : f = [i \in 0..m + n |-> IF i <= m THEN g[i] ELSE h[i - m]]
  OBVIOUS
<1>9. f[0] = r
  BY <1>3, <1>5, <1>8
<1>10. f[m + n] = h[n]
  <2>1. m + n \in 0..m + n
    BY <1>3
  <2>2. CASE n = 0
    BY <1>3, <1>7, <1>8, <2>1, <2>2
  <2>3. CASE n # 0
    <3>1. ~(m + n <= m) /\ (m + n) - m = n
      BY <1>3, <2>3
    <3> QED BY <1>8, <2>1, <3>1
  <2> QED BY <2>2, <2>3
<1>11. ASSUME NEW i \in 1..m + n PROVE f[i] = told(f[i - 1], u[i])
  <2>1. i \in 0..m + n /\ i - 1 \in 0..m + n /\ i \in Nat
    BY <1>3
  <2>2. CASE i <= m
    <3>1. i \in 1..Len(q) /\ i - 1 <= m
      BY <1>1, <1>3, <2>2
    <3>2. g[i] = told(g[i - 1], q[i])
      BY <1>4, <3>1 DEF TellPath
    <3> QED BY <1>3, <1>8, <2>1, <2>2, <3>1, <3>2
  <2>3. CASE ~(i <= m)
    <3>1. i - m \in 1..Len(p) /\ (i - m) - 1 = (i - 1) - m
      BY <1>1, <1>3, <2>3
    <3>2. h[i - m] = told(h[(i - 1) - m], p[i - m])
      BY <1>6, <3>1 DEF TellPath
    <3>3. f[i] = h[i - m] /\ u[i] = p[i - m]
      BY <1>3, <1>8, <2>1, <2>3
    <3>4. f[i - 1] = h[(i - 1) - m]
      <4>1. CASE i - 1 <= m
        <5>1. i - 1 = m /\ (i - 1) - m = 0
          BY <1>3, <2>1, <2>3, <4>1
        <5> QED BY <1>7, <1>8, <2>1, <4>1, <5>1
      <4>2. CASE ~(i - 1 <= m)
        BY <1>8, <2>1, <4>2
      <4> QED BY <4>1, <4>2
    <3> QED BY <3>2, <3>3, <3>4
  <2> QED BY <2>2, <2>3
<1>12. f[Len(u)] = tellAll(r, u)
  <2>1. \A i \in 1..Len(u) : f[i] = told(f[i - 1], u[i])
    BY <1>3, <1>11
  <2>2. u \in Seq(Events)
    BY <1>3
  <2> QED BY ONLY <1>9, <2>1, <2>2, r \in Readers, ToldSo
<1> QED BY <1>2, <1>3, <1>5, <1>7, <1>10, <1>12

\* q releases the keys K in the window w.
Releases(q, w, K) ==
  /\ \A i \in DOMAIN q : q[i].kind = "Key" /\ ~q[i].pressed /\ q[i].window = w
  /\ K = {q[i].key : i \in DOMAIN q}

\* Told that keys are released.
LEMMA ToldReleases ==
  ASSUME NEW r \in Readers, NEW w \in r.open, r.right, NEW q \in Seq(Events), NEW K,
         Releases(q, w, K), NEW v, v = tellAll(r, q)
  PROVE  /\ v \in Readers /\ v.right /\ v.open = r.open /\ v.closed = r.closed
         /\ v.inside = r.inside /\ v.pressed = r.pressed
         /\ v.held = r.held \ K /\ v.released = r.released \cup K
<1>0. /\ \A i \in DOMAIN q : q[i].kind = "Key" /\ ~q[i].pressed /\ q[i].window = w
      /\ K = {q[i].key : i \in DOMAIN q}
  BY DEF Releases
<1>1. DOMAIN q = 1..Len(q) /\ Len(q) \in Nat /\ \A i \in 1..Len(q) : q[i] \in Events
  BY LenProperties, ElementOfSeq
<1>2. PICK f : TellPath(f, Readers, r, q)
  BY ReadersStay, TellFolded
<1> DEFINE KK(n) == {q[i].key : i \in 1..n}
<1> DEFINE P(x, n) == /\ x.right /\ x.open = r.open /\ x.closed = r.closed
                      /\ x.inside = r.inside /\ x.pressed = r.pressed
                      /\ x.held = r.held \ KK(n) /\ x.released = r.released \cup KK(n)
<1>3. PICK S : S = {n \in 0..Len(q) : P(f[n], n)}
  OBVIOUS
<1>4. 0 \in S
  <2>1. f[0] = r /\ 0 \in 0..Len(q) /\ KK(0) = {}
    BY <1>1, <1>2 DEF TellPath
  <2> QED BY <1>3, <2>1
<1>5. ASSUME NEW n \in 1..Len(q), n - 1 \in S PROVE n \in S
  <2>1. n \in 0..Len(q) /\ n - 1 \in 0..Len(q)
    BY <1>1
  <2>2. P(f[n - 1], n - 1)
    BY <1>3, <1>5
  <2>3. f[n] = told(f[n - 1], q[n]) /\ f[n - 1] \in Readers
    BY <1>2, <2>1 DEF TellPath
  <2>4. q[n] \in Events /\ q[n].kind = "Key" /\ ~q[n].pressed /\ q[n].window = w
    BY <1>0, <1>1
  <2>5. KK(n) = KK(n - 1) \cup {q[n].key}
    <3>1. 1..n = (1..n - 1) \cup {n}
      BY <1>1
    <3> QED BY <3>1
  <2> HIDE DEF KK
  <2>6. P(f[n], n)
    <3>1. w \in f[n - 1].open
      BY <2>2
    <3>2. PICK x, y, e : x = f[n] /\ y = f[n - 1] /\ e = q[n]
      OBVIOUS
    <3>3. /\ y \in Readers /\ e \in Events /\ x = told(y, e)
          /\ y.right /\ e.window \in y.open /\ e.kind = "Key" /\ ~e.pressed
      BY <2>2, <2>3, <2>4, <3>1, <3>2
    <3>4. /\ x.right /\ x.open = y.open /\ x.closed = y.closed
          /\ x.inside = y.inside /\ x.pressed = y.pressed
          /\ x.held = y.held \ {e.key} /\ x.released = y.released \cup {e.key}
      BY ONLY <3>3, ToldReleased
    <3> QED BY <2>2, <2>5, <3>2, <3>4
  <2> QED BY <1>3, <2>1, <2>6
<1>6. Len(q) \in S
  <2>1. \A n \in 0..Len(q) : n \in S
    BY <1>1, <1>4, <1>5, UpTo
  <2> QED BY <1>1, <2>1
<1>7. f[Len(q)] = v /\ v \in Readers
  <2>1. Len(q) \in 0..Len(q)
    BY <1>1
  <2> QED BY <1>2, <2>1 DEF TellPath
<1>8. KK(Len(q)) = K
  BY <1>0, <1>1
<1> HIDE DEF KK
<1> QED BY <1>3, <1>6, <1>7, <1>8

\* q closes windows, each once and none that was.
Closings(q, closed) ==
  /\ \A i \in DOMAIN q : q[i].kind = "Closed" /\ q[i].window \notin closed
  /\ \A i, j \in DOMAIN q : q[i].window = q[j].window => i = j

\* The windows in q are closed.
LEMMA ToldClosings ==
  ASSUME NEW r \in Readers, r.right, NEW q \in Seq(Events),
         Closings(q, r.closed), NEW v, v = tellAll(r, q), NEW W, W = windowsOf(q)
  PROVE  /\ v \in Readers /\ v.right /\ v.open = r.open \ W /\ v.closed = r.closed \cup W
         /\ v.inside = r.inside \ W /\ v.pressed = r.pressed
         /\ v.held = r.held /\ v.released = r.released
<1>0. /\ \A i \in DOMAIN q : q[i].kind = "Closed" /\ q[i].window \notin r.closed
      /\ \A i, j \in DOMAIN q : q[i].window = q[j].window => i = j
  BY DEF Closings
<1>1. DOMAIN q = 1..Len(q) /\ Len(q) \in Nat /\ \A i \in 1..Len(q) : q[i] \in Events
  BY LenProperties, ElementOfSeq
<1>2. PICK f : TellPath(f, Readers, r, q)
  BY ReadersStay, TellFolded
<1> DEFINE WW(n) == {q[i].window : i \in 1..n}
<1> DEFINE P(x, n) == /\ x.right /\ x.open = r.open \ WW(n) /\ x.closed = r.closed \cup WW(n)
                      /\ x.inside = r.inside \ WW(n) /\ x.pressed = r.pressed
                      /\ x.held = r.held /\ x.released = r.released
<1>3. PICK S : S = {n \in 0..Len(q) : P(f[n], n)}
  OBVIOUS
<1>4. 0 \in S
  <2>1. f[0] = r /\ 0 \in 0..Len(q) /\ WW(0) = {}
    BY <1>1, <1>2 DEF TellPath
  <2> QED BY <1>3, <2>1
<1>5. ASSUME NEW n \in 1..Len(q), n - 1 \in S PROVE n \in S
  <2>1. n \in 0..Len(q) /\ n - 1 \in 0..Len(q)
    BY <1>1
  <2>2. P(f[n - 1], n - 1)
    BY <1>3, <1>5
  <2>3. f[n] = told(f[n - 1], q[n]) /\ f[n - 1] \in Readers
    BY <1>2, <2>1 DEF TellPath
  <2>4. q[n] \in Events /\ q[n].kind = "Closed" /\ q[n].window \notin r.closed
    BY <1>0, <1>1
  <2>5. WW(n) = WW(n - 1) \cup {q[n].window}
    <3>1. 1..n = (1..n - 1) \cup {n}
      BY <1>1
    <3> QED BY <3>1
  <2>6. q[n].window \notin WW(n - 1)
    <3>1. \A i \in 1..n - 1 : i \in DOMAIN q /\ i # n
      BY <1>1
    <3> QED BY <1>0, <1>1, <3>1
  <2> HIDE DEF WW
  <2>7. P(f[n], n)
    <3>1. q[n].window \notin f[n - 1].closed
      BY <2>2, <2>4, <2>6
    <3>2. PICK x, y, e : x = f[n] /\ y = f[n - 1] /\ e = q[n]
      OBVIOUS
    <3>3. /\ y \in Readers /\ e \in Events /\ x = told(y, e)
          /\ y.right /\ e.window \notin y.closed /\ e.kind = "Closed"
      BY <2>2, <2>3, <2>4, <3>1, <3>2
    <3>4. /\ x.right /\ x.open = y.open \ {e.window} /\ x.closed = y.closed \cup {e.window}
          /\ x.inside = y.inside \ {e.window} /\ x.pressed = y.pressed
          /\ x.held = y.held /\ x.released = y.released
      BY ONLY <3>3, ToldClosed DEF SameKeys
    <3> QED BY <2>2, <2>5, <3>2, <3>4
  <2> QED BY <1>3, <2>1, <2>7
<1>6. Len(q) \in S
  <2>1. \A n \in 0..Len(q) : n \in S
    BY <1>1, <1>4, <1>5, UpTo
  <2> QED BY <1>1, <2>1
<1>7. f[Len(q)] = v /\ v \in Readers
  <2>1. Len(q) \in 0..Len(q)
    BY <1>1
  <2> QED BY <1>2, <2>1 DEF TellPath
<1>8. WW(Len(q)) = W
  BY <1>1 DEF windowsOf
<1> HIDE DEF WW
<1> QED BY <1>3, <1>6, <1>7, <1>8

\* What is left of a list without the one at k.
LEMMA Removed ==
  ASSUME NEW X, NEW q \in Seq(X), NEW k \in DOMAIN q, NEW u, u = RemoveAt(q, k)
  PROVE  /\ u \in Seq(X) /\ Len(q) \in Nat /\ DOMAIN q = 1..Len(q) /\ Len(u) = Len(q) - 1
         /\ DOMAIN u = 1..Len(q) - 1
         /\ \A i \in 1..Len(q) - 1 : u[i] = IF i < k THEN q[i] ELSE q[i + 1]
<1>1. DOMAIN q = 1..Len(q) /\ Len(q) \in Nat /\ k \in 1..Len(q)
  BY LenProperties
<1>2. PICK a, b : a = SubSeq(q, 1, k - 1) /\ b = SubSeq(q, k + 1, Len(q))
  OBVIOUS
<1>3. /\ a \in Seq(X) /\ Len(a) = k - 1 /\ \A i \in 1..k - 1 : a[i] = q[i]
  <2>1. \A i \in 1..k - 1 : i \in 1..Len(q)
    BY <1>1
  <2>2. 1..k - 1 \subseteq DOMAIN q
    BY <1>1, <2>1
  <2>3. \A i \in 1..k - 1 : q[i] \in X
    BY <1>1, <2>1, ElementOfSeq
  <2> QED BY <1>1, <1>2, <2>1, <2>3
<1>4. /\ b \in Seq(X) /\ Len(b) = Len(q) - k /\ \A i \in 1..Len(q) - k : b[i] = q[k + i]
  <2>1. \A i \in k + 1..Len(q) : i \in 1..Len(q)
    BY <1>1
  <2>2. \A i \in k + 1..Len(q) : q[i] \in X
    BY <1>1, <2>1, ElementOfSeq
  <2> QED BY <1>1, <1>2, <2>1, <2>2
<1>5. u = a \o b
  BY <1>2 DEF RemoveAt
<1>6. /\ u \in Seq(X) /\ Len(u) = Len(q) - 1
      /\ \A i \in 1..Len(u) : u[i] = IF i <= Len(a) THEN a[i] ELSE b[i - Len(a)]
  <2>1. a \in Seq(X) /\ b \in Seq(X)
    BY <1>3, <1>4
  <2>2. /\ u \in Seq(X) /\ Len(u) = Len(a) + Len(b)
        /\ \A i \in 1..Len(a) + Len(b) : u[i] = IF i <= Len(a) THEN a[i] ELSE b[i - Len(a)]
    BY ONLY <1>5, <2>1, ConcatProperties
  <2> QED BY <1>1, <1>3, <1>4, <2>2
<1>7. ASSUME NEW i \in 1..Len(q) - 1 PROVE u[i] = IF i < k THEN q[i] ELSE q[i + 1]
  <2>1. CASE i < k
    <3>1. i <= k - 1 /\ i \in 1..k - 1
      BY <1>1, <2>1
    <3> QED BY <1>3, <1>6, <2>1, <3>1
  <2>2. CASE ~(i < k)
    <3>1. ~(i <= k - 1) /\ i - (k - 1) \in 1..Len(q) - k /\ k + (i - (k - 1)) = i + 1
      BY <1>1, <2>2
    <3>2. u[i] = b[i - (k - 1)]
      BY <1>3, <1>6, <3>1
    <3>3. b[i - (k - 1)] = q[k + (i - (k - 1))]
      BY <1>4, <3>1
    <3> QED BY <2>2, <3>1, <3>2, <3>3
  <2> QED BY <2>1, <2>2
<1>8. DOMAIN u = 1..Len(q) - 1
  BY <1>6, LenProperties
<1> QED BY <1>1, <1>6, <1>7, <1>8

\* A move may be left out, for a reader that was right.
LEMMA ToldWithout ==
  ASSUME NEW r \in Readers, NEW q \in Seq(Events), NEW k \in DOMAIN q, q[k].kind = "Move",
         tellAll(r, q).right
  PROVE  tellAll(r, RemoveAt(q, k)) = tellAll(r, q)
<1>1. PICK u : u = RemoveAt(q, k)
  OBVIOUS
<1>2. PICK n : n = Len(q)
  OBVIOUS
<1>3. /\ u \in Seq(Events) /\ n \in Nat /\ DOMAIN q = 1..n /\ Len(u) = n - 1 /\ k \in 1..n
      /\ \A i \in 1..n - 1 : u[i] = IF i < k THEN q[i] ELSE q[i + 1]
      /\ \A i \in 1..n : q[i] \in Events
  <2>1. \A i \in 1..n : q[i] \in Events
    BY <1>2, ElementOfSeq
  <2> QED BY <1>1, <1>2, <2>1, Removed
<1>4. PICK f : TellPath(f, Readers, r, q)
  BY ReadersStay, TellFolded
<1>5. /\ f[0] = r /\ f[n] = tellAll(r, q) /\ \A i \in 0..n : f[i] \in Readers
      /\ \A i \in 1..n : f[i] = told(f[i - 1], q[i])
  BY <1>2, <1>4 DEF TellPath
<1>6. f[k].right
  <2>1. ASSUME ~f[k].right PROVE FALSE
    <3>1. PICK S : S = {i \in 0..n : i >= k => ~f[i].right}
      OBVIOUS
    <3>2. 0 \in S
      BY <1>3, <3>1
    <3>3. ASSUME NEW i \in 1..n, i - 1 \in S PROVE i \in S
      <4>1. i \in 0..n /\ i - 1 \in 0..n /\ i \in Nat
        BY <1>3
      <4>2. CASE i = k
        BY <2>1, <3>1, <4>1, <4>2
      <4>3. CASE i # k
        <5>1. i >= k => i - 1 >= k
          BY <1>3, <4>1, <4>3
        <5>2. i >= k => ~f[i - 1].right
          BY <3>1, <3>3, <5>1
        <5>3. f[i].right => f[i - 1].right
          <6>1. f[i - 1] \in Readers /\ q[i] \in Events /\ f[i] = told(f[i - 1], q[i])
            BY <1>3, <1>5, <4>1
          <6> QED BY ONLY <6>1, ToldOne
        <5> QED BY <3>1, <4>1, <5>2, <5>3
      <4> QED BY <4>2, <4>3
    <3>4. \A i \in 0..n : i \in S
      BY <1>3, <3>2, <3>3, UpTo
    <3>5. n \in 0..n /\ n >= k
      BY <1>3
    <3> QED BY <1>5, <3>1, <3>4, <3>5
  <2> QED BY <2>1
<1>7. f[k] = f[k - 1]
  <2>1. k - 1 \in 0..n
    BY <1>3
  <2>2. f[k - 1] \in Readers /\ q[k] \in Events /\ f[k] = told(f[k - 1], q[k])
    BY <1>3, <1>5, <2>1
  <2> QED BY <1>6, <2>2, ToldOther
<1>8. PICK g : g = [i \in 0..n - 1 |-> IF i < k THEN f[i] ELSE f[i + 1]]
  OBVIOUS
<1>9. g[0] = r
  <2>1. 0 \in 0..n - 1 /\ 0 < k
    BY <1>3
  <2> QED BY <1>5, <1>8, <2>1
<1>10. g[n - 1] = f[n]
  <2>1. n - 1 \in 0..n - 1 /\ (n - 1) + 1 = n
    BY <1>3
  <2>2. CASE n - 1 < k
    <3>1. k = n
      BY <1>3, <2>2
    <3> QED BY <1>7, <1>8, <2>1, <2>2, <3>1
  <2>3. CASE ~(n - 1 < k)
    BY <1>8, <2>1, <2>3
  <2> QED BY <2>2, <2>3
<1>11. ASSUME NEW i \in 1..n - 1 PROVE g[i] = told(g[i - 1], u[i])
  <2>1. /\ i \in 0..n - 1 /\ i - 1 \in 0..n - 1 /\ i \in 1..n /\ i + 1 \in 1..n
        /\ (i - 1) + 1 = i /\ (i + 1) - 1 = i /\ i \in Nat
    BY <1>3
  <2>2. CASE i < k
    <3>1. i - 1 < k
      BY <1>3, <2>1, <2>2
    <3> QED BY <1>3, <1>5, <1>8, <2>1, <2>2, <3>1
  <2>3. CASE ~(i < k)
    <3>1. g[i] = f[i + 1] /\ u[i] = q[i + 1]
      BY <1>3, <1>8, <2>1, <2>3
    <3>2. f[i + 1] = told(f[i], q[i + 1])
      BY <1>5, <2>1
    <3>3. g[i - 1] = f[i]
      <4>1. CASE i - 1 < k
        <5>1. i = k
          BY <1>3, <2>1, <2>3, <4>1
        <5> QED BY <1>7, <1>8, <2>1, <4>1, <5>1
      <4>2. CASE ~(i - 1 < k)
        BY <1>8, <2>1, <4>2
      <4> QED BY <4>1, <4>2
    <3> QED BY <3>1, <3>2, <3>3
  <2> QED BY <2>2, <2>3
<1>12. g[Len(u)] = tellAll(r, u)
  <2>1. \A i \in 1..Len(u) : g[i] = told(g[i - 1], u[i])
    BY <1>3, <1>11
  <2>2. u \in Seq(Events)
    BY <1>3
  <2> QED BY ONLY <1>9, <2>1, <2>2, r \in Readers, ToldSo
<1> QED BY <1>1, <1>3, <1>5, <1>10, <1>12

-----------------------------------------------------------------------------
(* The moves of a run *)

\* What is no move leaves them.
LEMMA MovesStay ==
  ASSUME NEW q \in Seq(Events), NEW e \in Events, e.kind # "Move", NEW far, MovesInv(q, far)
  PROVE  MovesInv(Append(q, e), far)
<1>1. PICK u, n : u = Append(q, e) /\ n = Len(q) + 1
  OBVIOUS
<1>2. /\ u[n] = e /\ \A i \in DOMAIN q : i \in DOMAIN u /\ u[i] = q[i]
      /\ \A i \in DOMAIN u : i \in DOMAIN q \/ i = n
  BY <1>1, Appended
<1>3. \A w, i : i \in DOMAIN u /\ isMoveIn(u[i], w) => i \in DOMAIN q /\ isMoveIn(q[i], w)
  BY <1>2 DEF isMoveIn
<1>4. ASSUME NEW w \in Ids
      PROVE  /\ \A i, j \in DOMAIN u : isMoveIn(u[i], w) /\ isMoveIn(u[j], w) => i = j
             /\ \A i \in DOMAIN u : isMoveIn(u[i], w) => u[i].motion = far[w]
             /\ (\A i \in DOMAIN u : ~isMoveIn(u[i], w)) => far[w] = 0
  <2>1. \A i, j \in DOMAIN u : isMoveIn(u[i], w) /\ isMoveIn(u[j], w) => i = j
    BY <1>3 DEF MovesInv
  <2>2. \A i \in DOMAIN u : isMoveIn(u[i], w) => u[i].motion = far[w]
    BY <1>2, <1>3 DEF MovesInv
  <2>3. (\A i \in DOMAIN u : ~isMoveIn(u[i], w)) => far[w] = 0
    <3>1. (\A i \in DOMAIN u : ~isMoveIn(u[i], w)) => \A i \in DOMAIN q : ~isMoveIn(q[i], w)
      BY <1>2
    <3> QED BY <3>1 DEF MovesInv
  <2> QED BY <2>1, <2>2, <2>3
<1> QED BY <1>1, <1>4 DEF MovesInv

\* Neither do many.
LEMMA MovesStayAll ==
  ASSUME NEW q \in Seq(Events), NEW p \in Seq(Events), \A i \in DOMAIN p : p[i].kind # "Move",
         NEW far, MovesInv(q, far)
  PROVE  MovesInv(q \o p, far)
<1>1. PICK u, m, n : u = q \o p /\ m = Len(q) /\ n = Len(p)
  OBVIOUS
<1>2. /\ m \in Nat /\ n \in Nat /\ DOMAIN q = 1..m /\ DOMAIN p = 1..n
      /\ u \in Seq(Events) /\ Len(u) = m + n
      /\ \A i \in 1..m + n : u[i] = IF i <= m THEN q[i] ELSE p[i - m]
  BY <1>1, ConcatProperties, LenProperties
<1>3. DOMAIN u = 1..m + n
  BY <1>2, LenProperties
<1>4. \A i \in DOMAIN q : i \in DOMAIN u /\ u[i] = q[i]
  BY <1>2, <1>3
<1>5. ASSUME NEW i \in DOMAIN u, i \notin DOMAIN q PROVE u[i].kind # "Move"
  <2>1. i - m \in DOMAIN p /\ ~(i <= m)
    BY <1>2, <1>3, <1>5
  <2> QED BY <1>2, <1>3, <2>1
<1>6. \A w, i : i \in DOMAIN u /\ isMoveIn(u[i], w) => i \in DOMAIN q /\ isMoveIn(q[i], w)
  BY <1>4, <1>5 DEF isMoveIn
<1>7. ASSUME NEW w \in Ids
      PROVE  /\ \A i, j \in DOMAIN u : isMoveIn(u[i], w) /\ isMoveIn(u[j], w) => i = j
             /\ \A i \in DOMAIN u : isMoveIn(u[i], w) => u[i].motion = far[w]
             /\ (\A i \in DOMAIN u : ~isMoveIn(u[i], w)) => far[w] = 0
  <2>1. \A i, j \in DOMAIN u : isMoveIn(u[i], w) /\ isMoveIn(u[j], w) => i = j
    BY <1>6 DEF MovesInv
  <2>2. \A i \in DOMAIN u : isMoveIn(u[i], w) => u[i].motion = far[w]
    BY <1>4, <1>6 DEF MovesInv
  <2>3. (\A i \in DOMAIN u : ~isMoveIn(u[i], w)) => far[w] = 0
    <3>1. (\A i \in DOMAIN u : ~isMoveIn(u[i], w)) => \A i \in DOMAIN q : ~isMoveIn(q[i], w)
      BY <1>4
    <3> QED BY <3>1 DEF MovesInv
  <2> QED BY <2>1, <2>2, <2>3
<1> QED BY <1>1, <1>7 DEF MovesInv

\* The moves of the windows but w.
OtherMoves(q, far, w) ==
  \A v \in Ids \ {w} :
    /\ \A i, j \in DOMAIN q : isMoveIn(q[i], v) /\ isMoveIn(q[j], v) => i = j
    /\ \A i \in DOMAIN q : isMoveIn(q[i], v) => q[i].motion = far[v]
    /\ (\A i \in DOMAIN q : ~isMoveIn(q[i], v)) => far[v] = 0

\* What is left without a window's only move has none of it, and the others'.
LEMMA MovesLess ==
  ASSUME NEW q \in Seq(Events), NEW far, MovesInv(q, far), NEW w \in Ids, NEW k \in DOMAIN q,
         isMoveIn(q[k], w), NEW u, u = RemoveAt(q, k)
  PROVE  (\A i \in DOMAIN u : ~isMoveIn(u[i], w)) /\ OtherMoves(u, far, w)
<1>1. PICK n : n = Len(q)
  OBVIOUS
<1>2. /\ n \in Nat /\ DOMAIN q = 1..n /\ DOMAIN u = 1..n - 1 /\ k \in 1..n
      /\ \A i \in 1..n - 1 : u[i] = IF i < k THEN q[i] ELSE q[i + 1]
  BY <1>1, Removed
<1> DEFINE at(i) == IF i < k THEN i ELSE i + 1
<1>3. ASSUME NEW i \in DOMAIN u PROVE at(i) \in DOMAIN q /\ at(i) # k /\ u[i] = q[at(i)]
  BY <1>2
<1>4. ASSUME NEW i \in DOMAIN u, NEW j \in DOMAIN u, at(i) = at(j) PROVE i = j
  BY <1>2, <1>4
<1>5. ASSUME NEW i \in DOMAIN q, i # k PROVE \E j \in DOMAIN u : at(j) = i
  <2>1. CASE i < k
    <3>1. i \in DOMAIN u
      BY <1>2, <2>1
    <3> QED BY <2>1, <3>1
  <2>2. CASE ~(i < k)
    <3>1. i - 1 \in DOMAIN u /\ ~(i - 1 < k) /\ (i - 1) + 1 = i
      BY <1>2, <1>5, <2>2
    <3> QED BY <3>1
  <2> QED BY <2>1, <2>2
<1> HIDE DEF at
<1>6. ASSUME NEW i \in DOMAIN u PROVE ~isMoveIn(u[i], w)
  BY <1>3 DEF MovesInv
<1>7. ASSUME NEW v \in Ids \ {w}
      PROVE  /\ \A i, j \in DOMAIN u : isMoveIn(u[i], v) /\ isMoveIn(u[j], v) => i = j
             /\ \A i \in DOMAIN u : isMoveIn(u[i], v) => u[i].motion = far[v]
             /\ (\A i \in DOMAIN u : ~isMoveIn(u[i], v)) => far[v] = 0
  <2>1. ASSUME NEW i \in DOMAIN u, NEW j \in DOMAIN u, isMoveIn(u[i], v), isMoveIn(u[j], v)
        PROVE  i = j
    <3>1. at(i) = at(j)
      BY <1>3, <2>1 DEF MovesInv
    <3> QED BY <1>4, <3>1
  <2>2. \A i \in DOMAIN u : isMoveIn(u[i], v) => u[i].motion = far[v]
    BY <1>3 DEF MovesInv
  <2>3. ASSUME \A i \in DOMAIN u : ~isMoveIn(u[i], v) PROVE far[v] = 0
    <3>1. ASSUME NEW i \in DOMAIN q PROVE ~isMoveIn(q[i], v)
      <4>1. CASE i = k
        BY <4>1 DEF isMoveIn
      <4>2. CASE i # k
        BY <1>3, <1>5, <2>3, <4>2
      <4> QED BY <4>1, <4>2
    <3> QED BY <3>1 DEF MovesInv
  <2> QED BY <2>1, <2>2, <2>3
<1> QED BY <1>6, <1>7 DEF OtherMoves

\* A move of a window that has none yet.
LEMMA MovesMore ==
  ASSUME NEW q \in Seq(Events), NEW w \in Ids, \A i \in DOMAIN q : ~isMoveIn(q[i], w),
         NEW far, OtherMoves(q, far, w), NEW far2, \A v \in Ids \ {w} : far2[v] = far[v],
         NEW e \in Events, isMoveIn(e, w), e.motion = far2[w]
  PROVE  MovesInv(Append(q, e), far2)
<1>1. PICK u, n : u = Append(q, e) /\ n = Len(q) + 1
  OBVIOUS
<1>2. /\ u[n] = e /\ n \in DOMAIN u /\ \A i \in DOMAIN q : i \in DOMAIN u /\ u[i] = q[i]
      /\ \A i \in DOMAIN u : i \in DOMAIN q \/ i = n
  <2>1. Len(q) \in Nat
    BY LenProperties
  <2> QED BY <1>1, <2>1, Appended
<1>3. /\ \A i, j \in DOMAIN u : isMoveIn(u[i], w) /\ isMoveIn(u[j], w) => i = j
      /\ \A i \in DOMAIN u : isMoveIn(u[i], w) => u[i].motion = far2[w]
      /\ ~(\A i \in DOMAIN u : ~isMoveIn(u[i], w))
  <2>1. \A i \in DOMAIN u : isMoveIn(u[i], w) => i = n
    BY <1>2
  <2> QED BY <1>2, <2>1
<1>4. ASSUME NEW v \in Ids \ {w}
      PROVE  /\ \A i, j \in DOMAIN u : isMoveIn(u[i], v) /\ isMoveIn(u[j], v) => i = j
             /\ \A i \in DOMAIN u : isMoveIn(u[i], v) => u[i].motion = far2[v]
             /\ (\A i \in DOMAIN u : ~isMoveIn(u[i], v)) => far2[v] = 0
  <2>1. \A i \in DOMAIN u : isMoveIn(u[i], v) => i \in DOMAIN q /\ isMoveIn(q[i], v)
    BY <1>2 DEF isMoveIn
  <2>2. \A i, j \in DOMAIN u : isMoveIn(u[i], v) /\ isMoveIn(u[j], v) => i = j
    BY <2>1 DEF OtherMoves
  <2>3. \A i \in DOMAIN u : isMoveIn(u[i], v) => u[i].motion = far2[v]
    BY <1>2, <2>1 DEF OtherMoves
  <2>4. (\A i \in DOMAIN u : ~isMoveIn(u[i], v)) => far2[v] = 0
    <3>1. (\A i \in DOMAIN u : ~isMoveIn(u[i], v)) => \A i \in DOMAIN q : ~isMoveIn(q[i], v)
      BY <1>2
    <3> QED BY <3>1 DEF OtherMoves
  <2> QED BY <2>2, <2>3, <2>4
<1> QED BY <1>1, <1>3, <1>4 DEF MovesInv

\* Every key held is in the sequence of them.
LEMMA AllOfThem ==
  ASSUME NEW S, IsFiniteSet(S)
  PROVE  /\ Cardinality(S) \in Nat /\ \A i \in 1..Cardinality(S) : SetToSeq(S)[i] \in S
         /\ S = {SetToSeq(S)[i] : i \in 1..Cardinality(S)}
<1>1. PICK n : n = Cardinality(S)
  OBVIOUS
<1>2. n \in Nat /\ ExistsBijection(1..n, S)
  BY <1>1, FS_CardinalityType
<1>3. \E f \in [1..n -> S] : IsInjective(f)
  BY <1>2 DEF ExistsBijection, Bijection, Injection
<1>4. PICK f : f = SetToSeq(S)
  OBVIOUS
<1>5. f \in [1..n -> S] /\ IsInjective(f)
  BY <1>1, <1>3, <1>4 DEF SetToSeq
<1>6. IsFiniteSet(1..n) /\ Cardinality(1..n) = n
  <2>1. 1 \in Int /\ n \in Int /\ n >= 0
    BY <1>2
  <2>2. IsFiniteSet(1..n) /\ Cardinality(1..n) = IF 1 > n THEN 0 ELSE n-1+1
    BY <2>1, FS_Interval
  <2> QED BY <1>2, <2>2
<1>7. f \in Surjection(1..n, S)
  <2>1. f \in Injection(1..n, S)
    BY <1>5 DEF Injection
  <2> QED BY <1>1, <1>6, <2>1, FS_Injection
<1>8. \A x \in S : \E i \in 1..n : f[i] = x
  BY <1>7 DEF Surjection
<1> QED BY <1>1, <1>2, <1>4, <1>5, <1>8

-----------------------------------------------------------------------------
(* The request is edited *)

\* Only the request changes, between runs: it may name fewer windows, and new
\* ones.
LEMMA EditsHold ==
  ASSUME IInv, run.phase = "idle", onlyEntries, lastID' \in 0..MaxWindows, lastID <= lastID',
         entries' \in Seq(Entries), Sorted(entries'),
         \A w \in windowsOf(entries') : w \in windowsOf(entries) \/ (lastID < w /\ w <= lastID')
  PROVE  IInv'
<1>0. lastID \in Nat /\ lastID' \in Nat /\ MaxWindows \in Nat
  BY WindowsAssumption DEF IInv, TypeInv
<1>1. /\ states' = states /\ applied' = applied /\ input' = input /\ os' = os /\ run' = run
      /\ reader' = reader /\ motion' = motion /\ orphaned' = orphaned
  BY DEF onlyEntries, history
<1>2. TypeInv'
  BY <1>1 DEF IInv, TypeInv
<1>3. windowsOf(entries') \subseteq Nat
  <2>1. \A i \in DOMAIN entries' : entries'[i] \in Entries
    BY ElementOfSeq, LenProperties
  <2> QED BY <2>1, Numbers DEF windowsOf
<1>4. windowsOf(entries') \subseteq 1..lastID'
  <2>1. windowsOf(entries) \subseteq 1..lastID
    BY DEF IInv, ListsInv
  <2>2. \A w \in windowsOf(entries') : w \in Nat /\ 1 <= w /\ w <= lastID'
    BY <1>0, <1>3, <2>1
  <2> QED BY <1>0, <2>2
<1>5. windowsOf(applied) \subseteq 1..lastID
  BY DEF IInv, ListsInv
<1>6. ListsInv'
  <2>1. windowsOf(applied') \subseteq 1..lastID'
    BY <1>0, <1>1, <1>5
  <2>2. ASSUME NEW e \in windowsOf(entries') \ windowsOf(applied), NEW a \in windowsOf(applied)
        PROVE  a < e
    <3>1. CASE e \in windowsOf(entries)
      BY <3>1 DEF IInv, ListsInv
    <3>2. CASE lastID < e
      BY <1>0, <1>3, <1>5, <3>2
    <3> QED BY <2>2, <3>1, <3>2
  <2> QED BY <1>1, <1>4, <2>1, <2>2 DEF IInv, ListsInv
<1>7. WindowsInv' /\ KeysInv' /\ MovesInv(run.events, motion)'
  BY <1>1 DEF IInv, WindowsInv, KeysInv
<1>8. ReaderInv'
  <2>1. now' = now
    BY <1>1 DEF now, begun
  <2>2. now.closed \subseteq 1..lastID /\ now.closed \cap (windowsOf(entries) \cup windowsOf(applied)) = {}
    BY DEF IInv, ReaderInv
  <2>3. now.closed \subseteq 1..lastID'
    BY <1>0, <2>2
  <2>4. \A w \in now.closed : w \notin windowsOf(entries')
    <3>1. \A w \in now.closed : w \notin windowsOf(entries) /\ ~(lastID < w)
      BY <1>0, <2>2
    <3> QED BY <3>1
  <2> QED BY <1>1, <2>1, <2>2, <2>3, <2>4 DEF IInv, ReaderInv
<1> QED BY <1>2, <1>6, <1>7, <1>8 DEF IInv

\* A window is opened.
LEMMA OpenHolds ==
  ASSUME IInv, Open
  PROVE  IInv'
<1>0. /\ lastID \in Nat /\ lastID < MaxWindows /\ MaxWindows \in Nat /\ lastID' = lastID + 1
      /\ lastID' \in 0..MaxWindows /\ lastID' \in Ids /\ lastID <= lastID' /\ entries \in Seq(Entries)
      /\ Sorted(entries) /\ windowsOf(entries) \subseteq 1..lastID
  BY WindowsAssumption DEF IInv, TypeInv, Open, Ids, ListsInv
<1>1. PICK e : e = [window |-> lastID', entry |-> 0, mode |-> "Normal", pending |-> Nowhere]
  OBVIOUS
<1>2. e \in Entries /\ e.window = lastID'
  BY <1>0, <1>1 DEF Entries, Modes
<1>3. entries' = Append(entries, e)
  BY <1>1 DEF Open
<1>4. PICK n : n = Len(entries) + 1
  OBVIOUS
<1>5. /\ entries' \in Seq(Entries) /\ entries'[n] = e /\ n \in Nat
      /\ \A i \in DOMAIN entries : i \in DOMAIN entries' /\ entries'[i] = entries[i] /\ i \in Nat /\ i < n
      /\ \A i \in DOMAIN entries' : i \in DOMAIN entries \/ i = n
  BY <1>0, <1>2, <1>3, <1>4, Appended
<1>6. \A i \in DOMAIN entries : entries[i].window \in Nat /\ entries[i].window <= lastID
  <2>1. \A i \in DOMAIN entries : entries[i].window \in windowsOf(entries)
    BY DEF windowsOf
  <2> QED BY <1>0, <2>1
<1>7. Sorted(entries')
  <2>1. ASSUME NEW i \in DOMAIN entries', NEW j \in DOMAIN entries', i < j
        PROVE  entries'[i].window < entries'[j].window
    <3>1. i \in DOMAIN entries
      BY <1>5, <2>1
    <3>2. CASE j = n
      BY <1>0, <1>2, <1>5, <1>6, <3>1, <3>2
    <3>3. CASE j # n
      BY <1>0, <1>5, <2>1, <3>1, <3>3 DEF Sorted
    <3> QED BY <3>2, <3>3
  <2> QED BY <2>1 DEF Sorted
<1>8. ASSUME NEW w \in windowsOf(entries')
      PROVE  w \in windowsOf(entries) \/ (lastID < w /\ w <= lastID')
  <2>1. PICK i \in DOMAIN entries' : w = entries'[i].window
    BY DEF windowsOf
  <2>2. CASE i \in DOMAIN entries
    BY <1>5, <2>1, <2>2 DEF windowsOf
  <2>3. CASE i = n
    BY <1>0, <1>2, <1>5, <2>1, <2>3
  <2> QED BY <1>5, <2>2, <2>3
<1>9. run.phase = "idle" /\ onlyEntries
  BY DEF Open
<1> QED BY <1>0, <1>5, <1>7, <1>8, <1>9, EditsHold

\* What the request has of a window.
LEMMA Requested ==
  ASSUME TypeInv, NEW w \in windowsOf(entries)
  PROVE  requested(w) \in Entries /\ requested(w).window = w /\ requested(w) \in ToSet(entries)
<1>1. find(entries, w) \in DOMAIN entries /\ entries[find(entries, w)].window = w
  BY Found
<1>2. \A i \in DOMAIN entries : entries[i] \in Entries
  BY ElementOfSeq, LenProperties DEF TypeInv
<1> QED BY <1>1, <1>2 DEF requested, ToSet

\* An entry is edited.
LEMMA EditedHolds ==
  ASSUME IInv, run.phase = "idle", onlyEntries, lastID' = lastID, NEW w, w \in windowsOf(entries),
         NEW e \in Entries, e.window = w, entries' = edited(entries, w, e)
  PROVE  IInv'
<1>1. lastID' \in 0..MaxWindows /\ lastID <= lastID' /\ entries \in Seq(Entries) /\ Sorted(entries)
  BY WindowsAssumption DEF IInv, TypeInv, ListsInv
<1>2. /\ entries' \in Seq(Entries) /\ Sorted(entries') /\ windowsOf(entries') = windowsOf(entries)
  BY <1>1, Edited
<1> QED BY <1>1, <1>2, EditsHold

\* An entry is changed; the windows stay.
LEMMA ChangeHolds ==
  ASSUME IInv, NEW w, Change(w)
  PROVE  IInv'
<1>1. w \in windowsOf(entries) /\ TypeInv
  BY DEF Change, editing, IInv
<1>2. requested(w) \in Entries /\ requested(w).window = w
  BY <1>1, Requested
<1>3. PICK r, e : r = requested(w) /\ e = [r EXCEPT !.entry = 1 - @]
  OBVIOUS
<1>4. e \in Entries /\ e.window = w
  BY <1>2, <1>3 DEF Entries
<1>5. entries' = edited(entries, w, e)
  BY <1>3 DEF Change
<1> QED BY <1>1, <1>4, <1>5, EditedHolds DEF Change, editing

\* Another cursor mode is asked for, which waits for the next run.
LEMMA SetCursorModeHolds ==
  ASSUME IInv, NEW w, SetCursorMode(w)
  PROVE  IInv'
<1>1. w \in windowsOf(entries) /\ TypeInv
  BY DEF SetCursorMode, editing, IInv
<1>2. requested(w) \in Entries /\ requested(w).window = w
  BY <1>1, Requested
<1>3. PICK r, e : r = requested(w) /\ e = [r EXCEPT !.mode = IF @ = "Normal" THEN "Locked" ELSE "Normal"]
  OBVIOUS
<1>4. e \in Entries /\ e.window = w
  BY <1>2, <1>3 DEF Entries, Modes
<1>5. entries' = edited(entries, w, e)
  BY <1>3 DEF SetCursorMode
<1> QED BY <1>1, <1>4, <1>5, EditedHolds DEF SetCursorMode, editing

\* The cursor is to be moved, which waits for the next run.
LEMMA SetCursorPositionHolds ==
  ASSUME IInv, NEW w, NEW p \in Positions, SetCursorPosition(w, p)
  PROVE  IInv'
<1>1. w \in windowsOf(entries) /\ TypeInv
  BY DEF SetCursorPosition, editing, IInv
<1>2. requested(w) \in Entries /\ requested(w).window = w
  BY <1>1, Requested
<1>3. PICK r, e : r = requested(w) /\ e = [r EXCEPT !.pending = p]
  OBVIOUS
<1>4. e \in Entries /\ e.window = w
  BY <1>2, <1>3 DEF Entries
<1>5. entries' = edited(entries, w, e)
  BY <1>3 DEF SetCursorPosition
<1> QED BY <1>1, <1>4, <1>5, EditedHolds DEF SetCursorPosition, editing

\* A window leaves the request; it exists until the next run.
LEMMA CloseHolds ==
  ASSUME IInv, NEW w, Close(w)
  PROVE  IInv'
<1>1. /\ lastID' \in 0..MaxWindows /\ lastID <= lastID' /\ entries \in Seq(Entries) /\ Sorted(entries)
      /\ run.phase = "idle" /\ onlyEntries
  BY WindowsAssumption DEF IInv, TypeInv, ListsInv, Close
<1>2. entries' \in Seq(Entries) /\ Sorted(entries') /\ windowsOf(entries') = windowsOf(entries) \ {w}
  BY <1>1, Without, Numbers DEF Close
<1> QED BY <1>1, <1>2, EditsHold

-----------------------------------------------------------------------------
(* The operating system reports changes *)

\* A change is reported, which only what exists has to agree with.
LEMMA PumpHolds ==
  ASSUME IInv, NEW w, NEW c \in Changes, Pump(w, c), os' \in OSTypes, orphaned' \in BOOLEAN,
         Agree(os'.windows, os'.focus, Append(run.changes, c), ToSet(states), ToSet(applied)),
         os'.focus = NoWindow => ReleasesToFold(Append(run.changes, c), input.held, orphaned')
  PROVE  IInv'
<1>1. /\ lastID' = lastID /\ entries' = entries /\ states' = states /\ applied' = applied
      /\ input' = input /\ reader' = reader /\ motion' = motion /\ run.phase = "pump"
  BY DEF Pump, manager
<1>2. /\ run.changes \in Seq(Changes) /\ run.events \in Seq(Events)
      /\ run \in RunTypes
  BY DEF IInv, TypeInv, RunTypes
<1>3. Append(run.changes, c) \in Seq(Changes)
  BY <1>2, AppendProperties
<1>4. /\ run'.phase = "pump" /\ run'.changes = Append(run.changes, c) /\ run'.events = run.events
      /\ run' \in RunTypes
  BY <1>1, <1>2, <1>3 DEF Pump, reports, RunTypes
<1>5. TypeInv'
  BY <1>1, <1>4 DEF IInv, TypeInv
<1>6. ListsInv'
  BY <1>1, <1>4 DEF IInv, ListsInv
<1>7. WindowsInv'
  BY <1>1, <1>4 DEF IInv, WindowsInv
<1>8. KeysInv'
  BY <1>1, <1>4 DEF KeysInv
<1>9. ReaderInv'
  <2>1. now' = now
    BY <1>1, <1>4 DEF now, begun
  <2> QED BY <1>1, <1>4, <2>1 DEF IInv, ReaderInv
<1>10. MovesInv(run.events, motion)'
  BY <1>1, <1>4 DEF IInv
<1> QED BY <1>5, <1>6, <1>7, <1>8, <1>9, <1>10 DEF IInv

\* What is known of the state when a change is reported or folded.
LEMMA Reported ==
  ASSUME IInv
  PROVE  /\ os.windows \in Partial(Shown) /\ os.focus \in Ids \cup {NoWindow} /\ os \in OSTypes
         /\ DOMAIN os.windows \subseteq Ids
         /\ run.changes \in Seq(Changes) /\ run.events \in Seq(Events)
         /\ ToSet(states) \in SUBSET States /\ orphaned \in BOOLEAN
         /\ Agree(os.windows, os.focus, run.changes, ToSet(states), ToSet(applied))
<1>1. /\ os.windows \in Partial(Shown) /\ os.focus \in Ids \cup {NoWindow} /\ os \in OSTypes
      /\ run.changes \in Seq(Changes) /\ run.events \in Seq(Events) /\ orphaned \in BOOLEAN
      /\ states \in Seq(States)
  BY DEF IInv, TypeInv, OSTypes, RunTypes
<1>2. \A i \in DOMAIN states : states[i] \in States
  BY <1>1, ElementOfSeq, LenProperties
<1> QED BY <1>1, <1>2, Partials DEF IInv, WindowsInv, ToSet

\* A window gains the focus, which its state learns when it is folded.
LEMMA OSFocusHolds ==
  ASSUME IInv, NEW w \in Ids, OSFocus(w)
  PROVE  IInv'
<1>1. PICK c : c = [kind |-> "Focus", window |-> w, focused |-> TRUE]
  OBVIOUS
<1>2. c \in Changes /\ c.kind = "Focus" /\ c.window = w /\ c.focused
  BY <1>1 DEF Changes, Focuses
<1>3. /\ Pump(w, c) /\ os.focus = NoWindow /\ w \in DOMAIN os.windows /\ orphaned' = orphaned
  BY <1>1 DEF OSFocus, Pump
<1>4. os' \in OSTypes /\ os'.windows = os.windows /\ os'.focus = w
  BY Reported DEF OSFocus, OSTypes
<1>5. Agree(os.windows, w, Append(run.changes, c), ToSet(states), ToSet(applied))
  BY <1>2, <1>3, Reported, AgreeFocus
<1> QED BY <1>2, <1>3, <1>4, <1>5, Reported, Numbers, PumpHolds

\* Losing the focus releases what is held and what is to be.
LEMMA BlurReleases ==
  ASSUME NEW q \in Seq(Changes), NEW c \in Changes, isBlur(c), NEW h, NEW o
  PROVE  ReleasesToFold(Append(q, c), h, o)
<1>1. PICK u, n : u = Append(q, c) /\ n = Len(q) + 1
  OBVIOUS
<1>2. /\ u[n] = c /\ n \in DOMAIN u
      /\ \A i \in DOMAIN q : i < n
      /\ \A i \in DOMAIN u : i \in DOMAIN q \/ i = n
  <2>1. Len(q) \in Nat
    BY LenProperties
  <2> QED BY <1>1, <2>1, Appended
<1>3. \A i \in DOMAIN u : u[i].kind = "Key" => i < n
  BY <1>2 DEF isBlur
<1> QED BY <1>1, <1>2, <1>3 DEF ReleasesToFold

\* It loses it, and the change reported is to release the keys.
LEMMA OSBlurHolds ==
  ASSUME IInv, NEW w \in Ids, OSBlur(w)
  PROVE  IInv'
<1>1. PICK c : c = [kind |-> "Focus", window |-> w, focused |-> FALSE]
  OBVIOUS
<1>2. c \in Changes /\ c.kind = "Focus" /\ c.window = w /\ ~c.focused
  BY <1>1 DEF Changes, Focuses
<1>3. /\ Pump(w, c) /\ os.focus = w /\ w \in DOMAIN os.windows /\ orphaned' = orphaned
  BY <1>1 DEF OSBlur, Pump
<1>4. PICK shown : shown = [os.windows EXCEPT ![w] = [@ EXCEPT !.effective = "Normal",
                                                               !.granted = TRUE]]
  OBVIOUS
<1>5. shown \in Partial(Shown)
  <2>1. os.windows \in [DOMAIN os.windows -> Shown] /\ DOMAIN os.windows \in SUBSET Ids
    BY Reported, Partials
  <2>2. PICK x : x = [os.windows[w] EXCEPT !.effective = "Normal", !.granted = TRUE]
    OBVIOUS
  <2>3. x \in Shown /\ shown = [os.windows EXCEPT ![w] = x]
    BY <1>3, <1>4, <2>1, <2>2 DEF Shown, Modes
  <2>4. shown \in [DOMAIN os.windows -> Shown]
    BY <2>1, <2>3
  <2> QED BY <2>1, <2>4, Partials
<1>6. os' \in OSTypes /\ os'.windows = shown /\ os'.focus = NoWindow
  BY <1>4, <1>5, Reported DEF OSBlur, OSTypes
<1>7. Agree(shown, NoWindow, Append(run.changes, c), ToSet(states), ToSet(applied))
  BY <1>2, <1>3, <1>4, Reported, AgreeBlur
<1>8. ReleasesToFold(Append(run.changes, c), input.held, orphaned')
  BY <1>2, Reported, BlurReleases DEF isBlur
<1> QED BY <1>2, <1>3, <1>6, <1>7, <1>8, Reported, PumpHolds

\* A window closes by itself, perhaps the one with the focus.
LEMMA OSCloseHolds ==
  ASSUME IInv, NEW w \in Ids, OSClose(w)
  PROVE  IInv'
<1>1. PICK c : c = [kind |-> "Closed", window |-> w]
  OBVIOUS
<1>2. c \in Changes /\ c.kind = "Closed" /\ c.window = w
  BY <1>1 DEF Changes, Lifes
<1>3. /\ Pump(w, c) /\ w \in DOMAIN os.windows /\ orphaned' = (orphaned \/ os.focus = w)
      /\ \A i \in DOMAIN run.changes : run.changes[i].kind \in {"Opened", "Closed"}
  BY <1>1 DEF OSClose, Pump
<1>4. PICK shown : shown = Restrict(os.windows, DOMAIN os.windows \ {w})
  OBVIOUS
<1>5. shown \in Partial(Shown)
  <2>1. os.windows \in [DOMAIN os.windows -> Shown] /\ DOMAIN os.windows \in SUBSET Ids
    BY Reported, Partials
  <2>2. shown \in [DOMAIN os.windows \ {w} -> Shown]
    BY <1>4, <2>1 DEF Restrict
  <2> QED BY <2>1, <2>2, Partials
<1>6. PICK f : f = IF os.focus = w THEN NoWindow ELSE os.focus
  OBVIOUS
<1>7. os' \in OSTypes /\ os'.windows = shown /\ os'.focus = f
  BY <1>4, <1>5, <1>6, Reported DEF OSClose, OSTypes
<1>8. Agree(shown, f, Append(run.changes, c), ToSet(states), ToSet(applied))
  BY <1>2, <1>3, <1>4, <1>6, Reported, AgreeClose
<1>9. ASSUME f = NoWindow PROVE ReleasesToFold(Append(run.changes, c), input.held, orphaned')
  <2>1. CASE os.focus = w
    <3>1. orphaned' = TRUE
      BY <1>3, <2>1
    <3>2. \A i \in DOMAIN Append(run.changes, c) :
            Append(run.changes, c)[i].kind \in {"Opened", "Closed"}
      BY <1>2, <1>3, Reported, Appended
    <3> QED BY <3>1, <3>2 DEF ReleasesToFold
  <2>2. CASE os.focus # w
    <3>1. os.focus = NoWindow /\ orphaned' = orphaned
      BY <1>3, <1>6, <1>9, <2>2, Reported
    <3>2. ReleasesToFold(run.changes, input.held, orphaned)
      BY <3>1 DEF IInv, KeysInv
    <3> QED BY <1>2, <3>1, <3>2, Reported, ReleasedToo
  <2> QED BY <2>1, <2>2
<1>10. orphaned' \in BOOLEAN
  BY <1>3
<1> QED BY <1>2, <1>3, <1>7, <1>8, <1>9, <1>10, PumpHolds

\* A key is pressed or released in the window with the focus.
LEMMA OSKeyHolds ==
  ASSUME IInv, NEW w \in Ids, NEW key \in Keys, NEW pressed \in BOOLEAN, OSKey(w, key, pressed)
  PROVE  IInv'
<1>1. PICK c : c = [kind |-> "Key", window |-> w, key |-> key, pressed |-> pressed]
  OBVIOUS
<1>2. c \in Changes /\ c.kind = "Key" /\ c.window = w
  BY <1>1 DEF Changes, Presses
<1>3. Pump(w, c) /\ os.focus = w /\ w \in DOMAIN os.windows /\ orphaned' = orphaned /\ os' = os
  BY <1>1 DEF OSKey, Pump
<1>4. Agree(os.windows, os.focus, Append(run.changes, c), ToSet(states), ToSet(applied))
  BY <1>2, <1>3, Reported, AgreeInput
<1> QED BY <1>2, <1>3, <1>4, Reported, Numbers, PumpHolds

\* The pointer moves in a window, enters it or leaves it.
LEMMA OSPointerHolds ==
  ASSUME IInv, NEW w \in Ids, NEW kind \in {"Move", "Enter", "Leave"}, NEW p \in Positions,
         OSPointer(w, kind, p)
  PROVE  IInv'
<1>1. PICK c : c = [kind |-> kind, window |-> w, position |-> p]
  OBVIOUS
<1>2. c \in Changes /\ c.kind \in {"Move", "Enter", "Leave"} /\ c.window = w
  BY <1>1 DEF Changes
<1>3. Pump(w, c) /\ w \in DOMAIN os.windows /\ orphaned' = orphaned /\ os' = os
  BY <1>1 DEF OSPointer, Pump
<1>4. Agree(os.windows, os.focus, Append(run.changes, c), ToSet(states), ToSet(applied))
  BY <1>2, <1>3, Reported, AgreeInput
<1>5. os.focus = NoWindow => ReleasesToFold(Append(run.changes, c), input.held, orphaned)
  BY <1>2, Reported, ReleasedToo DEF IInv, KeysInv
<1> QED BY <1>2, <1>3, <1>4, <1>5, Reported, PumpHolds

\* Whatever is asked for of its cursor, a window stays what it is.
LEMMA AgreeModes ==
  ASSUME NEW shown, NEW q, NEW S, NEW A, NEW focus, Agree(shown, focus, q, S, A),
         NEW N, known(N) = known(S),
         \A x \in N : \E s \in S :
           s.window = x.window /\ x.open = s.open /\ x.focused = s.focused
  PROVE  Agree(shown, focus, q, N, A)
<1>1. ASSUME NEW x \in N PROVE StateInv(x, shown, focus, q)
  <2>1. PICK s \in S : s.window = x.window /\ x.open = s.open /\ x.focused = s.focused
    BY <1>1
  <2>2. StateInv(s, shown, focus, q)
    BY <2>1 DEF Agree
  <2> QED BY <2>1, <2>2 DEF StateInv
<1> QED BY <1>1 DEF Agree

\* The members of an edited list.
LEMMA EditedSet ==
  ASSUME NEW q, NEW w, NEW e, NEW u, u = edited(q, w, e)
  PROVE  /\ w \in windowsOf(q) => ToSet(u) = {x \in ToSet(q) : x.window # w} \cup {e}
         /\ w \notin windowsOf(q) => ToSet(u) = ToSet(q)
<1>1. DOMAIN u = DOMAIN q /\ \A i \in DOMAIN q : u[i] = IF q[i].window = w THEN e ELSE q[i]
  BY DEF edited
<1>2. ASSUME w \in windowsOf(q) PROVE ToSet(u) = {x \in ToSet(q) : x.window # w} \cup {e}
  <2>1. PICK k \in DOMAIN q : q[k].window = w
    BY <1>2 DEF windowsOf
  <2>2. u[k] = e /\ k \in DOMAIN u
    BY <1>1, <2>1
  <2>3. ASSUME NEW x \in ToSet(u) PROVE x \in {y \in ToSet(q) : y.window # w} \cup {e}
    <3>1. PICK i \in DOMAIN q : x = u[i]
      BY <1>1, <2>3 DEF ToSet
    <3>2. CASE q[i].window = w
      BY <1>1, <3>1, <3>2
    <3>3. CASE q[i].window # w
      <4>1. x = q[i] /\ x \in ToSet(q)
        BY <1>1, <3>1, <3>3 DEF ToSet
      <4> QED BY <3>3, <4>1
    <3> QED BY <3>2, <3>3
  <2>4. ASSUME NEW x \in ToSet(q), x.window # w PROVE x \in ToSet(u)
    <3>1. PICK i \in DOMAIN q : x = q[i]
      BY <2>4 DEF ToSet
    <3>2. x = u[i]
      BY <1>1, <2>4, <3>1
    <3> QED BY <1>1, <3>2 DEF ToSet
  <2>5. e \in ToSet(u)
    BY <2>2 DEF ToSet
  <2> QED BY <2>3, <2>4, <2>5
<1>3. ASSUME w \notin windowsOf(q) PROVE ToSet(u) = ToSet(q)
  <2>1. \A i \in DOMAIN q : q[i].window # w
    BY <1>3 DEF windowsOf
  <2>2. \A i \in DOMAIN q : u[i] = q[i]
    BY <1>1, <2>1
  <2> QED BY <1>1, <2>2 DEF ToSet
<1> QED BY <1>2, <1>3

\* The windows known are those of the list.
LEMMA KnownOf ==
  ASSUME NEW q
  PROVE  known(ToSet(q)) = windowsOf(q)
BY WindowsOf DEF known

\* What there is when a run begins to read the events.
LEMMA Begun ==
  ASSUME TypeInv
  PROVE  /\ begun \in Readers /\ begun.right = reader.right /\ begun.held = reader.held
         /\ begun.open = reader.open /\ begun.closed = reader.closed
         /\ begun.inside = reader.inside /\ begun.pressed = {} /\ begun.released = {}
BY DEF TypeInv, begun, Readers

\* The modes in force are asked for and the edges of the last run forgotten.
LEMMA PumpedHolds ==
  ASSUME IInv, Pumped
  PROVE  IInv'
<1>1. /\ lastID' = lastID /\ entries' = entries /\ applied' = applied /\ os' = os
      /\ reader' = reader /\ motion' = motion /\ orphaned' = orphaned /\ run.phase = "pump"
  BY DEF Pumped, history
<1>2. /\ run'.phase = "fold" /\ run'.changes = run.changes /\ run'.events = run.events
      /\ run' \in RunTypes
  BY DEF IInv, TypeInv, RunTypes, Pumped
<1>3. /\ input' \in InputTypes /\ input'.held = input.held /\ input'.pointers = input.pointers
      /\ input'.pressed = {} /\ input'.released = {}
  BY DEF IInv, TypeInv, InputTypes, Pumped
<1>4. /\ states \in Seq(States) /\ DOMAIN states = 1..Len(states) /\ Len(states) \in Nat
      /\ \A i \in DOMAIN states : states[i] \in States
  BY ElementOfSeq, LenProperties DEF IInv, TypeInv
<1> DEFINE m(s) == IF s.window \in DOMAIN os.windows THEN os.windows[s.window].effective
                   ELSE "Normal"
<1>5. \A s \in States : m(s) \in Modes
  <2>1. \A w \in DOMAIN os.windows : os.windows[w] \in Shown
    BY Reported, Partials
  <2>2. \A w \in DOMAIN os.windows : os.windows[w].effective \in Modes
    BY <2>1 DEF Shown
  <2> QED BY <2>2 DEF Modes
<1>6. /\ DOMAIN states' = DOMAIN states
      /\ \A i \in DOMAIN states : states'[i] = [states[i] EXCEPT !.mode = m(states[i])]
  BY DEF Pumped
<1> HIDE DEF m
<1>7. ASSUME NEW i \in DOMAIN states
      PROVE  /\ states'[i] \in States /\ states'[i].window = states[i].window
             /\ states'[i].open = states[i].open /\ states'[i].focused = states[i].focused
             /\ states'[i].mode = m(states[i])
  <2>1. PICK s, k : s = states[i] /\ k = m(states[i])
    OBVIOUS
  <2>2. s \in States /\ k \in Modes /\ states'[i] = [s EXCEPT !.mode = k]
    BY <1>4, <1>5, <1>6, <2>1
  <2> QED BY <2>1, <2>2 DEF States
<1>8. states' \in Seq(States)
  <2>1. states' = [i \in 1..Len(states) |-> states'[i]]
    BY <1>4, <1>6 DEF Pumped
  <2>2. \A i \in 1..Len(states) : states'[i] \in States
    BY <1>4, <1>7
  <2> QED BY <1>4, <2>1, <2>2
<1>9. Sorted(states') /\ windowsOf(states') = windowsOf(states)
  BY <1>6, <1>7 DEF IInv, ListsInv, Sorted, windowsOf
<1>10. \A x \in ToSet(states') : \E s \in ToSet(states) :
         s.window = x.window /\ x.open = s.open /\ x.focused = s.focused
  BY <1>6, <1>7 DEF ToSet
<1>11. {s.window : s \in {x \in ToSet(states') : x.open}}
         = {s.window : s \in {x \in ToSet(states) : x.open}}
  <2>1. \A s \in ToSet(states) : \E x \in ToSet(states') : s.window = x.window /\ x.open = s.open
    BY <1>6, <1>7 DEF ToSet
  <2> QED BY <1>10, <2>1
<1>12. TypeInv'
  BY <1>1, <1>2, <1>3, <1>8 DEF IInv, TypeInv
<1>13. ListsInv'
  BY <1>1, <1>2, <1>3, <1>9 DEF IInv, ListsInv
<1>14. WindowsInv'
  <2>1. Agree(os.windows, os.focus, run.changes, ToSet(states'), ToSet(applied))
    BY <1>9, <1>10, Reported, KnownOf, AgreeModes
  <2>2. \A i \in DOMAIN states' : ModeInv(states'[i], os.windows)
    BY <1>6, <1>7 DEF ModeInv, m
  <2>3. \A s \in ToSet(states') : ModeInv(s, os.windows)
    BY <2>2 DEF ToSet
  <2> QED BY <1>1, <1>2, <2>1, <2>3 DEF WindowsInv
<1>15. KeysInv'
  BY <1>1, <1>2, <1>3 DEF IInv, KeysInv
<1>16. ReaderInv'
  <2>1. now' = now
    BY <1>1, <1>2 DEF now, begun
  <2> QED BY <1>1, <1>2, <1>3, <1>11, <2>1 DEF IInv, ReaderInv
<1>17. MovesInv(run.events, motion)'
  BY <1>1, <1>2 DEF IInv
<1> QED BY <1>12, <1>13, <1>14, <1>15, <1>16, <1>17 DEF IInv

-----------------------------------------------------------------------------
(* The changes are folded *)

\* What is known when one is.
LEMMA Folding ==
  ASSUME IInv, NEW kind, NEW events \in Seq(Events), Fold(kind, events)
  PROVE  /\ run.changes # <<>> /\ change = Head(run.changes) /\ change.kind = kind
         /\ change \in Changes /\ run.phase = "fold" /\ lastID' = lastID /\ reader' = reader
         /\ run'.phase = "fold" /\ run'.changes = Tail(run.changes) /\ run'.events = events
         /\ run' \in RunTypes /\ now' = tellAll(begun, events)
<1>1. /\ run.changes # <<>> /\ change = Head(run.changes) /\ change.kind = kind
      /\ run.phase = "fold" /\ lastID' = lastID /\ reader' = reader /\ run \in RunTypes
  BY DEF Fold, change, IInv, TypeInv
<1>2. change \in Changes /\ Tail(run.changes) \in Seq(Changes)
  BY <1>1, Reported, Tailed
<1>3. /\ run'.phase = "fold" /\ run'.changes = Tail(run.changes) /\ run'.events = events
      /\ run' \in RunTypes
  BY <1>1, <1>2 DEF Fold, RunTypes
<1>4. now' = tellAll(begun, events)
  BY <1>1, <1>3 DEF now, begun
<1> QED BY <1>1, <1>2, <1>3, <1>4

\* The window of a change of input exists and is open.
LEMMA InputOpen ==
  ASSUME NEW shown, NEW q \in Seq(Changes), q # <<>>, NEW S, NEW A, NEW focus,
         Agree(shown, focus, q, S, A), Head(q).kind \notin {"Opened", "Closed"}
  PROVE  /\ Head(q).window \in DOMAIN shown
         /\ \E s \in S : s.window = Head(q).window /\ s.open
<1>1. PICK c, w : c = Head(q) /\ w = c.window
  OBVIOUS
<1>2. /\ c = q[1] /\ 1 \in DOMAIN q /\ c \in Changes /\ \A i \in DOMAIN q : i # 1 => 1 < i
  BY <1>1, Tailed
<1>3. w \in DOMAIN shown /\ w \in known(S)
  BY <1>1, <1>2 DEF Agree, ChangesInv
<1>4. ~opens(q, w)
  BY <1>1, <1>2 DEF Agree, ChangesInv, opens
<1>5. PICK s \in S : s.window = w
  BY <1>3 DEF known
<1>6. StateInv(s, shown, focus, q)
  BY DEF Agree
<1>7. s.open
  BY <1>3, <1>4, <1>5, <1>6 DEF StateInv
<1> QED BY <1>1, <1>3, <1>5, <1>7

\* So is the reader's.
LEMMA InputKnown ==
  ASSUME IInv, NEW kind, NEW events \in Seq(Events), Fold(kind, events),
         kind \notin {"Opened", "Closed"}
  PROVE  /\ change.window \in DOMAIN os.windows /\ change.window \in now.open
         /\ change.window \in windowsOf(states)
<1>1. /\ change.window \in DOMAIN os.windows
      /\ \E s \in ToSet(states) : s.window = change.window /\ s.open
  <2>1. /\ run.changes \in Seq(Changes) /\ run.changes # <<>> /\ change = Head(run.changes)
        /\ Agree(os.windows, os.focus, run.changes, ToSet(states), ToSet(applied))
        /\ Head(run.changes).kind \notin {"Opened", "Closed"}
    BY Folding, Reported
  <2> QED BY ONLY <2>1, InputOpen
<1>2. now.open = {s.window : s \in {x \in ToSet(states) : x.open}}
  BY DEF IInv, ReaderInv
<1> QED BY <1>1, <1>2, WindowsOf

\* A change is folded that closes nothing.
LEMMA FoldHolds ==
  ASSUME IInv, NEW kind, NEW events \in Seq(Events), Fold(kind, events),
         entries' = entries, applied' = applied,
         states' \in Seq(States), Sorted(states'), windowsOf(states') = windowsOf(states),
         input' \in InputTypes, DOMAIN input'.pointers = DOMAIN input.pointers,
         os' \in OSTypes, motion' \in [Ids -> Int], orphaned' \in BOOLEAN,
         Agree(os'.windows, os'.focus, Tail(run.changes), ToSet(states'), ToSet(applied)),
         \A s \in ToSet(states') : ModeInv(s, os'.windows),
         os'.focus = NoWindow => ReleasesToFold(Tail(run.changes), input'.held, orphaned'),
         IsFiniteSet(input'.held),
         NEW v, v = tellAll(begun, events), v.right, v.closed = now.closed,
         v.held = input'.held, v.pressed = input'.pressed, v.released = input'.released,
         v.open = {s.window : s \in {x \in ToSet(states') : x.open}},
         v.inside = {w \in DOMAIN input'.pointers : input'.pointers[w].inside},
         MovesInv(events, motion')
  PROVE  IInv'
<1>1. /\ run.phase = "fold" /\ lastID' = lastID /\ reader' = reader
      /\ run'.phase = "fold" /\ run'.changes = Tail(run.changes) /\ run'.events = events
      /\ run' \in RunTypes /\ now' = v
  BY Folding
<1>2. TypeInv'
  BY <1>1 DEF IInv, TypeInv
<1>3. ListsInv'
  BY <1>1 DEF IInv, ListsInv
<1>4. WindowsInv'
  BY <1>1 DEF WindowsInv
<1>5. KeysInv'
  BY <1>1 DEF KeysInv
<1>6. ReaderInv'
  BY <1>1 DEF IInv, ReaderInv
<1>7. MovesInv(run.events, motion)'
  BY <1>1
<1> QED BY <1>2, <1>3, <1>4, <1>5, <1>6, <1>7 DEF IInv

\* Input is folded, which leaves the windows as they are.
LEMMA InputHolds ==
  ASSUME IInv, NEW kind \in {"Key", "Move", "Enter", "Leave"}, NEW events \in Seq(Events),
         Fold(kind, events), UNCHANGED <<states, entries, applied, os, orphaned>>,
         input' \in InputTypes, DOMAIN input'.pointers = DOMAIN input.pointers,
         motion' \in [Ids -> Int], IsFiniteSet(input'.held),
         ~(kind = "Key" /\ change.pressed) => input'.held \subseteq input.held,
         NEW v, v = tellAll(begun, events), v.right, v.closed = now.closed, v.open = now.open,
         v.held = input'.held, v.pressed = input'.pressed, v.released = input'.released,
         v.inside = {w \in DOMAIN input'.pointers : input'.pointers[w].inside},
         MovesInv(events, motion')
  PROVE  IInv'
<1>1. /\ states' = states /\ entries' = entries /\ applied' = applied /\ os' = os
      /\ orphaned' = orphaned
  OBVIOUS
<1>2. /\ run.changes # <<>> /\ change = Head(run.changes) /\ change.kind = kind
      /\ run.phase = "fold" /\ change \in Changes
  BY Folding
<1>3. Agree(os.windows, os.focus, Tail(run.changes), ToSet(states), ToSet(applied))
  BY <1>2, Reported, AgreeFolded
<1>4. os.focus = NoWindow => ReleasesToFold(Tail(run.changes), input'.held, orphaned)
  <2>1. ~isBlur(change)
    BY <1>2 DEF isBlur
  <2>2. os.focus = NoWindow => ReleasesToFold(run.changes, input.held, orphaned)
    BY DEF IInv, KeysInv
  <2>3. run.changes \in Seq(Changes) /\ orphaned \in BOOLEAN /\ ~isBlur(Head(run.changes))
    BY <1>2, <2>1, Reported
  <2>4. ~(Head(run.changes).kind = "Key" /\ Head(run.changes).pressed)
          => input'.held \subseteq input.held
    BY <1>2
  <2> QED BY ONLY <1>2, <2>2, <2>3, <2>4, StillReleased
<1>5. /\ states \in Seq(States) /\ Sorted(states) /\ \A s \in ToSet(states) : ModeInv(s, os.windows)
      /\ now.open = {s.window : s \in {x \in ToSet(states) : x.open}}
  BY <1>2 DEF IInv, TypeInv, ListsInv, WindowsInv, ReaderInv
<1> QED BY <1>1, <1>3, <1>4, <1>5, Reported, FoldHolds

\* What the reader knows when a change is folded.
LEMMA ReadSoFar ==
  ASSUME IInv, run.phase = "fold"
  PROVE  /\ now \in Readers /\ begun \in Readers /\ now = tellAll(begun, run.events) /\ now.right
         /\ now.held = input.held /\ now.pressed = input.pressed /\ now.released = input.released
         /\ now.inside = {w \in DOMAIN input.pointers : input.pointers[w].inside}
         /\ now.open = {s.window : s \in {x \in ToSet(states) : x.open}}
         /\ now.closed \cap (windowsOf(entries) \cup windowsOf(applied)) = {}
         /\ IsFiniteSet(input.held) /\ input \in InputTypes /\ motion \in [Ids -> Int]
         /\ input.pointers \in [DOMAIN input.pointers -> Pointers]
         /\ DOMAIN input.pointers \in SUBSET Ids
         /\ DOMAIN input.pointers = windowsOf(states)
<1>1. TypeInv
  BY DEF IInv
<1>2. begun \in Readers /\ now = tellAll(begun, run.events)
  BY <1>1, Begun DEF now
<1>3. now \in Readers
  BY <1>2, Reported, EmptySeq, ToldBoth
<1>4. input \in InputTypes /\ motion \in [Ids -> Int] /\ input.pointers \in Partial(Pointers)
  BY <1>1 DEF TypeInv, InputTypes
<1> QED BY <1>2, <1>3, <1>4, Partials DEF IInv, ReaderInv, ListsInv

\* A key's change is folded; the release of one not held is dropped.
LEMMA FoldKeyHolds ==
  ASSUME IInv, FoldKey
  PROVE  IInv'
<1>1. PICK k, c : k = "Key" /\ c = change
  OBVIOUS
<1>2. PICK events : events = IF ~c.pressed /\ c.key \notin input.held THEN run.events ELSE published
  OBVIOUS
<1>3. Fold(k, events) /\ run.phase = "fold"
  BY <1>1, <1>2 DEF FoldKey, Fold
<1>4. /\ UNCHANGED <<states, entries, applied, os, orphaned>> /\ motion' = motion
      /\ input' = IF ~c.pressed /\ c.key \notin input.held THEN input
                  ELSE kept(input, c.key, c.pressed)
  BY <1>1 DEF FoldKey
<1>5. c \in Changes /\ c.kind = "Key"
  <2>1. run.changes # <<>> /\ c = Head(run.changes) /\ c.kind = k
    BY <1>1, <1>3 DEF Fold, change
  <2> QED BY <1>1, <2>1, Reported, Tailed
<1>6. c \in Events /\ c.pressed \in BOOLEAN /\ c.key \in Keys /\ published = Append(run.events, c)
  BY <1>1, <1>5, ChangeKinds DEF published
<1>7. events \in Seq(Events)
  BY <1>2, <1>6, Reported, AppendProperties
<1>8. c.window \in now.open
  BY <1>1, <1>3, <1>7, InputKnown
<1>9. MovesInv(events, motion')
  <2>1. MovesInv(run.events, motion)
    BY DEF IInv
  <2> QED BY <1>2, <1>4, <1>5, <1>6, <2>1, Reported, MovesStay
<1>10. PICK v : v = tellAll(begun, events)
  OBVIOUS
<1>11. events = published => v = told(now, c)
  BY <1>3, <1>6, <1>10, Reported, ReadSoFar, ToldMore
<1>12. /\ input' \in InputTypes /\ input'.pointers = input.pointers /\ IsFiniteSet(input'.held)
       /\ ~c.pressed => input'.held \subseteq input.held
       /\ v.right /\ v.closed = now.closed /\ v.open = now.open /\ v.inside = now.inside
       /\ v.held = input'.held /\ v.pressed = input'.pressed /\ v.released = input'.released
  <2>1. CASE ~c.pressed /\ c.key \notin input.held
    BY <1>2, <1>3, <1>4, <1>10, <2>1, ReadSoFar
  <2>2. CASE ~c.pressed /\ c.key \in input.held
    <3>1. v = told(now, c)
      BY <1>2, <1>11, <2>2
    <3>2. /\ v.right /\ v.open = now.open /\ v.closed = now.closed /\ v.inside = now.inside
          /\ v.held = now.held \ {c.key} /\ v.released = now.released \cup {c.key}
          /\ v.pressed = now.pressed
      BY <1>3, <1>5, <1>6, <1>8, <2>2, <3>1, ReadSoFar, ToldReleased
    <3>3. input' = [input EXCEPT !.held = @ \ {c.key}, !.released = @ \cup {c.key}]
      BY <1>4, <2>2 DEF kept
    <3>4. PICK H \in SUBSET Keys, R \in SUBSET Keys :
            H = input.held \ {c.key} /\ R = input.released \cup {c.key}
      BY <1>3, <1>6, ReadSoFar DEF InputTypes
    <3>5. /\ input' \in InputTypes /\ input'.pointers = input.pointers
          /\ input'.held = H /\ input'.released = R /\ input'.pressed = input.pressed
      BY <1>3, <3>3, <3>4, ReadSoFar DEF InputTypes
    <3>6. IsFiniteSet(H)
      BY <1>3, <3>4, ReadSoFar, FS_RemoveElement
    <3> QED BY <1>3, <3>2, <3>4, <3>5, <3>6, ReadSoFar
  <2>3. CASE c.pressed
    <3>1. v = told(now, c)
      BY <1>2, <1>11, <2>3
    <3>2. /\ v.right /\ v.open = now.open /\ v.closed = now.closed /\ v.inside = now.inside
          /\ v.held = now.held \cup {c.key} /\ v.released = now.released
          /\ v.pressed = now.pressed \cup ({c.key} \ now.held)
      BY <1>3, <1>5, <1>6, <1>8, <2>3, <3>1, ReadSoFar, ToldPressed
    <3>3. PICK H \in SUBSET Keys, P \in SUBSET Keys :
            /\ H = input.held \cup {c.key}
            /\ P = IF c.key \in input.held THEN input.pressed ELSE input.pressed \cup {c.key}
      BY <1>3, <1>6, ReadSoFar DEF InputTypes
    <3>4. input' = [input EXCEPT !.held = H, !.pressed = P]
      BY <1>4, <2>3, <3>3 DEF kept
    <3>5. /\ input' \in InputTypes /\ input'.pointers = input.pointers
          /\ input'.held = H /\ input'.pressed = P /\ input'.released = input.released
      BY <1>3, <3>4, ReadSoFar DEF InputTypes
    <3>6. IsFiniteSet(H)
      BY <1>3, <3>3, ReadSoFar, FS_AddElement
    <3>7. P = now.pressed \cup ({c.key} \ now.held)
      BY <1>3, <3>3, ReadSoFar
    <3> QED BY <1>3, <2>3, <3>2, <3>3, <3>5, <3>6, <3>7, ReadSoFar
  <2> QED BY <1>6, <2>1, <2>2, <2>3
<1>13. v.inside = {w \in DOMAIN input'.pointers : input'.pointers[w].inside}
  BY <1>3, <1>12, ReadSoFar
<1>14. motion' \in [Ids -> Int]
  BY <1>3, <1>4, ReadSoFar
<1> QED BY <1>1, <1>3, <1>4, <1>7, <1>9, <1>10, <1>12, <1>13, <1>14, InputHolds

\* The pointer enters or leaves a window.
LEMMA FoldPointerHolds ==
  ASSUME IInv, NEW kind \in {"Enter", "Leave"}, Fold(kind, published),
         UNCHANGED <<states, entries, applied, os, motion, orphaned>>,
         NEW x, change.window \in DOMAIN input.pointers /\ input.pointers[change.window] \in Pointers
                  => x \in Pointers /\ x.inside = (kind = "Enter"),
         input' = IF change.window \notin DOMAIN input.pointers THEN input
                  ELSE [input EXCEPT !.pointers[change.window] = x]
  PROVE  IInv'
<1>1. PICK c, w : c = change /\ w = c.window
  OBVIOUS
<1>2. run.phase = "fold" /\ run.changes # <<>> /\ c = Head(run.changes) /\ c.kind = kind
  BY <1>1 DEF Fold, change
<1>3. c \in Changes /\ c \in Events /\ published = Append(run.events, c)
  <2>1. c \in Changes
    BY <1>2, Reported, Tailed
  <2> QED BY <1>1, <1>2, <2>1, ChangeKinds DEF published
<1>4. published \in Seq(Events)
  BY <1>3, Reported, AppendProperties
<1>5. w \in now.open /\ w \in DOMAIN input.pointers
  BY <1>1, <1>2, <1>4, InputKnown, ReadSoFar
<1>6. MovesInv(published, motion)
  <2>1. MovesInv(run.events, motion) /\ c.kind # "Move"
    BY <1>2 DEF IInv
  <2> QED BY <1>3, <2>1, Reported, MovesStay
<1>7. PICK v : v = tellAll(begun, published)
  OBVIOUS
<1>8. v = told(now, c)
  BY <1>2, <1>3, <1>7, Reported, ReadSoFar, ToldMore
<1>9. /\ v.right /\ v.open = now.open /\ v.closed = now.closed
      /\ v.held = now.held /\ v.pressed = now.pressed /\ v.released = now.released
      /\ v.inside = IF kind = "Enter" THEN now.inside \cup {w} ELSE now.inside \ {w}
  <2>1. /\ now \in Readers /\ now.right /\ c \in Events /\ c.kind \in {"Enter", "Leave"}
        /\ c.window = w /\ w \in now.open /\ c.kind = kind
    BY <1>1, <1>2, <1>3, <1>5, ReadSoFar
  <2> QED BY ONLY <1>8, <2>1, ToldPointer DEF SameKeys
<1>10. x \in Pointers /\ x.inside = (kind = "Enter")
  BY <1>1, <1>2, <1>5, ReadSoFar
<1>11. PICK p : p = [input.pointers EXCEPT ![w] = x]
  OBVIOUS
<1>12. /\ p \in [DOMAIN input.pointers -> Pointers] /\ p \in Partial(Pointers)
       /\ DOMAIN p = DOMAIN input.pointers
       /\ \A u \in DOMAIN p : p[u] = IF u = w THEN x ELSE input.pointers[u]
  <2>1. p \in [DOMAIN input.pointers -> Pointers] /\ DOMAIN input.pointers \in SUBSET Ids
    BY <1>2, <1>10, <1>11, ReadSoFar
  <2> QED BY <1>11, <2>1, Partials
<1>13. /\ input' \in InputTypes /\ input'.pointers = p /\ input'.held = input.held
       /\ input'.pressed = input.pressed /\ input'.released = input.released
  BY <1>1, <1>2, <1>5, <1>11, <1>12, ReadSoFar DEF InputTypes
<1>14. v.inside = {u \in DOMAIN input'.pointers : input'.pointers[u].inside}
  <2>1. now.inside = {u \in DOMAIN p : input.pointers[u].inside}
    BY <1>2, <1>12, ReadSoFar
  <2>2. \A u \in DOMAIN p : u # w => p[u] = input.pointers[u]
    BY <1>12
  <2>3. w \in DOMAIN p /\ p[w] = x
    BY <1>5, <1>12
  <2>4. CASE kind = "Enter"
    <3>1. p[w].inside
      BY <1>10, <2>3, <2>4
    <3> QED BY <1>9, <1>13, <2>1, <2>2, <2>3, <2>4, <3>1
  <2>5. CASE kind = "Leave"
    <3>1. ~p[w].inside
      BY <1>10, <2>3, <2>5
    <3> QED BY <1>9, <1>13, <2>1, <2>2, <2>3, <2>5, <3>1
  <2> QED BY <2>4, <2>5
<1>15. motion' \in [Ids -> Int] /\ motion' = motion
  BY <1>2, ReadSoFar
<1>16. /\ kind \in {"Key", "Move", "Enter", "Leave"} /\ DOMAIN input'.pointers = DOMAIN input.pointers
       /\ IsFiniteSet(input'.held) /\ input'.held \subseteq input.held /\ MovesInv(published, motion')
       /\ v.held = input'.held /\ v.pressed = input'.pressed /\ v.released = input'.released
  BY <1>2, <1>6, <1>9, <1>12, <1>13, <1>15, ReadSoFar
<1> QED BY <1>4, <1>7, <1>9, <1>13, <1>14, <1>15, <1>16, InputHolds

\* The pointer entered a window.
LEMMA FoldEnterHolds ==
  ASSUME IInv, FoldEnter
  PROVE  IInv'
<1>1. PICK k, x : k = "Enter" /\ x = [position |-> change.position, placed |-> TRUE, inside |-> TRUE]
  OBVIOUS
<1>2. /\ Fold(k, published) /\ UNCHANGED <<states, entries, applied, os, motion, orphaned>>
      /\ input' = IF change.window \notin DOMAIN input.pointers THEN input
                  ELSE [input EXCEPT !.pointers[change.window] = x]
  BY <1>1 DEF FoldEnter
<1>3. x \in Pointers /\ x.inside = (k = "Enter")
  <2>1. run.changes # <<>> /\ change = Head(run.changes) /\ change.kind = k
    BY <1>2 DEF Fold, change
  <2>2. change.position \in Positions
    BY <1>1, <2>1, Reported, Tailed, ChangeKinds
  <2> QED BY <1>1, <2>2 DEF Pointers
<1> QED BY <1>1, <1>2, <1>3, FoldPointerHolds

\* The pointer left a window.
LEMMA FoldLeaveHolds ==
  ASSUME IInv, FoldLeave
  PROVE  IInv'
<1>1. PICK k, x : k = "Leave" /\ x = [input.pointers[change.window] EXCEPT !.inside = FALSE]
  OBVIOUS
<1>2. /\ Fold(k, published) /\ UNCHANGED <<states, entries, applied, os, motion, orphaned>>
      /\ input' = IF change.window \notin DOMAIN input.pointers THEN input
                  ELSE [input EXCEPT !.pointers[change.window] = x]
  BY <1>1 DEF FoldLeave
<1>3. input.pointers[change.window] \in Pointers => x \in Pointers /\ x.inside = (k = "Enter")
  BY <1>1 DEF Pointers
<1> QED BY <1>1, <1>2, <1>3, FoldPointerHolds

\* Once a move replaces what there was of its window, it is told with all of the
\* motion.
LEMMA MoveTold ==
  ASSUME NEW p \in Seq(Events), NEW w \in Ids, \A i \in DOMAIN p : ~isMoveIn(p[i], w),
         NEW r \in Readers, tellAll(r, p).right, w \in tellAll(r, p).open,
         NEW far, OtherMoves(p, far, w), NEW far2, \A v \in Ids \ {w} : far2[v] = far[v],
         NEW e \in Events, isMoveIn(e, w), e.motion = far2[w]
  PROVE  /\ Append(p, e) \in Seq(Events) /\ tellAll(r, Append(p, e)) = tellAll(r, p)
         /\ MovesInv(Append(p, e), far2)
<1>1. e.kind = "Move" /\ e.window = w
  BY DEF isMoveIn
<1>2. Append(p, e) \in Seq(Events)
  BY AppendProperties
<1>3. PICK y : y = tellAll(r, p)
  OBVIOUS
<1>4. y \in Readers /\ tellAll(r, Append(p, e)) = told(y, e)
  BY <1>3, ToldMore
<1>5. told(y, e) = y
  BY <1>1, <1>3, <1>4, ToldOther
<1>6. MovesInv(Append(p, e), far2)
  BY MovesMore
<1> QED BY <1>2, <1>3, <1>4, <1>5, <1>6

\* A move is told once, with all the motion.
LEMMA Coalesced ==
  ASSUME NEW q, q = run.events, q \in Seq(Events), MovesInv(q, motion), motion \in [Ids -> Int],
         NEW w \in Ids, NEW far \in Int, NEW r \in Readers, tellAll(r, q).right,
         w \in tellAll(r, q).open
  PROVE  /\ coalesced(w, far) \in Seq(Events)
         /\ tellAll(r, coalesced(w, far)) = tellAll(r, q)
         /\ MovesInv(coalesced(w, far), [motion EXCEPT ![w] = @ + far])
<1>0. PICK far2 : far2 = [motion EXCEPT ![w] = @ + far]
  OBVIOUS
<1>1. /\ motion[w] \in Int /\ far2[w] = motion[w] + far /\ far2[w] \in Int
      /\ \A v \in Ids \ {w} : far2[v] = motion[v]
  BY <1>0
<1>2. DOMAIN q = 1..Len(q) /\ Len(q) \in Nat /\ \A i \in DOMAIN q : q[i] \in Events
  BY LenProperties, ElementOfSeq
<1>3. CASE earlierMoves(w) = {}
  <2>1. \A i \in DOMAIN q : ~isMoveIn(q[i], w)
    BY <1>3 DEF earlierMoves
  <2>2. motion[w] = 0 /\ far = motion[w] + far
    BY <1>1, <2>1 DEF MovesInv
  <2>3. OtherMoves(q, motion, w)
    BY DEF MovesInv, OtherMoves
  <2>4. PICK e : e = [kind |-> "Move", window |-> w, motion |-> far]
    OBVIOUS
  <2>5. coalesced(w, far) = Append(q, e)
    BY <1>3, <2>4 DEF coalesced
  <2>6. e \in Events /\ isMoveIn(e, w) /\ e.motion = far2[w]
    BY <1>1, <2>2, <2>4 DEF Events, Moves, isMoveIn
  <2>7. /\ Append(q, e) \in Seq(Events) /\ tellAll(r, Append(q, e)) = tellAll(r, q)
        /\ MovesInv(Append(q, e), far2)
    BY <1>1, <2>1, <2>3, <2>6, MoveTold
  <2> QED BY <1>0, <2>5, <2>7
<1>4. CASE earlierMoves(w) # {}
  <2>1. PICK k : k = Max(earlierMoves(w))
    OBVIOUS
  <2>2. k \in earlierMoves(w)
    <3>1. earlierMoves(w) \in SUBSET (1..Len(q))
      BY <1>2 DEF earlierMoves
    <3> QED BY <1>2, <1>4, <2>1, <3>1, GreatestIn
  <2>3. k \in DOMAIN q /\ isMoveIn(q[k], w) /\ q[k].kind = "Move" /\ q[k].motion = motion[w]
    BY <2>2 DEF earlierMoves, isMoveIn, MovesInv
  <2>4. PICK p : p = RemoveAt(q, k)
    OBVIOUS
  <2>5. p \in Seq(Events)
    BY <2>3, <2>4, Removed
  <2>6. tellAll(r, p) = tellAll(r, q)
    BY <2>3, <2>4, ToldWithout
  <2>7. (\A i \in DOMAIN p : ~isMoveIn(p[i], w)) /\ OtherMoves(p, motion, w)
    BY <2>3, <2>4, MovesLess
  <2>8. PICK all, e : all = far + motion[w] /\ e = [kind |-> "Move", window |-> w, motion |-> all]
    OBVIOUS
  <2>9. all = motion[w] + far
    BY <1>1, <2>8
  <2>10. coalesced(w, far) = Append(p, e)
    BY <1>4, <2>1, <2>3, <2>4, <2>8 DEF coalesced
  <2>11. tellAll(r, p).right /\ w \in tellAll(r, p).open
    BY <2>6
  <2>12. e \in Events /\ isMoveIn(e, w) /\ e.motion = far2[w]
    BY <1>1, <2>8, <2>9 DEF Events, Moves, isMoveIn
  <2>13. /\ Append(p, e) \in Seq(Events) /\ tellAll(r, Append(p, e)) = tellAll(r, p)
         /\ MovesInv(Append(p, e), far2)
    BY <1>1, <2>5, <2>7, <2>11, <2>12, MoveTold
  <2> QED BY <1>0, <2>6, <2>10, <2>13
<1> QED BY <1>3, <1>4

\* A move is folded into the window's earlier one, if there is one.
LEMMA FoldMoveHolds ==
  ASSUME IInv, FoldMove
  PROVE  IInv'
<1>1. PICK k, c, w : k = "Move" /\ c = change /\ w = c.window
  OBVIOUS
<1> DEFINE locked == isKnown(w) /\ state(w).mode = "Locked"
<1> DEFINE there == w \in DOMAIN input.pointers
<1>2. PICK far : far = IF locked THEN 1
                       ELSE IF there /\ input.pointers[w].placed
                            THEN c.position - input.pointers[w].position ELSE 0
  OBVIOUS
<1>3. /\ Fold(k, coalesced(w, far)) /\ motion' = [motion EXCEPT ![w] = @ + far]
      /\ input' = IF locked \/ ~there THEN input
                  ELSE [input EXCEPT !.pointers[w] = [@ EXCEPT !.position = c.position,
                                                               !.placed = TRUE]]
      /\ UNCHANGED <<states, entries, applied, os, orphaned>>
  BY <1>1, <1>2 DEF FoldMove
<1> HIDE DEF locked
<1>4. run.phase = "fold" /\ run.changes # <<>> /\ c = Head(run.changes) /\ c.kind = k
  BY <1>1, <1>3 DEF Fold, change
<1>5. c \in Changes /\ c.position \in Positions /\ w \in Ids
  <2>1. c \in Changes
    BY <1>4, Reported, Tailed
  <2> QED BY <1>1, <1>4, <2>1, ChangeKinds
<1>6. far \in Int
  <2>1. \A p \in Positions : p \in Int
    BY WindowsAssumption
  <2>2. there => input.pointers[w] \in Pointers
    BY <1>4, ReadSoFar
  <2>3. there => input.pointers[w].position \in Positions
    BY <2>2 DEF Pointers
  <2> QED BY <1>2, <1>5, <2>1, <2>3
<1>7. w \in now.open
  <2>1. /\ Head(run.changes).window \in DOMAIN os.windows
        /\ \E s \in ToSet(states) : s.window = Head(run.changes).window /\ s.open
    <3>1. Head(run.changes).kind \notin {"Opened", "Closed"} /\ run.changes # <<>>
      BY <1>1, <1>4
    <3> QED BY <3>1, Reported, InputOpen
  <2> QED BY <1>1, <1>4, <2>1, ReadSoFar
<1>8. PICK events : events = coalesced(w, far)
  OBVIOUS
<1>9. events \in Seq(Events) /\ tellAll(begun, events) = now /\ MovesInv(events, motion')
  <2>1. PICK q : q = run.events
    OBVIOUS
  <2>2. /\ q \in Seq(Events) /\ MovesInv(q, motion) /\ motion \in [Ids -> Int] /\ begun \in Readers
        /\ tellAll(begun, q).right /\ w \in tellAll(begun, q).open /\ now = tellAll(begun, q)
    BY <1>4, <1>7, <2>1, Reported, ReadSoFar DEF IInv
  <2>3. /\ coalesced(w, far) \in Seq(Events)
        /\ tellAll(begun, coalesced(w, far)) = tellAll(begun, q)
        /\ MovesInv(coalesced(w, far), [motion EXCEPT ![w] = @ + far])
    BY ONLY <1>5, <1>6, <2>1, <2>2, Coalesced
  <2> QED BY <1>3, <1>8, <2>2, <2>3
<1>10. motion' \in [Ids -> Int]
  BY <1>3, <1>4, <1>5, <1>6, ReadSoFar
<1>11. /\ input' \in InputTypes /\ input'.held = input.held /\ input'.pressed = input.pressed
       /\ input'.released = input.released /\ DOMAIN input'.pointers = DOMAIN input.pointers
       /\ \A u \in DOMAIN input.pointers : input'.pointers[u].inside = input.pointers[u].inside
  <2>1. CASE locked \/ ~there
    BY <1>3, <1>4, <2>1, ReadSoFar
  <2>2. CASE ~(locked \/ ~there)
    <3>1. PICK y, x : /\ y = input.pointers[w]
                      /\ x = [y EXCEPT !.position = c.position, !.placed = TRUE]
      OBVIOUS
    <3>2. y \in Pointers
      BY <1>4, <2>2, <3>1, ReadSoFar
    <3>3. x \in Pointers /\ x.inside = y.inside
      BY <1>5, <3>1, <3>2 DEF Pointers
    <3>4. PICK p : p = [input.pointers EXCEPT ![w] = x]
      OBVIOUS
    <3>5. p \in [DOMAIN input.pointers -> Pointers] /\ DOMAIN input.pointers \in SUBSET Ids
      BY <1>4, <3>3, <3>4, ReadSoFar
    <3>6. p \in Partial(Pointers)
      BY <3>5, Partials
    <3>7. input' = [input EXCEPT !.pointers = p]
      BY <1>3, <1>4, <2>2, <3>1, <3>4, ReadSoFar DEF InputTypes
    <3>8. /\ input' \in InputTypes /\ input'.pointers = p /\ input'.held = input.held
          /\ input'.pressed = input.pressed /\ input'.released = input.released
      BY <1>4, <3>6, <3>7, ReadSoFar DEF InputTypes
    <3>9. \A u \in DOMAIN input.pointers : p[u].inside = input.pointers[u].inside
      BY <3>1, <3>3, <3>4
    <3> QED BY <3>5, <3>8, <3>9
  <2> QED BY <2>1, <2>2
<1>12. now.inside = {u \in DOMAIN input'.pointers : input'.pointers[u].inside}
  BY <1>4, <1>11, ReadSoFar
<1>13. /\ k \in {"Key", "Move", "Enter", "Leave"} /\ IsFiniteSet(input'.held)
       /\ input'.held \subseteq input.held /\ now.right
       /\ now.held = input'.held /\ now.pressed = input'.pressed /\ now.released = input'.released
  BY <1>1, <1>4, <1>11, ReadSoFar
<1>14. Fold(k, events)
  BY <1>3, <1>8
<1> QED BY <1>3, <1>9, <1>10, <1>11, <1>12, <1>13, <1>14, InputHolds

\* What the package has of a window it knows.
LEMMA StateOf ==
  ASSUME IInv, NEW w \in windowsOf(states)
  PROVE  /\ state(w) \in ToSet(states) /\ state(w) \in States /\ state(w).window = w
         /\ \A s \in ToSet(states) : s.window = w => s = state(w)
         /\ states \in Seq(States) /\ Sorted(states)
<1>1. states \in Seq(States) /\ Sorted(states)
  BY DEF IInv, TypeInv, ListsInv
<1>2. state(w) \in ToSet(states) /\ state(w).window = w
  BY Found DEF state
<1>3. \A x, y \in ToSet(states) : x.window = y.window => x = y
  BY <1>1, Numbers, Once
<1> QED BY <1>1, <1>2, <1>3, Reported

\* A window's state is replaced by another.
LEMMA StateEdited ==
  ASSUME IInv, NEW w \in windowsOf(states), NEW e \in States, e.window = w,
         states' = edited(states, w, e)
  PROVE  /\ states' \in Seq(States) /\ Sorted(states') /\ windowsOf(states') = windowsOf(states)
         /\ ToSet(states') = {x \in ToSet(states) : x.window # w} \cup {e}
         /\ ToSet(states') \in SUBSET States /\ known(ToSet(states')) = known(ToSet(states))
<1>1. states \in Seq(States) /\ Sorted(states)
  BY StateOf
<1>2. states' \in Seq(States) /\ Sorted(states') /\ windowsOf(states') = windowsOf(states)
  BY <1>1, Edited
<1>3. ToSet(states') = {x \in ToSet(states) : x.window # w} \cup {e}
  BY EditedSet
<1>4. ToSet(states') \in SUBSET States
  BY <1>3, Reported
<1> QED BY <1>2, <1>3, <1>4, KnownOf

\* A window is said to be open.
LEMMA FoldOpenedHolds ==
  ASSUME IInv, FoldOpened
  PROVE  IInv'
<1>1. PICK k, c, w : k = "Opened" /\ c = change /\ w = c.window
  OBVIOUS
<1>2. run.phase = "fold" /\ run.changes # <<>> /\ c = Head(run.changes) /\ c.kind = k
  BY <1>1 DEF FoldOpened, Fold, change
<1>3. c \in Changes /\ c = run.changes[1] /\ 1 \in DOMAIN run.changes
  BY <1>2, Reported, Tailed
<1>4. w \in windowsOf(states) /\ opens(run.changes, w)
  <2>1. w \in known(ToSet(states))
    BY <1>1, <1>3, Reported DEF Agree, ChangesInv
  <2> QED BY <1>1, <1>2, <1>3, <2>1, KnownOf DEF opens
<1>5. c \in Events /\ published = Append(run.events, c)
  BY <1>1, <1>2, <1>3, ChangeKinds DEF published
<1>6. PICK events : events = published
  OBVIOUS
<1>7. events \in Seq(Events)
  BY <1>5, <1>6, Reported, AppendProperties
<1>8. /\ Fold(k, events) /\ UNCHANGED <<entries, applied, input, os, motion, orphaned>>
      /\ states' = edited(states, w, [state(w) EXCEPT !.open = TRUE])
  BY <1>1, <1>4, <1>6 DEF FoldOpened, isKnown
<1>9. PICK s, e : s = state(w) /\ e = [s EXCEPT !.open = TRUE]
  OBVIOUS
<1>10. /\ s \in States /\ s \in ToSet(states) /\ s.window = w
       /\ \A x \in ToSet(states) : x.window = w => x = s
  BY <1>4, <1>9, StateOf
<1>11. /\ e \in States /\ e.window = w /\ e.open /\ e.focused = s.focused /\ e.mode = s.mode
  BY <1>9, <1>10 DEF States
<1>12. /\ states' \in Seq(States) /\ Sorted(states') /\ windowsOf(states') = windowsOf(states)
       /\ ToSet(states') = {x \in ToSet(states) : x.window # w} \cup {e}
       /\ ToSet(states') \in SUBSET States /\ known(ToSet(states')) = known(ToSet(states))
  BY <1>4, <1>8, <1>9, <1>11, StateEdited
<1>13. ~s.open
  <2>1. StateInv(s, os.windows, os.focus, run.changes)
    BY <1>10, Reported DEF Agree
  <2> QED BY <1>4, <1>10, <2>1 DEF StateInv
<1>14. Agree(os.windows, os.focus, Tail(run.changes), ToSet(states'), ToSet(applied))
  <2>1. NowOpen(ToSet(states), ToSet(states'), c.window)
    BY <1>1, <1>10, <1>11, <1>12 DEF NowOpen
  <2>2. c.kind = "Opened"
    BY <1>1, <1>2
  <2>3. /\ os.windows \in Partial(Shown) /\ run.changes \in Seq(Changes)
        /\ ToSet(states) \in SUBSET States /\ run.changes # <<>> /\ c = Head(run.changes)
        /\ Agree(os.windows, os.focus, run.changes, ToSet(states), ToSet(applied))
        /\ ToSet(states') \in SUBSET States /\ known(ToSet(states')) = known(ToSet(states))
    BY <1>2, <1>12, Reported
  <2> QED BY ONLY <2>1, <2>2, <2>3, AgreeOpened
<1>15. \A x \in ToSet(states') : ModeInv(x, os.windows)
  <2>1. \A x \in ToSet(states) : ModeInv(x, os.windows)
    BY <1>2 DEF IInv, WindowsInv
  <2>2. ModeInv(e, os.windows)
    BY <1>10, <1>11, <2>1 DEF ModeInv
  <2> QED BY <1>12, <2>1, <2>2
<1>16. os.focus = NoWindow => ReleasesToFold(Tail(run.changes), input.held, orphaned)
  <2>1. /\ run.changes \in Seq(Changes) /\ orphaned \in BOOLEAN /\ ~isBlur(Head(run.changes))
        /\ os.focus = NoWindow => ReleasesToFold(run.changes, input.held, orphaned)
    BY <1>1, <1>2, Reported DEF IInv, KeysInv, isBlur
  <2> QED BY ONLY <1>2, <2>1, StillReleased
<1>17. PICK v : v = tellAll(begun, events)
  OBVIOUS
<1>18. v = told(now, c)
  BY <1>2, <1>5, <1>6, <1>17, Reported, ReadSoFar, ToldMore
<1>19. w \notin now.open /\ w \notin now.closed
  <2>1. w \notin now.open
    BY <1>2, <1>10, <1>13, ReadSoFar
  <2>2. w \in windowsOf(applied)
    BY <1>4 DEF IInv, ListsInv
  <2> QED BY <1>2, <2>1, <2>2, ReadSoFar
<1>20. /\ v.right /\ v.open = now.open \cup {w} /\ v.closed = now.closed /\ v.inside = now.inside
       /\ v.held = now.held /\ v.pressed = now.pressed /\ v.released = now.released
  <2>1. now \in Readers /\ now.right /\ c.kind = "Opened" /\ c.window = w
    BY <1>1, <1>2, ReadSoFar
  <2> QED BY ONLY <1>5, <1>18, <1>19, <2>1, ToldOpened DEF SameKeys
<1>21. v.open = {x.window : x \in {y \in ToSet(states') : y.open}}
  <2>1. now.open = {x.window : x \in {y \in ToSet(states) : y.open}}
    BY <1>2, ReadSoFar
  <2>2. ASSUME NEW u \in now.open PROVE \E x \in ToSet(states') : x.open /\ x.window = u
    <3>1. PICK x \in ToSet(states) : x.open /\ x.window = u
      BY <2>1, <2>2
    <3>2. x.window # w
      BY <1>10, <1>13, <3>1
    <3> QED BY <1>12, <3>1, <3>2
  <2>3. ASSUME NEW x \in ToSet(states'), x.open PROVE x.window \in now.open \cup {w}
    BY <1>11, <1>12, <2>1, <2>3
  <2>4. \E x \in ToSet(states') : x.open /\ x.window = w
    BY <1>11, <1>12
  <2> QED BY <1>20, <2>2, <2>3, <2>4
<1>22. MovesInv(events, motion)
  <2>1. MovesInv(run.events, motion) /\ c.kind # "Move"
    BY <1>1, <1>2 DEF IInv
  <2> QED BY <1>5, <1>6, <2>1, Reported, MovesStay
<1>23. /\ input' = input /\ os' = os /\ orphaned' = orphaned /\ motion' = motion
       /\ entries' = entries /\ applied' = applied
  BY <1>8
<1>24. /\ input' \in InputTypes /\ DOMAIN input'.pointers = DOMAIN input.pointers
       /\ os' \in OSTypes /\ motion' \in [Ids -> Int] /\ orphaned' \in BOOLEAN
       /\ IsFiniteSet(input'.held)
       /\ v.held = input'.held /\ v.pressed = input'.pressed /\ v.released = input'.released
       /\ v.inside = {u \in DOMAIN input'.pointers : input'.pointers[u].inside}
       /\ MovesInv(events, motion')
  BY <1>2, <1>20, <1>22, <1>23, Reported, ReadSoFar
<1> QED BY <1>7, <1>8, <1>12, <1>14, <1>15, <1>16, <1>17, <1>20, <1>21, <1>23, <1>24, FoldHolds

\* The focus is gained or lost.
LEMMA FocusingHolds ==
  ASSUME IInv, NEW kind, kind = "Focus", NEW events \in Seq(Events), Fold(kind, events),
         UNCHANGED <<entries, applied, motion>>,
         NEW e \in States, e.window = change.window, e.open = state(change.window).open,
         e.focused = change.focused, states' = edited(states, change.window, e),
         os' \in OSTypes, os'.focus = os.focus,
         NowShown(os.windows, os'.windows, os.focus, change, ToSet(applied)),
         ModeInv(e, os'.windows),
         \A u \in DOMAIN os.windows \ {change.window} : os'.windows[u] = os.windows[u],
         input' \in InputTypes, input'.pointers = input.pointers, IsFiniteSet(input'.held),
         isBlur(change) => input'.held = {}, input'.held \subseteq input.held,
         orphaned' \in BOOLEAN, isBlur(change) \/ orphaned' = orphaned,
         NEW v, v = tellAll(begun, events), v.right, v.closed = now.closed,
         v.open = now.open, v.inside = now.inside, MovesInv(events, motion),
         v.held = input'.held, v.pressed = input'.pressed, v.released = input'.released
  PROVE  IInv'
<1>1. PICK c, w : c = change /\ w = c.window
  OBVIOUS
<1>2. run.phase = "fold" /\ run.changes # <<>> /\ c = Head(run.changes) /\ c.kind = "Focus"
  BY <1>1 DEF Fold, change
<1>3. w \in windowsOf(states)
  BY <1>1, InputKnown
<1>4. PICK s : s = state(w)
  OBVIOUS
<1>5. /\ s \in States /\ s \in ToSet(states) /\ s.window = w
      /\ \A x \in ToSet(states) : x.window = w => x = s
  BY <1>3, <1>4, StateOf
<1>6. /\ states' \in Seq(States) /\ Sorted(states') /\ windowsOf(states') = windowsOf(states)
      /\ ToSet(states') = {x \in ToSet(states) : x.window # w} \cup {e}
      /\ ToSet(states') \in SUBSET States /\ known(ToSet(states')) = known(ToSet(states))
  BY <1>1, <1>3, StateEdited
<1>7. e.window = w /\ e.open = s.open /\ e.focused = c.focused
  BY <1>1, <1>4
<1>8. Agree(os'.windows, os.focus, Tail(run.changes), ToSet(states'), ToSet(applied))
  <2>1. NowFocused(ToSet(states), ToSet(states'), c)
    <3>1. ASSUME NEW x \in ToSet(states')
          PROVE  \E y \in ToSet(states) :
                   /\ y.window = x.window /\ x.open = y.open
                   /\ x.focused = IF x.window = c.window THEN c.focused ELSE y.focused
      <4>1. CASE x = e
        <5>1. e.window = c.window
          BY <1>1, <1>7
        <5> QED BY <1>5, <1>7, <4>1, <5>1
      <4>2. CASE x # e
        <5>1. x \in ToSet(states) /\ x.window # c.window
          BY <1>1, <1>6, <3>1, <4>2
        <5> QED BY <5>1
      <4> QED BY <4>1, <4>2
    <3> QED BY <3>1 DEF NowFocused
  <2>2. /\ os.windows \in Partial(Shown) /\ run.changes \in Seq(Changes)
        /\ ToSet(states) \in SUBSET States /\ run.changes # <<>> /\ c = Head(run.changes)
        /\ Agree(os.windows, os.focus, run.changes, ToSet(states), ToSet(applied))
        /\ ToSet(states') \in SUBSET States /\ known(ToSet(states')) = known(ToSet(states))
        /\ NowShown(os.windows, os'.windows, os.focus, c, ToSet(applied)) /\ c.kind = "Focus"
    BY <1>1, <1>2, <1>6, Reported
  <2> QED BY ONLY <2>1, <2>2, AgreeFocused
<1>9. \A x \in ToSet(states') : ModeInv(x, os'.windows)
  <2>1. ASSUME NEW x \in ToSet(states), x.window # w PROVE ModeInv(x, os'.windows)
    <3>1. ModeInv(x, os.windows)
      BY <1>2 DEF IInv, WindowsInv
    <3>2. DOMAIN os'.windows = DOMAIN os.windows
      BY DEF NowShown
    <3> QED BY <1>1, <2>1, <3>1, <3>2 DEF ModeInv
  <2> QED BY <1>6, <2>1
<1>10. os.focus = NoWindow => ReleasesToFold(Tail(run.changes), input'.held, orphaned')
  <2>1. /\ run.changes \in Seq(Changes) /\ orphaned \in BOOLEAN
        /\ os.focus = NoWindow => ReleasesToFold(run.changes, input.held, orphaned)
        /\ isBlur(Head(run.changes)) => input'.held = {}
        /\ isBlur(Head(run.changes)) \/ orphaned' = orphaned
        /\ run.changes # <<>> /\ orphaned' \in BOOLEAN /\ input'.held \subseteq input.held
    BY <1>1, <1>2, Reported DEF IInv, KeysInv
  <2> QED BY ONLY <2>1, StillReleased
<1>11. v.open = {x.window : x \in {y \in ToSet(states') : y.open}}
  <2>1. now.open = {x.window : x \in {y \in ToSet(states) : y.open}}
    BY <1>2, ReadSoFar
  <2>2. ASSUME NEW u \in now.open PROVE \E x \in ToSet(states') : x.open /\ x.window = u
    <3>1. PICK x \in ToSet(states) : x.open /\ x.window = u
      BY <2>1, <2>2
    <3>2. CASE x.window = w
      BY <1>5, <1>6, <1>7, <3>1, <3>2
    <3>3. CASE x.window # w
      BY <1>6, <3>1, <3>3
    <3> QED BY <3>2, <3>3
  <2>3. ASSUME NEW x \in ToSet(states'), x.open PROVE x.window \in now.open
    <3>1. CASE x = e
      BY <1>5, <1>7, <2>1, <2>3, <3>1
    <3>2. CASE x # e
      BY <1>6, <2>1, <2>3, <3>2
    <3> QED BY <3>1, <3>2
  <2> QED BY <2>2, <2>3
<1>12. /\ DOMAIN input'.pointers = DOMAIN input.pointers /\ motion' \in [Ids -> Int]
       /\ v.inside = {u \in DOMAIN input'.pointers : input'.pointers[u].inside}
       /\ MovesInv(events, motion')
  BY <1>2, ReadSoFar
<1> QED BY <1>6, <1>8, <1>9, <1>10, <1>11, <1>12, FoldHolds

\* The focus is something the reader does not keep.
LEMMA FocusTold ==
  ASSUME NEW r \in Readers, NEW q \in Seq(Events), NEW e \in Events, e.kind = "Focus",
         tellAll(r, q).right, e.window \in tellAll(r, q).open
  PROVE  tellAll(r, Append(q, e)) = tellAll(r, q)
<1>1. PICK y : y = tellAll(r, q)
  OBVIOUS
<1>2. y \in Readers /\ tellAll(r, Append(q, e)) = told(y, e)
  BY <1>1, ToldMore
<1> QED BY <1>1, <1>2, ToldOther

\* The change that says so.
LEMMA FocusChange ==
  ASSUME IInv, NEW events, Fold("Focus", events)
  PROVE  /\ run.phase = "fold" /\ run.changes # <<>> /\ change = Head(run.changes)
         /\ change.kind = "Focus" /\ change \in Changes /\ change \in Events
         /\ change.focused \in BOOLEAN /\ change.window \in DOMAIN os.windows
         /\ change.window \in now.open /\ change.window \in windowsOf(states)
         /\ state(change.window) \in States /\ state(change.window) \in ToSet(states)
         /\ state(change.window).window = change.window
<1>1. /\ run.phase = "fold" /\ run.changes # <<>> /\ change = Head(run.changes)
      /\ change.kind = "Focus"
  BY DEF Fold, change
<1>2. change \in Changes
  BY <1>1, Reported, Tailed
<1>3. change \in Events /\ change.focused \in BOOLEAN
  BY <1>1, <1>2, ChangeKinds
<1>4. /\ change.window \in DOMAIN os.windows
      /\ \E s \in ToSet(states) : s.window = change.window /\ s.open
  <2>1. /\ run.changes \in Seq(Changes) /\ Head(run.changes).kind \notin {"Opened", "Closed"}
        /\ Agree(os.windows, os.focus, run.changes, ToSet(states), ToSet(applied))
    BY <1>1, Reported
  <2> QED BY ONLY <1>1, <2>1, InputOpen
<1>5. change.window \in now.open
  BY <1>1, <1>4, ReadSoFar
<1>6. change.window \in windowsOf(states)
  BY <1>4, WindowsOf
<1> QED BY <1>1, <1>2, <1>3, <1>4, <1>5, <1>6, StateOf

\* The loss of the focus is folded: every key held is released.
LEMMA FoldBlurHolds ==
  ASSUME IInv, FoldBlur
  PROVE  IInv'
<1>1. PICK k, c, w : k = "Focus" /\ c = change /\ w = c.window
  OBVIOUS
<1>2. PICK p : p = [i \in 1..Cardinality(input.held) |->
                      [kind |-> "Key", window |-> w, key |-> SetToSeq(input.held)[i],
                       pressed |-> FALSE]]
  OBVIOUS
<1>3. PICK events : events = Append(run.events \o p, c)
  OBVIOUS
<1>4. /\ Fold(k, events) /\ ~c.focused /\ orphaned' = FALSE
      /\ states' = edited(states, w, [state(w) EXCEPT !.focused = FALSE])
      /\ input' = [input EXCEPT !.held = {}, !.released = @ \cup input.held]
      /\ UNCHANGED <<entries, applied, os, motion>>
  BY <1>1, <1>2, <1>3 DEF FoldBlur
<1>5. /\ run.phase = "fold" /\ run.changes # <<>> /\ c = Head(run.changes)
      /\ c.kind = "Focus" /\ c \in Changes /\ c \in Events /\ w \in Ids
      /\ w \in DOMAIN os.windows /\ w \in now.open /\ w \in windowsOf(states)
      /\ state(w) \in States /\ state(w) \in ToSet(states) /\ state(w).window = w
  BY <1>1, <1>4, FocusChange, EventKinds
<1>6. /\ Cardinality(input.held) \in Nat
      /\ \A i \in 1..Cardinality(input.held) : SetToSeq(input.held)[i] \in input.held
      /\ input.held = {SetToSeq(input.held)[i] : i \in 1..Cardinality(input.held)}
      /\ input.held \subseteq Keys
  BY <1>5, ReadSoFar, AllOfThem DEF InputTypes
<1>7. /\ p \in Seq(Events) /\ DOMAIN p = 1..Cardinality(input.held)
      /\ \A i \in DOMAIN p : /\ p[i].kind = "Key" /\ ~p[i].pressed /\ p[i].window = w
                             /\ p[i].key = SetToSeq(input.held)[i]
  <2>1. ASSUME NEW i \in 1..Cardinality(input.held)
        PROVE  /\ p[i] \in Events /\ p[i].kind = "Key" /\ ~p[i].pressed /\ p[i].window = w
               /\ p[i].key = SetToSeq(input.held)[i]
    <3>1. PICK key : key = SetToSeq(input.held)[i]
      OBVIOUS
    <3>2. key \in Keys /\ p[i] = [kind |-> "Key", window |-> w, key |-> key, pressed |-> FALSE]
      BY <1>2, <1>6, <3>1
    <3>3. p[i] \in Presses
      BY <1>5, <3>2 DEF Presses
    <3> QED BY <3>1, <3>2, <3>3 DEF Events
  <2>2. DOMAIN p = 1..Cardinality(input.held)
    BY <1>2
  <2>3. p = [i \in 1..Cardinality(input.held) |-> p[i]]
    BY <1>2
  <2>4. p \in Seq(Events)
    BY <1>6, <2>1, <2>3
  <2> QED BY <2>1, <2>2, <2>4
<1>8. Releases(p, w, input.held)
  <2>1. \A i \in DOMAIN p : p[i].key \in input.held
    BY <1>6, <1>7
  <2>2. ASSUME NEW x \in input.held PROVE \E i \in DOMAIN p : p[i].key = x
    <3>1. PICK i \in 1..Cardinality(input.held) : x = SetToSeq(input.held)[i]
      BY <1>6
    <3> QED BY <1>7, <3>1
  <2>3. input.held = {p[i].key : i \in DOMAIN p}
    BY <2>1, <2>2
  <2>4. \A i \in DOMAIN p : p[i].kind = "Key" /\ ~p[i].pressed /\ p[i].window = w
    BY <1>7
  <2> QED BY ONLY <2>3, <2>4 DEF Releases
<1>9. PICK y : y = tellAll(now, p)
  OBVIOUS
<1>10. /\ y \in Readers /\ y.right /\ y.open = now.open /\ y.closed = now.closed
       /\ y.inside = now.inside /\ y.pressed = now.pressed
       /\ y.held = now.held \ input.held /\ y.released = now.released \cup input.held
  <2>1. now \in Readers /\ now.right /\ w \in now.open
    BY <1>5, ReadSoFar
  <2>2. p \in Seq(Events)
    BY <1>7
  <2> QED BY ONLY <1>8, <1>9, <2>1, <2>2, ToldReleases
<1>11. run.events \o p \in Seq(Events) /\ tellAll(begun, run.events \o p) = y
  <2>1. run.events \o p \in Seq(Events)
    BY <1>7, Reported, ConcatProperties
  <2>2. tellAll(begun, run.events \o p) = tellAll(tellAll(begun, run.events), p)
    BY <1>5, <1>7, Reported, ReadSoFar, ToldBoth
  <2> QED BY <1>5, <1>9, <2>1, <2>2, ReadSoFar
<1>12. events \in Seq(Events) /\ tellAll(begun, events) = y
  <2>1. events \in Seq(Events)
    BY <1>3, <1>5, <1>11, AppendProperties
  <2>2. begun \in Readers /\ y.right /\ c.window \in y.open
    BY <1>1, <1>5, <1>10, ReadSoFar
  <2> QED BY <1>3, <1>5, <1>11, <2>1, <2>2, FocusTold
<1>13. MovesInv(events, motion)
  <2>1. MovesInv(run.events \o p, motion)
    <3>1. MovesInv(run.events, motion) /\ \A i \in DOMAIN p : p[i].kind # "Move"
      BY <1>7 DEF IInv
    <3> QED BY <1>7, <3>1, Reported, MovesStayAll
  <2>2. c.kind # "Move"
    BY <1>5
  <2> QED BY <1>3, <1>5, <1>11, <2>1, <2>2, MovesStay
<1>14. PICK s, e : s = state(w) /\ e = [s EXCEPT !.focused = FALSE]
  OBVIOUS
<1>15. e \in States /\ e.window = w /\ e.open = s.open /\ e.focused = FALSE /\ e.mode = s.mode
  BY <1>5, <1>14 DEF States
<1>16. c.focused = FALSE
  BY <1>1, <1>4, FocusChange
<1>17. PICK R \in SUBSET Keys : R = input.released \cup input.held
  BY <1>5, ReadSoFar DEF InputTypes
<1>18. /\ input' \in InputTypes /\ input'.pointers = input.pointers /\ input'.held = {}
       /\ input'.pressed = input.pressed /\ input'.released = R
  <2>1. input' = [input EXCEPT !.held = {}, !.released = R]
    BY <1>4, <1>17
  <2> QED BY <1>5, <2>1, ReadSoFar DEF InputTypes
<1>19. NowShown(os.windows, os.windows, os.focus, c, ToSet(applied))
  BY <1>4 DEF NowShown
<1>20. ModeInv(e, os.windows)
  <2>1. ModeInv(s, os.windows)
    BY <1>5, <1>14 DEF IInv, WindowsInv
  <2> QED BY <1>5, <1>14, <1>15, <2>1 DEF ModeInv
<1>21. y.held = {} /\ y.pressed = input'.pressed /\ y.released = R
  BY <1>5, <1>10, <1>17, <1>18, ReadSoFar
<1>22. /\ k = "Focus" /\ Fold(k, events) /\ UNCHANGED <<entries, applied, motion>>
       /\ e \in States /\ e.window = change.window /\ e.open = state(change.window).open
       /\ e.focused = change.focused /\ states' = edited(states, change.window, e)
  BY <1>1, <1>4, <1>14, <1>15, <1>16
<1>23. /\ os' \in OSTypes /\ os'.focus = os.focus /\ os'.windows = os.windows
       /\ NowShown(os.windows, os'.windows, os.focus, change, ToSet(applied))
       /\ ModeInv(e, os'.windows)
       /\ \A u \in DOMAIN os.windows \ {change.window} : os'.windows[u] = os.windows[u]
  BY <1>1, <1>4, <1>19, <1>20, Reported
<1>24. /\ IsFiniteSet(input'.held) /\ isBlur(change) /\ input'.held \subseteq input.held
       /\ input'.held = {} /\ orphaned' \in BOOLEAN
  BY <1>1, <1>4, <1>5, <1>18, FS_EmptySet DEF isBlur
<1>25. /\ y = tellAll(begun, events) /\ y.right /\ y.closed = now.closed /\ y.open = now.open
       /\ y.inside = now.inside
       /\ y.held = input'.held /\ y.pressed = input'.pressed /\ y.released = input'.released
  BY <1>10, <1>12, <1>18, <1>21
<1>26. events \in Seq(Events)
  BY <1>12
<1> QED BY <1>13, <1>18, <1>22, <1>23, <1>24, <1>25, <1>26, FocusingHolds

\* What setting the cursor of a window leaves of it.
LEMMA Cursored ==
  ASSUME NEW shown \in Shown, NEW focus, NEW w, NEW mode, NEW m \in Modes,
         NEW x, x = cursored(shown, focus, w, mode, m)
  PROVE  /\ x \in Shown /\ x.entry = shown.entry /\ x.changed = shown.changed
         /\ x.effective = m /\ x.granted = (focus # w \/ m = mode)
<1>1. PICK g \in BOOLEAN : g = (focus # w \/ m = mode)
  OBVIOUS
<1>2. x = [shown EXCEPT !.effective = m, !.granted = g]
  BY <1>1 DEF cursored
<1>3. x \in Shown /\ x.entry = shown.entry /\ x.changed = shown.changed
      /\ x.effective = m /\ x.granted = g
  BY <1>2 DEF Shown
<1> QED BY <1>1, <1>3

\* The focus gained is folded, and the cursor's mode applied again.
LEMMA FoldFocusHolds ==
  ASSUME IInv, FoldFocus
  PROVE  IInv'
<1>1. PICK k, c, w : k = "Focus" /\ c = change /\ w = c.window
  OBVIOUS
<1>2. PICK events : events = published
  OBVIOUS
<1>3. Fold(k, events) /\ c.focused /\ UNCHANGED <<entries, applied, input, motion, orphaned>>
  BY <1>1, <1>2 DEF FoldFocus
<1>4. /\ run.phase = "fold" /\ run.changes # <<>> /\ c = Head(run.changes)
      /\ c.kind = "Focus" /\ c \in Changes /\ c \in Events /\ w \in Ids /\ c.focused = TRUE
      /\ w \in DOMAIN os.windows /\ w \in now.open /\ w \in windowsOf(states)
      /\ state(w) \in States /\ state(w) \in ToSet(states) /\ state(w).window = w
  BY <1>1, <1>3, FocusChange, EventKinds
<1>5. PICK a, s : a = applied[find(applied, w)] /\ s = state(w)
  OBVIOUS
<1>6. a \in ToSet(applied) /\ a.window = w /\ a.mode \in Modes /\ w \in windowsOf(applied)
  <2>1. w \in windowsOf(applied) /\ applied \in Seq(Applied)
    BY <1>4 DEF IInv, ListsInv, TypeInv
  <2>2. a \in ToSet(applied) /\ a.window = w
    BY <1>5, <2>1, Found
  <2>3. \A i \in DOMAIN applied : applied[i] \in Applied
    BY <2>1, ElementOfSeq, LenProperties
  <2>4. a \in Applied
    BY <2>2, <2>3 DEF ToSet
  <2> QED BY <2>1, <2>2, <2>4 DEF Applied
<1>7. /\ os.windows \in [DOMAIN os.windows -> Shown] /\ DOMAIN os.windows \in SUBSET Ids
      /\ os.windows[w] \in Shown
  BY <1>4, Reported, Partials
<1>8. /\ os.focus # w => os.windows[w].effective = "Normal"
      /\ s.mode = os.windows[w].effective
  <2>1. ShownInv(os.windows, os.focus, run.changes, ToSet(applied))
    BY Reported DEF Agree
  <2>2. ModeInv(s, os.windows)
    BY <1>4, <1>5 DEF IInv, WindowsInv
  <2>3. s.mode = os.windows[w].effective
    BY <1>4, <1>5, <2>2 DEF ModeInv
  <2> QED BY <1>4, <2>1, <2>3 DEF ShownInv
<1> DEFINE again == s.mode # a.mode
<1>9. PICK m \in Modes :
        /\ os.focus # w => m = "Normal"
        /\ again => os' = [os EXCEPT !.windows[w] = cursored(@, os.focus, w, a.mode, m)]
        /\ ~again => os' = os
  <2>1. CASE again
    <3>0. /\ change.window = w /\ lastApplied(change.window) = a /\ state(change.window) = s
          /\ isKnown(change.window)
      BY <1>1, <1>4, <1>5 DEF isKnown, lastApplied
    <3>1. PICK m \in inForce(os.focus, w, os.windows[w].effective, a.mode) :
            os' = [os EXCEPT !.windows[w] = cursored(@, os.focus, w, a.mode, m)]
      <4>1. \E m \in inForce(os.focus, change.window, os.windows[change.window].effective,
                            lastApplied(change.window).mode) :
              os' = [os EXCEPT !.windows[change.window] =
                       cursored(@, os.focus, change.window, lastApplied(change.window).mode, m)]
        BY <1>4, <1>6, <2>1, <3>0 DEF FoldFocus
      <4> QED BY <3>0, <4>1
    <3>2. os.windows[w].effective \in Modes /\ "Normal" \in Modes
      BY <1>7 DEF Shown, Modes
    <3>3. m \in Modes /\ (os.focus # w => m = "Normal")
      BY <1>6, <1>8, <3>2 DEF inForce
    <3> QED BY <2>1, <3>1, <3>3
  <2>2. CASE ~again
    <3>1. os' = os
      BY <1>1, <1>4, <1>5, <1>6, <2>2 DEF FoldFocus, isKnown, lastApplied
    <3> QED BY <2>2, <3>1 DEF Modes
  <2> QED BY <2>1, <2>2
<1>10. PICK x, p : /\ x = cursored(os.windows[w], os.focus, w, a.mode, m)
                   /\ p = IF again THEN [os.windows EXCEPT ![w] = x] ELSE os.windows
  OBVIOUS
<1>11. /\ x \in Shown /\ x.entry = os.windows[w].entry /\ x.changed = os.windows[w].changed
       /\ x.effective = m /\ x.granted = (os.focus # w \/ m = a.mode)
  BY <1>7, <1>10, Cursored
<1>12. /\ p \in [DOMAIN os.windows -> Shown] /\ p \in Partial(Shown) /\ DOMAIN p = DOMAIN os.windows
       /\ \A u \in DOMAIN os.windows : u # w => p[u] = os.windows[u]
       /\ p[w] = IF again THEN x ELSE os.windows[w]
  <2>1. p \in [DOMAIN os.windows -> Shown]
    BY <1>7, <1>10, <1>11
  <2> QED BY <1>4, <1>7, <1>10, <2>1, Partials
<1>13. os' \in OSTypes /\ os'.windows = p /\ os'.focus = os.focus
  <2>1. CASE again
    <3>1. os' = [os EXCEPT !.windows = p]
      BY <1>4, <1>9, <1>10, <2>1, Reported DEF OSTypes
    <3> QED BY <1>12, <3>1, Reported DEF OSTypes
  <2>2. CASE ~again
    BY <1>9, <1>10, <2>2, Reported
  <2> QED BY <2>1, <2>2
<1>14. /\ p[w].entry = os.windows[w].entry /\ p[w].changed = os.windows[w].changed
       /\ os.focus = w /\ p[w].granted => p[w].effective = a.mode
       /\ os.focus # w => p[w].effective = "Normal"
       /\ p[w].effective \in Modes
  <2>1. CASE again
    <3>1. p[w] = x
      BY <1>12, <2>1
    <3> QED BY <1>9, <1>11, <3>1
  <2>2. CASE ~again
    <3>1. p[w] = os.windows[w] /\ os.windows[w].effective = a.mode
      BY <1>8, <1>12, <2>2
    <3> QED BY <1>6, <1>8, <3>1
  <2> QED BY <2>1, <2>2
<1>15. NowShown(os.windows, os'.windows, os.focus, c, ToSet(applied))
  <2>1. \A b \in ToSet(applied) : b.window = w => b = a
    <3>1. applied \in Seq(Applied) /\ Sorted(applied)
      BY DEF IInv, TypeInv, ListsInv
    <3> QED BY <1>6, <3>1, Numbers, Once
  <2> QED BY <1>1, <1>3, <1>12, <1>13, <1>14, <2>1 DEF NowShown
<1>16. PICK n, e : /\ n = p[w].effective
                   /\ e = [s EXCEPT !.focused = TRUE, !.mode = n]
  OBVIOUS
<1>17. /\ e \in States /\ e.window = w /\ e.open = s.open /\ e.focused = TRUE /\ e.mode = n
  BY <1>4, <1>5, <1>14, <1>16 DEF States
<1>18. states' = edited(states, w, e)
  <2>1. CASE again
    <3>1. states' = edited(states, w, [s EXCEPT !.focused = TRUE,
                                                !.mode = os'.windows[w].effective])
      BY <1>1, <1>4, <1>5, <1>6, <2>1 DEF FoldFocus, isKnown, lastApplied
    <3> QED BY <1>13, <1>16, <3>1
  <2>2. CASE ~again
    <3>1. n = s.mode
      BY <1>8, <1>12, <1>16, <2>2
    <3>2. states' = edited(states, w, [s EXCEPT !.focused = TRUE, !.mode = s.mode])
      BY <1>1, <1>4, <1>5, <1>6, <2>2 DEF FoldFocus, isKnown, lastApplied
    <3> QED BY <1>16, <3>1, <3>2
  <2> QED BY <2>1, <2>2
<1>19. ModeInv(e, os'.windows)
  BY <1>4, <1>12, <1>13, <1>16, <1>17 DEF ModeInv
<1>20. events \in Seq(Events) /\ events = Append(run.events, c)
  BY <1>1, <1>2, <1>4, Reported, AppendProperties DEF published
<1>21. tellAll(begun, events) = now
  <2>1. /\ begun \in Readers /\ run.events \in Seq(Events) /\ now = tellAll(begun, run.events)
        /\ now.right /\ c.window \in now.open
    BY <1>1, <1>4, Reported, ReadSoFar
  <2> QED BY <1>4, <1>20, <2>1, FocusTold
<1>22. MovesInv(events, motion)
  <2>1. MovesInv(run.events, motion) /\ c.kind # "Move"
    BY <1>4 DEF IInv
  <2> QED BY <1>4, <1>20, <2>1, Reported, MovesStay
<1>23. /\ Fold(k, events) /\ k = "Focus" /\ UNCHANGED <<entries, applied, motion>>
       /\ e.window = change.window /\ e.open = state(change.window).open
       /\ e.focused = change.focused /\ states' = edited(states, change.window, e)
       /\ NowShown(os.windows, os'.windows, os.focus, change, ToSet(applied))
       /\ \A u \in DOMAIN os.windows \ {change.window} : os'.windows[u] = os.windows[u]
  BY <1>1, <1>3, <1>4, <1>5, <1>12, <1>13, <1>15, <1>17, <1>18
<1>24. /\ input' = input /\ input \in InputTypes /\ IsFiniteSet(input.held) /\ ~isBlur(change)
       /\ orphaned' \in BOOLEAN /\ orphaned' = orphaned
       /\ now.right /\ now.held = input.held /\ now.pressed = input.pressed
       /\ now.released = input.released
  BY <1>1, <1>3, <1>4, Reported, ReadSoFar DEF isBlur
<1>25. /\ input' \in InputTypes /\ input'.pointers = input.pointers /\ IsFiniteSet(input'.held)
       /\ input'.held \subseteq input.held
       /\ now.held = input'.held /\ now.pressed = input'.pressed /\ now.released = input'.released
  BY <1>24
<1> QED BY <1>13, <1>17, <1>19, <1>20, <1>21, <1>22, <1>23, <1>24, <1>25, FocusingHolds

\* A window that closed by itself leaves all four lists.
LEMMA FoldClosedHolds ==
  ASSUME IInv, FoldClosed
  PROVE  IInv'
<1>1. PICK k, c, w : k = "Closed" /\ c = change /\ w = c.window
  OBVIOUS
<1>2. run.phase = "fold" /\ run.changes # <<>> /\ c = Head(run.changes) /\ c.kind = k
  BY <1>1 DEF FoldClosed, Fold, change
<1>3. c \in Changes /\ c = run.changes[1] /\ 1 \in DOMAIN run.changes
  BY <1>2, Reported, Tailed
<1>4. c \in Events /\ w \in Ids /\ published = Append(run.events, c)
  BY <1>1, <1>2, <1>3, ChangeKinds DEF published
<1>5. PICK events : events = published
  OBVIOUS
<1>6. events \in Seq(Events)
  BY <1>4, <1>5, Reported, AppendProperties
<1>7. /\ Fold(k, events) /\ os' = os /\ motion' = motion /\ orphaned' = orphaned
      /\ states' = without(states, {w}) /\ entries' = without(entries, {w})
      /\ applied' = without(applied, {w})
      /\ input' = [input EXCEPT !.pointers = Restrict(@, DOMAIN @ \ {w})]
  BY <1>1, <1>5 DEF FoldClosed
<1>8. /\ lastID' = lastID /\ reader' = reader
      /\ run'.phase = "fold" /\ run'.changes = Tail(run.changes) /\ run'.events = events
      /\ run' \in RunTypes /\ now' = tellAll(begun, events)
  BY <1>6, <1>7, Folding
<1>9. /\ states' \in Seq(States) /\ Sorted(states') /\ windowsOf(states') = windowsOf(states) \ {w}
      /\ ToSet(states') = {x \in ToSet(states) : x.window \notin {w}}
  BY <1>7, Numbers, Without DEF IInv, TypeInv, ListsInv
<1>10. /\ entries' \in Seq(Entries) /\ Sorted(entries')
       /\ windowsOf(entries') = windowsOf(entries) \ {w}
  BY <1>7, Numbers, Without DEF IInv, TypeInv, ListsInv
<1>11. /\ applied' \in Seq(Applied) /\ Sorted(applied')
       /\ windowsOf(applied') = windowsOf(applied) \ {w}
       /\ ToSet(applied') = {x \in ToSet(applied) : x.window \notin {w}}
  BY <1>7, Numbers, Without DEF IInv, TypeInv, ListsInv
<1>12. w \in windowsOf(applied)
  <2>1. w \in known(ToSet(states))
    BY <1>1, <1>3, Reported DEF Agree, ChangesInv
  <2> QED BY <2>1, KnownOf DEF IInv, ListsInv
<1>13. PICK p : p = Restrict(input.pointers, DOMAIN input.pointers \ {w})
  OBVIOUS
<1>14. /\ p \in Partial(Pointers) /\ DOMAIN p = DOMAIN input.pointers \ {w}
       /\ \A u \in DOMAIN p : p[u] = input.pointers[u]
  <2>1. p \in [DOMAIN input.pointers \ {w} -> Pointers] /\ DOMAIN input.pointers \in SUBSET Ids
    BY <1>2, <1>13, ReadSoFar DEF Restrict
  <2> QED BY <1>13, <2>1, Partials DEF Restrict
<1>15. /\ input' \in InputTypes /\ input'.pointers = p /\ input'.held = input.held
       /\ input'.pressed = input.pressed /\ input'.released = input.released
  <2>1. input' = [input EXCEPT !.pointers = p]
    BY <1>7, <1>13
  <2> QED BY <1>2, <1>14, <2>1, ReadSoFar DEF InputTypes
<1>16. TypeInv'
  BY <1>2, <1>7, <1>8, <1>9, <1>10, <1>11, <1>15 DEF IInv, TypeInv
<1>17. ListsInv'
  BY <1>2, <1>8, <1>9, <1>10, <1>11, <1>14, <1>15 DEF IInv, ListsInv
<1>18. WindowsInv'
  <2>1. PICK N, B : N = ToSet(states') /\ B = ToSet(applied')
    OBVIOUS
  <2>2. /\ os.windows \in Partial(Shown) /\ run.changes \in Seq(Changes)
        /\ ToSet(states) \in SUBSET States /\ run.changes # <<>> /\ c = Head(run.changes)
        /\ Agree(os.windows, os.focus, run.changes, ToSet(states), ToSet(applied))
        /\ c.kind = "Closed" /\ B \in SUBSET ToSet(applied)
    BY <1>1, <1>2, <1>11, <2>1, Reported
  <2>3. N = {s \in ToSet(states) : s.window # c.window}
    BY <1>1, <1>9, <2>1
  <2>4. Agree(os.windows, os.focus, Tail(run.changes), N, B)
    <3>1. NoLonger(ToSet(states), N, c.window)
      BY <2>3 DEF NoLonger
    <3> QED BY ONLY <2>2, <3>1, AgreeClosed
  <2>5. \A s \in N : ModeInv(s, os.windows)
    BY <1>2, <2>3 DEF IInv, WindowsInv
  <2> QED BY <1>7, <1>8, <2>1, <2>4, <2>5 DEF WindowsInv
<1>19. KeysInv'
  <2>1. /\ run.changes \in Seq(Changes) /\ orphaned \in BOOLEAN /\ ~isBlur(Head(run.changes))
        /\ os.focus = NoWindow => ReleasesToFold(run.changes, input.held, orphaned)
    BY <1>1, <1>2, Reported DEF IInv, KeysInv, isBlur
  <2>2. os.focus = NoWindow => ReleasesToFold(Tail(run.changes), input.held, orphaned)
    BY ONLY <1>2, <2>1, StillReleased
  <2> QED BY <1>7, <1>8, <1>15, <2>2 DEF KeysInv
<1>20. ReaderInv'
  <2>1. PICK v : v = tellAll(begun, events)
    OBVIOUS
  <2>2. v = told(now, c)
    BY <1>2, <1>4, <1>5, <2>1, Reported, ReadSoFar, ToldMore
  <2>3. w \notin now.closed
    BY <1>2, <1>12, ReadSoFar
  <2>4. /\ v.right /\ v.open = now.open \ {w} /\ v.closed = now.closed \cup {w}
        /\ v.inside = now.inside \ {w}
        /\ v.held = now.held /\ v.pressed = now.pressed /\ v.released = now.released
    <3>1. now \in Readers /\ now.right /\ c.kind = "Closed" /\ c.window = w
      BY <1>1, <1>2, ReadSoFar
    <3> QED BY ONLY <1>4, <2>2, <2>3, <3>1, ToldClosed DEF SameKeys
  <2>5. v.open = {x.window : x \in {y \in ToSet(states') : y.open}}
    BY <1>2, <1>9, <2>4, ReadSoFar
  <2>6. v.inside = {u \in DOMAIN p : p[u].inside}
    BY <1>2, <1>14, <2>4, ReadSoFar
  <2>7. v.closed \subseteq 1..lastID
    BY <1>12, <2>4 DEF IInv, ListsInv, ReaderInv
  <2>8. v.closed \cap (windowsOf(entries') \cup windowsOf(applied')) = {}
    BY <1>2, <1>10, <1>11, <2>4, ReadSoFar
  <2>9. reader.right /\ IsFiniteSet(input.held)
    BY DEF IInv, ReaderInv
  <2> QED BY <1>2, <1>8, <1>15, <2>1, <2>4, <2>5, <2>6, <2>7, <2>8, <2>9, ReadSoFar DEF ReaderInv
<1>21. MovesInv(run.events, motion)'
  <2>1. MovesInv(run.events, motion) /\ c.kind # "Move"
    BY <1>1, <1>2 DEF IInv
  <2>2. MovesInv(events, motion)
    BY <1>4, <1>5, <2>1, Reported, MovesStay
  <2> QED BY <1>7, <1>8, <2>2
<1> QED BY <1>16, <1>17, <1>18, <1>19, <1>20, <1>21 DEF IInv

-----------------------------------------------------------------------------
(* The events are published *)

\* The reader has made of the events what it will be told.
LEMMA PublishHolds ==
  ASSUME IInv, Publish
  PROVE  IInv'
<1>1. /\ lastID' = lastID /\ entries' = entries /\ states' = states /\ applied' = applied
      /\ input' = input /\ os' = os /\ orphaned' = orphaned
      /\ run.phase = "fold" /\ run.changes = <<>>
  BY DEF Publish, manager
<1>2. reader' = now
  BY DEF Publish, now, tellAll, begun
<1>3. run'.phase = "idle" /\ run'.changes = <<>> /\ run'.events = <<>> /\ run' \in RunTypes
  <2>1. <<>> \in Seq(Changes) /\ <<>> \in Seq(Events)
    BY EmptySeq
  <2> QED BY <2>1 DEF Publish, RunTypes
<1>4. motion' \in [Ids -> Int] /\ \A w \in Ids : motion'[w] = 0
  BY DEF Publish
<1>5. now \in Readers
  BY <1>1, ReadSoFar
<1>6. TypeInv'
  BY <1>1, <1>2, <1>3, <1>4, <1>5 DEF IInv, TypeInv
<1>7. ListsInv'
  BY <1>1, <1>3 DEF IInv, ListsInv
<1>8. WindowsInv'
  BY <1>1, <1>3 DEF IInv, WindowsInv
<1>9. KeysInv'
  BY <1>1, <1>3 DEF IInv, KeysInv
<1>10. ReaderInv'
  <2>1. PICK b : b = begun'
    OBVIOUS
  <2>2. b = [now EXCEPT !.pressed = {}, !.released = {}]
    BY <1>2, <2>1 DEF begun
  <2>3. /\ b \in Readers /\ b.right = now.right /\ b.held = now.held
        /\ b.open = now.open /\ b.closed = now.closed /\ b.inside = now.inside
    BY <1>5, <2>2 DEF Readers
  <2>4. now' = b
    <3>1. now' = tellAll(b, <<>>)
      BY <1>3, <2>1 DEF now
    <3> QED BY <2>3, <3>1, ToldNothing
  <2> QED BY <1>1, <1>2, <1>3, <2>3, <2>4 DEF IInv, ReaderInv
<1>11. MovesInv(run.events, motion)'
  <2>1. MovesInv(<<>>, motion')
    BY <1>4 DEF MovesInv
  <2> QED BY <1>3, <2>1
<1> QED BY <1>6, <1>7, <1>8, <1>9, <1>10, <1>11 DEF IInv

-----------------------------------------------------------------------------
(* The request is applied *)

\* The windows of p all come before those of q.
Before(p, q) == \A v \in windowsOf(p), w \in windowsOf(q) : v < w

\* u is p followed by q.
Joins(u, p, q) == u = p \o q

\* Two lists in order, the second after the first.
LEMMA Joined ==
  ASSUME NEW X, NEW p \in Seq(X), NEW q \in Seq(X), Sorted(p), Sorted(q), Before(p, q),
         NEW u, Joins(u, p, q)
  PROVE  /\ u \in Seq(X) /\ windowsOf(u) = windowsOf(p) \cup windowsOf(q)
         /\ ToSet(u) = ToSet(p) \cup ToSet(q) /\ Sorted(u)
<1>1. PICK m, n : m = Len(p) /\ n = Len(q)
  OBVIOUS
<1>2. /\ m \in Nat /\ n \in Nat /\ DOMAIN p = 1..m /\ DOMAIN q = 1..n
      /\ u \in Seq(X) /\ Len(u) = m + n
      /\ \A i \in 1..m + n : u[i] = IF i <= m THEN p[i] ELSE q[i - m]
  BY <1>1, ConcatProperties, LenProperties DEF Joins
<1>3. DOMAIN u = 1..m + n
  BY <1>2, LenProperties
<1>4. \A i \in DOMAIN p : i \in DOMAIN u /\ u[i] = p[i]
  BY <1>2, <1>3
<1>5. ASSUME NEW i \in DOMAIN q PROVE i + m \in DOMAIN u /\ u[i + m] = q[i]
  <2>1. i + m \in DOMAIN u /\ ~(i + m <= m) /\ (i + m) - m = i
    BY <1>2, <1>3
  <2> QED BY <1>2, <1>3, <2>1
<1>6. ASSUME NEW i \in DOMAIN u, i \notin DOMAIN p
      PROVE  i \in Nat /\ i - m \in DOMAIN q /\ u[i] = q[i - m]
  BY <1>2, <1>3, <1>6
<1>7. ToSet(u) = ToSet(p) \cup ToSet(q)
  <2>1. ToSet(p) \subseteq ToSet(u)
    BY <1>4 DEF ToSet
  <2>2. ToSet(q) \subseteq ToSet(u)
    BY <1>5 DEF ToSet
  <2>3. ASSUME NEW i \in DOMAIN u PROVE u[i] \in ToSet(p) \cup ToSet(q)
    BY <1>4, <1>6 DEF ToSet
  <2>4. ToSet(u) \subseteq ToSet(p) \cup ToSet(q)
    BY <2>3 DEF ToSet
  <2> QED BY <2>1, <2>2, <2>4
<1>8. windowsOf(u) = windowsOf(p) \cup windowsOf(q)
  BY <1>7, WindowsOf
<1>9. ASSUME NEW i \in DOMAIN u, NEW j \in DOMAIN u, i < j
      PROVE  u[i].window < u[j].window
  <2>1. CASE j \in DOMAIN p
    <3>1. i \in DOMAIN p
      BY <1>2, <1>3, <1>9, <2>1
    <3> QED BY <1>4, <1>9, <2>1, <3>1 DEF Sorted
  <2>2. CASE j \notin DOMAIN p /\ i \in DOMAIN p
    <3>1. u[i].window \in windowsOf(p) /\ u[j].window \in windowsOf(q)
      BY <1>4, <1>6, <2>2 DEF windowsOf
    <3> QED BY <1>9, <3>1 DEF Before
  <2>3. CASE j \notin DOMAIN p /\ i \notin DOMAIN p
    <3>1. i - m \in DOMAIN q /\ j - m \in DOMAIN q /\ u[i] = q[i - m] /\ u[j] = q[j - m]
      BY <1>6, <2>3
    <3>2. i - m < j - m
      BY <1>2, <1>3, <1>9
    <3> QED BY <1>9, <3>1, <3>2 DEF Sorted
  <2> QED BY <2>1, <2>2, <2>3
<1>10. Sorted(u)
  BY <1>9 DEF Sorted
<1> QED BY <1>2, <1>7, <1>8, <1>10

\* u has at each place something of the window that q has there.
Renames(u, q) == DOMAIN u = DOMAIN q /\ \A i \in DOMAIN q : u[i].window = q[i].window

\* Another list of the same windows.
LEMMA Renamed ==
  ASSUME NEW X, NEW q \in Seq(X), NEW Y, NEW u, Renames(u, q),
         u = [i \in DOMAIN q |-> u[i]], \A i \in DOMAIN q : u[i] \in Y
  PROVE  /\ u \in Seq(Y) /\ windowsOf(u) = windowsOf(q) /\ DOMAIN u = DOMAIN q
         /\ Sorted(q) => Sorted(u)
<1>1. DOMAIN q = 1..Len(q) /\ Len(q) \in Nat
  BY LenProperties
<1>2. u \in Seq(Y)
  <2>1. u = [i \in 1..Len(q) |-> u[i]] /\ \A i \in 1..Len(q) : u[i] \in Y
    BY <1>1
  <2> QED BY <1>1, <2>1, IsASeq
<1>3. windowsOf(u) = windowsOf(q)
  BY DEF Renames, windowsOf
<1>4. Sorted(q) => Sorted(u)
  BY DEF Renames, Sorted
<1> QED BY <1>2, <1>3, <1>4 DEF Renames

\* Each window of a list is said to open, or to close.
LEMMA Announced ==
  ASSUME NEW X, \A x \in X : x.window \in Nat /\ x.window \in Ids, NEW q \in Seq(X), Sorted(q),
         NEW k \in {"Opened", "Closed"},
         NEW u, u = [i \in DOMAIN q |-> [kind |-> k, window |-> q[i].window]]
  PROVE  /\ u \in Seq(Changes) /\ u \in Seq(Events) /\ windowsOf(u) = windowsOf(q)
         /\ \A i \in DOMAIN u : u[i].kind = k /\ u[i].window \in windowsOf(q)
         /\ \A i, j \in DOMAIN u : u[i].window = u[j].window => i = j
         /\ \A w \in windowsOf(q) : \E i \in DOMAIN u : u[i].window = w
<1>1. /\ DOMAIN u = DOMAIN q /\ \A i \in DOMAIN q : q[i] \in X
      /\ \A i \in DOMAIN q : u[i] = [kind |-> k, window |-> q[i].window]
  BY ElementOfSeq, LenProperties
<1>2. \A i \in DOMAIN q : u[i].kind = k /\ u[i].window = q[i].window /\ u[i] \in Lifes
  BY <1>1 DEF Lifes
<1>3. \A x \in Lifes : x \in Changes /\ x \in Events
  BY DEF Changes, Events
<1>4. Renames(u, q) /\ u = [i \in DOMAIN q |-> u[i]]
  BY <1>1, <1>2 DEF Renames
<1>5. \A i \in DOMAIN q : u[i] \in Changes
  BY <1>2, <1>3
<1>6. \A i \in DOMAIN q : u[i] \in Events
  BY <1>2, <1>3
<1>7. u \in Seq(Changes) /\ windowsOf(u) = windowsOf(q)
  BY ONLY <1>4, <1>5, q \in Seq(X), Renamed
<1>8. u \in Seq(Events)
  BY ONLY <1>4, <1>6, q \in Seq(X), Renamed
<1>9. \A i, j \in DOMAIN q : q[i].window = q[j].window => i = j
  BY Once
<1> QED BY <1>1, <1>2, <1>7, <1>8, <1>9 DEF windowsOf

\* What there is between runs, when the request is applied.
LEMMA Applying ==
  ASSUME IInv, run.phase = "idle"
  PROVE  /\ TypeInv /\ run.changes = <<>> /\ run.events = <<>>
         /\ entries \in Seq(Entries) /\ Sorted(entries) /\ windowsOf(entries) \in SUBSET Ids
         /\ applied \in Seq(Applied) /\ Sorted(applied) /\ windowsOf(applied) \in SUBSET Ids
         /\ states \in Seq(States) /\ Sorted(states) /\ windowsOf(states) = windowsOf(applied)
         /\ opening \in Seq(Entries) /\ Sorted(opening) /\ windowsOf(opening) = new
         /\ \A v \in windowsOf(applied), w \in new : v < w
         /\ input.pointers \in [windowsOf(applied) -> Pointers] /\ input \in InputTypes
<1>1. /\ TypeInv /\ run.changes = <<>> /\ run.events = <<>> /\ entries \in Seq(Entries)
      /\ Sorted(entries) /\ applied \in Seq(Applied) /\ Sorted(applied) /\ states \in Seq(States)
      /\ Sorted(states) /\ windowsOf(states) = windowsOf(applied) /\ input \in InputTypes
      /\ DOMAIN input.pointers = windowsOf(applied)
  BY DEF IInv, TypeInv, ListsInv, WindowsInv
<1>2. windowsOf(entries) \in SUBSET Ids /\ windowsOf(applied) \in SUBSET Ids
  <2>1. /\ \A i \in DOMAIN entries : entries[i] \in Entries
        /\ \A i \in DOMAIN applied : applied[i] \in Applied
    BY <1>1, ElementOfSeq, LenProperties
  <2> QED BY <2>1, Numbers DEF windowsOf
<1>3. opening \in Seq(Entries) /\ Sorted(opening) /\ windowsOf(opening) = new
  BY <1>1, Numbers, Without DEF opening, new
<1>4. \A v \in windowsOf(applied), w \in new : v < w
  BY DEF IInv, ListsInv, new
<1>5. input.pointers \in [windowsOf(applied) -> Pointers]
  BY <1>1, Partials DEF InputTypes
<1> QED BY <1>1, <1>2, <1>3, <1>4, <1>5

\* The windows are applied as they are asked for.
LEMMA AppliedAs ==
  ASSUME IInv, run.phase = "idle", NEW all, all = without(applied, gone) \o opening,
         NEW B, B = [i \in DOMAIN all |-> as(all[i].window)]
  PROVE  /\ B \in Seq(Applied) /\ Sorted(B) /\ windowsOf(B) = windowsOf(entries)
         /\ \A a \in ToSet(B) : /\ a.window \in windowsOf(entries)
                                /\ a.entry = requested(a.window).entry
                                /\ a.mode = requested(a.window).mode
<1>0. PICK X : X = Applied \cup Entries
  OBVIOUS
<1>1. PICK p : p = without(applied, gone)
  OBVIOUS
<1>2. p \in Seq(Applied) /\ Sorted(p) /\ windowsOf(p) = windowsOf(applied) \ gone
  <2>1. /\ applied \in Seq(Applied) /\ Sorted(applied) /\ \A x \in Applied : x.window \in Nat
    BY Applying, Numbers
  <2> QED BY ONLY <1>1, <2>1, Without
<1>3. p \in Seq(X) /\ opening \in Seq(X)
  <2>1. /\ p = [i \in 1..Len(p) |-> p[i]] /\ Len(p) \in Nat /\ \A i \in 1..Len(p) : p[i] \in X
    BY <1>0, <1>2, LenProperties, ElementOfSeq
  <2>2. /\ opening = [i \in 1..Len(opening) |-> opening[i]] /\ Len(opening) \in Nat
        /\ \A i \in 1..Len(opening) : opening[i] \in X
    BY <1>0, Applying, LenProperties, ElementOfSeq
  <2>3. p \in Seq(X)
    BY ONLY <2>1, IsASeq
  <2>4. opening \in Seq(X)
    BY ONLY <2>2, IsASeq
  <2> QED BY <2>3, <2>4
<1>4. Before(p, opening)
  BY <1>2, Applying DEF Before
<1>5. /\ all \in Seq(X) /\ Sorted(all)
      /\ windowsOf(all) = windowsOf(p) \cup windowsOf(opening)
  <2>1. Joins(all, p, opening) /\ Sorted(opening)
    BY <1>1, Applying DEF Joins
  <2> QED BY ONLY <1>2, <1>3, <1>4, <2>1, Joined
<1>6. windowsOf(all) = windowsOf(entries)
  BY <1>2, <1>5, Applying DEF gone, new
<1>7. ASSUME NEW w \in windowsOf(entries)
      PROVE  /\ as(w) \in Applied /\ as(w).window = w /\ as(w).entry = requested(w).entry
             /\ as(w).mode = requested(w).mode
  <2>1. requested(w) \in Entries /\ w \in Ids
    BY Applying, Requested
  <2> QED BY <2>1 DEF as, Applied, Entries
<1>8. \A i \in DOMAIN all : all[i].window \in windowsOf(entries)
  BY <1>6 DEF windowsOf
<1>9. DOMAIN B = DOMAIN all /\ \A i \in DOMAIN all : B[i] = as(all[i].window)
  OBVIOUS
<1>10. \A i \in DOMAIN all : B[i] \in Applied /\ B[i].window = all[i].window
  BY <1>7, <1>8, <1>9
<1>11. Renames(B, all) /\ B = [i \in DOMAIN all |-> B[i]]
  BY <1>9, <1>10 DEF Renames
<1>12. B \in Seq(Applied) /\ Sorted(B) /\ windowsOf(B) = windowsOf(all)
  BY ONLY <1>5, <1>10, <1>11, Renamed
<1>13. ASSUME NEW a \in ToSet(B)
       PROVE  /\ a.window \in windowsOf(entries)
              /\ a.entry = requested(a.window).entry /\ a.mode = requested(a.window).mode
  <2>1. PICK i \in DOMAIN all : a = B[i]
    BY <1>9 DEF ToSet
  <2>2. a = as(all[i].window) /\ a.window = all[i].window
    BY <1>9, <1>10, <2>1
  <2> QED BY <1>7, <1>8, <2>2
<1> QED BY <1>6, <1>12, <1>13

\* A window that is opened begins closed and without the focus.
LEMMA StatesBegun ==
  ASSUME IInv, run.phase = "idle",
         NEW N, N = without(states, gone)
                    \o [i \in DOMAIN opening |->
                          [window |-> opening[i].window,
                           open |-> FALSE, focused |-> FALSE, mode |-> "Normal"]]
  PROVE  /\ N \in Seq(States) /\ Sorted(N) /\ windowsOf(N) = windowsOf(entries)
         /\ NextStates(ToSet(states), ToSet(N), gone, new)
         /\ {s.window : s \in {x \in ToSet(N) : x.open}}
              = {s.window : s \in {x \in ToSet(states) : x.open}} \ gone
<1>1. PICK p : p = without(states, gone)
  OBVIOUS
<1>2. /\ p \in Seq(States) /\ Sorted(p) /\ windowsOf(p) = windowsOf(applied) \ gone
      /\ ToSet(p) = {x \in ToSet(states) : x.window \notin gone}
  <2>1. /\ states \in Seq(States) /\ Sorted(states) /\ \A x \in States : x.window \in Nat
    BY Applying, Numbers
  <2>2. /\ p \in Seq(States) /\ Sorted(p) /\ windowsOf(p) = windowsOf(states) \ gone
        /\ ToSet(p) = {x \in ToSet(states) : x.window \notin gone}
    BY ONLY <1>1, <2>1, Without
  <2> QED BY <2>2, Applying
<1>3. PICK f : f = [i \in DOMAIN opening |->
                      [window |-> opening[i].window,
                       open |-> FALSE, focused |-> FALSE, mode |-> "Normal"]]
  OBVIOUS
<1>4. \A i \in DOMAIN opening : opening[i].window \in new /\ opening[i].window \in Ids
  BY Applying DEF windowsOf, new
<1>5. DOMAIN f = DOMAIN opening
  BY <1>3
<1>6. \A i \in DOMAIN opening : /\ f[i] \in States /\ f[i].window = opening[i].window
                                /\ ~f[i].open /\ ~f[i].focused
  BY <1>3, <1>4 DEF States, Modes
<1>7. f \in Seq(States) /\ Sorted(f) /\ windowsOf(f) = new
  <2>1. Renames(f, opening) /\ f = [i \in DOMAIN opening |-> f[i]]
    BY <1>3, <1>5, <1>6 DEF Renames
  <2>2. opening \in Seq(Entries) /\ Sorted(opening) /\ windowsOf(opening) = new
    BY Applying
  <2>3. \A i \in DOMAIN opening : f[i] \in States
    BY <1>6
  <2> QED BY ONLY <2>1, <2>2, <2>3, Renamed
<1>8. Before(p, f)
  BY <1>2, <1>7, Applying DEF Before
<1>9. /\ N \in Seq(States) /\ Sorted(N) /\ windowsOf(N) = windowsOf(p) \cup windowsOf(f)
      /\ ToSet(N) = ToSet(p) \cup ToSet(f)
  <2>1. Joins(N, p, f)
    BY <1>1, <1>3 DEF Joins
  <2> QED BY ONLY <1>2, <1>7, <1>8, <2>1, Joined
<1>10. windowsOf(N) = windowsOf(entries)
  BY <1>2, <1>7, <1>9 DEF gone, new
<1>11. \A x \in ToSet(f) : x.window \in new /\ ~x.open /\ ~x.focused
  BY <1>4, <1>5, <1>6 DEF ToSet
<1>12. NextStates(ToSet(states), ToSet(N), gone, new)
  BY <1>2, <1>9, <1>11 DEF NextStates
<1>13. {s.window : s \in {x \in ToSet(N) : x.open}}
         = {s.window : s \in {x \in ToSet(states) : x.open}} \ gone
  <2>1. {x \in ToSet(N) : x.open} = {x \in ToSet(states) : x.open /\ x.window \notin gone}
    BY <1>2, <1>9, <1>11
  <2> QED BY <2>1
<1> QED BY <1>9, <1>10, <1>12, <1>13

\* The pointers of the windows asked for, unplaced in those that are opened, and
\* those pointers once each is put where the cursor was moved.
pointersKept ==
  [w \in windowsOf(entries) |-> IF w \in new THEN unplaced ELSE input.pointers[w]]
pointersPlaced(refused, f) ==
  [w \in windowsOf(entries) |->
     IF w \in moved(refused)
     THEN [f[w] EXCEPT !.position = requested(w).pending, !.placed = TRUE] ELSE f[w]]

\* They keep which the pointer is in.
LEMMA PointersPlaced ==
  ASSUME IInv, run.phase = "idle", NEW refused,
         NEW f, f = pointersKept, NEW P, P = pointersPlaced(refused, f)
  PROVE  /\ P \in [windowsOf(entries) -> Pointers]
         /\ {w \in windowsOf(entries) : P[w].inside}
              = {w \in windowsOf(applied) : input.pointers[w].inside} \ gone
<1>1. ASSUME NEW w \in windowsOf(entries)
      PROVE  /\ f[w] \in Pointers
             /\ f[w].inside <=> w \in windowsOf(applied) /\ input.pointers[w].inside
  <2>1. CASE w \in new
    <3>1. f[w] = unplaced /\ w \notin windowsOf(applied)
      BY <2>1 DEF new, pointersKept
    <3>2. unplaced \in Pointers /\ unplaced.inside = FALSE
      BY WindowsAssumption DEF unplaced, Pointers
    <3> QED BY <3>1, <3>2
  <2>2. CASE w \notin new
    <3>1. f[w] = input.pointers[w] /\ w \in windowsOf(applied)
      BY <2>2 DEF new, pointersKept
    <3> QED BY <3>1, Applying
  <2> QED BY <2>1, <2>2
<1>2. ASSUME NEW w \in windowsOf(entries)
      PROVE  P[w] \in Pointers /\ P[w].inside = f[w].inside
  <2>1. CASE w \in moved(refused)
    <3>1. PICK x, y : x = f[w] /\ y = requested(w).pending
      OBVIOUS
    <3>2. y \in Positions
      <4>1. requested(w) \in Entries /\ requested(w).pending # Nowhere
        BY <2>1, Applying, Requested DEF moved
      <4> QED BY <3>1, <4>1 DEF Entries
    <3>3. P[w] = [x EXCEPT !.position = y, !.placed = TRUE] /\ x \in Pointers
      BY <1>1, <2>1, <3>1 DEF pointersPlaced
    <3> QED BY <3>1, <3>2, <3>3 DEF Pointers
  <2>2. CASE w \notin moved(refused)
    BY <1>1, <2>2 DEF pointersPlaced
  <2> QED BY <2>1, <2>2
<1>3. P \in [windowsOf(entries) -> Pointers]
  BY <1>2 DEF pointersPlaced
<1>4. {w \in windowsOf(entries) : P[w].inside}
        = {w \in windowsOf(applied) : input.pointers[w].inside} \ gone
  BY <1>1, <1>2 DEF gone
<1> QED BY <1>3, <1>4

\* The modes that setting the cursors of the windows there may leave in force.
ModesIn(modes, there, focus) ==
  \A w \in toSetCursor : w \in there =>
    modes[w] \in inForce(focus, w, os.windows[w].effective, requested(w).mode)
\* B is what is asked for.
AskedFor(B) ==
  \A a \in B : /\ a.window \in windowsOf(entries)
               /\ a.entry = requested(a.window).entry /\ a.mode = requested(a.window).mode

\* A window that was there before, once its entry and its cursor are applied.
LEMMA ShownAgain ==
  ASSUME IInv, run.phase = "idle",
         NEW there, there \subseteq windowsOf(entries),
         NEW focus, NEW unchanged, NEW modes \in [toSetCursor -> Modes],
         ModesIn(modes, there, focus),
         NEW w \in there, w \notin new, w \in DOMAIN os.windows, focus = w <=> os.focus = w,
         NEW x, x = shownNext(w, focus, unchanged, modes)
  PROVE  /\ x \in Shown
         /\ x.changed => x.entry = requested(w).entry
         /\ focus = w /\ x.granted => x.effective = requested(w).mode
         /\ focus # w => x.effective = "Normal"
<1>1. PICK a, r, old : a = lastApplied(w) /\ r = requested(w) /\ old = os.windows[w]
  OBVIOUS
<1>2. /\ w \in windowsOf(entries) /\ w \in windowsOf(applied) /\ r \in Entries /\ old \in Shown
      /\ a \in ToSet(applied) /\ a.window = w
  <2>1. w \in windowsOf(applied)
    BY DEF new
  <2>2. a \in ToSet(applied) /\ a.window = w
    BY <1>1, <2>1, Found DEF lastApplied
  <2>3. r \in Entries
    BY <1>1, Applying, Requested
  <2>4. old \in Shown
    BY <1>1, Reported, Partials
  <2> QED BY <2>1, <2>2, <2>3, <2>4
<1>3. /\ w \in toChange <=> r.entry # a.entry
      /\ w \in toSetCursor <=> r.mode # a.mode
  BY <1>1, <1>2 DEF toChange, toSetCursor
<1>4. /\ old.changed => old.entry = a.entry
      /\ focus = w /\ old.granted => old.effective = a.mode
      /\ focus # w => old.effective = "Normal"
  <2>1. ShownInv(os.windows, os.focus, <<>>, ToSet(applied)) /\ ~focuses(<<>>, w)
    BY Reported, Applying, NothingToFold DEF Agree
  <2> QED BY <1>1, <1>2, <2>1 DEF ShownInv
<1>5. PICK y : y = IF w \in toChange
                   THEN [old EXCEPT !.entry = IF w \in unchanged THEN @ ELSE r.entry,
                                    !.changed = w \notin unchanged]
                   ELSE old
  OBVIOUS
<1>6. x = IF w \in toSetCursor THEN cursored(y, focus, w, r.mode, modes[w]) ELSE y
  BY <1>1, <1>5 DEF shownNext
<1>7. /\ y \in Shown /\ y.effective = old.effective /\ y.granted = old.granted
      /\ y.changed => y.entry = r.entry
  <2>1. CASE w \in toChange
    <3>1. PICK n, g : /\ n = (IF w \in unchanged THEN old.entry ELSE r.entry)
                      /\ g = (w \notin unchanged)
      OBVIOUS
    <3>2. g \in BOOLEAN /\ n \in {0, 1} /\ (g => n = r.entry)
      BY <1>2, <3>1 DEF Entries, Shown
    <3>3. y = [old EXCEPT !.entry = n, !.changed = g]
      BY <1>5, <2>1, <3>1
    <3>4. /\ y \in Shown /\ y.entry = n /\ y.changed = g
          /\ y.effective = old.effective /\ y.granted = old.granted
      BY <1>2, <3>2, <3>3 DEF Shown
    <3> QED BY <3>2, <3>4
  <2>2. CASE w \notin toChange
    BY <1>2, <1>3, <1>4, <1>5, <2>2
  <2> QED BY <2>1, <2>2
<1>8. CASE w \in toSetCursor
  <2>1. PICK m : m = modes[w]
    OBVIOUS
  <2>2. m \in Modes /\ m \in inForce(focus, w, old.effective, r.mode)
    BY <1>1, <1>8, <2>1 DEF ModesIn
  <2>3. focus # w => m = "Normal"
    BY <1>4, <2>2 DEF inForce
  <2>4. x = cursored(y, focus, w, r.mode, m)
    BY <1>6, <1>8, <2>1
  <2>5. /\ x \in Shown /\ x.entry = y.entry /\ x.changed = y.changed
        /\ x.effective = m /\ x.granted = (focus # w \/ m = r.mode)
    BY ONLY <1>7, <2>2, <2>4, Cursored
  <2> QED BY <1>1, <1>7, <2>3, <2>5
<1>9. CASE w \notin toSetCursor
  <2>1. x = y /\ r.mode = a.mode
    BY <1>3, <1>6, <1>9
  <2> QED BY <1>1, <1>4, <1>7, <2>1
<1> QED BY <1>8, <1>9

\* What is shown once the request is applied.
LEMMA ShownNext ==
  ASSUME IInv, run.phase = "idle", NEW there, there \subseteq windowsOf(entries),
         \A w \in there : w \notin new => w \in DOMAIN os.windows,
         NEW focus, focus = IF os.focus \in gone THEN NoWindow ELSE os.focus,
         NEW unchanged, NEW modes \in [toSetCursor -> Modes], ModesIn(modes, there, focus),
         NEW next, next = [w \in there |-> shownNext(w, focus, unchanged, modes)],
         NEW B, AskedFor(B)
  PROVE  next \in Partial(Shown) /\ DOMAIN next = there /\ ShownAs(next, focus, B)
<1>0. /\ DOMAIN next = there /\ there \in SUBSET Ids /\ NoWindow \notin Ids
      /\ os.focus \in windowsOf(applied) \cup {NoWindow}
  <2>1. ShownInv(os.windows, os.focus, run.changes, ToSet(applied))
        /\ DOMAIN os.windows \subseteq windowsOf(applied)
    BY Reported, Applying, KnownOf DEF Agree
  <2>2. os.focus \in windowsOf(applied) \cup {NoWindow}
    BY <2>1 DEF ShownInv
  <2> QED BY <2>2, Applying, Numbers
<1>1. ASSUME NEW w \in there
      PROVE  /\ next[w] \in Shown
             /\ next[w].changed => next[w].entry = requested(w).entry
             /\ focus = w /\ next[w].granted => next[w].effective = requested(w).mode
             /\ focus # w => next[w].effective = "Normal"
  <2>1. next[w] = shownNext(w, focus, unchanged, modes)
    OBVIOUS
  <2>2. CASE w \in new
    <3>1. focus # w
      BY <1>0, <2>2 DEF new
    <3>2. PICK n \in {0, 1} : n = requested(w).entry
      <4>1. requested(w) \in Entries
        BY Applying, Requested
      <4> QED BY <4>1 DEF Entries
    <3>3. PICK m, b : m = "Normal" /\ b = TRUE
      OBVIOUS
    <3>4. next[w] = [entry |-> n, changed |-> b, effective |-> m, granted |-> b]
      BY <2>1, <2>2, <3>2, <3>3 DEF shownNext
    <3>5. m \in Modes /\ b \in BOOLEAN
      BY <3>3 DEF Modes
    <3>6. next[w] \in Shown /\ next[w].entry = n /\ next[w].effective = m
      BY ONLY <3>4, <3>5, n \in {0, 1} DEF Shown
    <3> QED BY <3>1, <3>2, <3>3, <3>6
  <2>3. CASE w \notin new
    <3>1. w \in DOMAIN os.windows /\ (focus = w <=> os.focus = w)
      BY <1>0, <2>3 DEF gone
    <3> QED BY <2>1, <2>3, <3>1, ShownAgain
  <2> QED BY <2>2, <2>3
<1>2. next \in [there -> Shown]
  BY <1>0, <1>1
<1>3. next \in Partial(Shown)
  BY <1>0, <1>2 DEF Partial
<1>4. ShownAs(next, focus, B)
  <2>1. ASSUME NEW a \in B, a.window \in there
        PROVE  /\ next[a.window].changed => next[a.window].entry = a.entry
               /\ focus = a.window /\ next[a.window].granted => next[a.window].effective = a.mode
    BY <1>1, <2>1 DEF AskedFor
  <2> QED BY <1>0, <1>1, <2>1 DEF ShownAs
<1> QED BY <1>0, <1>3, <1>4

\* The reader is told that the windows closed that are not asked for any more.
LEMMA ToldGone ==
  ASSUME IInv, run.phase = "idle", NEW q \in Seq(Events), windowsOf(q) = gone,
         \A i \in DOMAIN q : q[i].kind = "Closed",
         \A i, j \in DOMAIN q : q[i].window = q[j].window => i = j,
         NEW v, v = tellAll(begun, q)
  PROVE  /\ v.right /\ v.held = input.held /\ v.pressed = {} /\ v.released = {}
         /\ v.open = {s.window : s \in {x \in ToSet(states) : x.open}} \ gone
         /\ v.inside = {w \in windowsOf(applied) : input.pointers[w].inside} \ gone
         /\ v.closed \subseteq 1..lastID /\ v.closed \cap windowsOf(entries) = {}
<1>1. now = begun
  <2>1. run.events = <<>> /\ begun \in Readers
    BY Applying, Begun
  <2> QED BY <2>1, ToldNothing DEF now
<1>2. /\ begun \in Readers /\ begun.right /\ begun.held = input.held
      /\ begun.pressed = {} /\ begun.released = {}
      /\ begun.open = {s.window : s \in {x \in ToSet(states) : x.open}}
      /\ begun.inside = {w \in windowsOf(applied) : input.pointers[w].inside}
      /\ begun.closed \subseteq 1..lastID
      /\ begun.closed \cap (windowsOf(entries) \cup windowsOf(applied)) = {}
  <2>1. DOMAIN input.pointers = windowsOf(applied) /\ ReaderInv
    BY DEF IInv, ListsInv
  <2> QED BY <1>1, <2>1, Applying, Begun DEF ReaderInv
<1>3. Closings(q, begun.closed)
  <2>1. \A i \in DOMAIN q : q[i].window \in windowsOf(applied)
    BY DEF windowsOf, gone
  <2> QED BY <1>2, <2>1 DEF Closings
<1>4. PICK W : W = gone
  OBVIOUS
<1>5. PICK b : b = begun
  OBVIOUS
<1>6. b \in Readers /\ b.right /\ Closings(q, b.closed) /\ v = tellAll(b, q) /\ W = windowsOf(q)
  BY <1>2, <1>3, <1>4, <1>5
<1>7. /\ v.right /\ v.open = b.open \ W /\ v.closed = b.closed \cup W
      /\ v.inside = b.inside \ W /\ v.pressed = b.pressed
      /\ v.held = b.held /\ v.released = b.released
  BY ONLY <1>6, q \in Seq(Events), ToldClosings
<1>8. gone \subseteq 1..lastID /\ gone \cap windowsOf(entries) = {}
  BY DEF IInv, ListsInv, gone
<1>9. v.closed \subseteq 1..lastID /\ v.closed \cap windowsOf(entries) = {}
  BY <1>2, <1>4, <1>5, <1>7, <1>8
<1> QED BY <1>2, <1>4, <1>5, <1>7, <1>9

\* The openings reported are of the windows opened.
LEMMA OpeningsTold ==
  ASSUME NEW o \in Seq(Entries), Sorted(o),
         NEW u, u = [i \in DOMAIN o |-> [kind |-> "Opened", window |-> o[i].window]]
  PROVE  u \in Seq(Changes) /\ Openings(u, windowsOf(o))
<1>1. PICK k : k = "Opened"
  OBVIOUS
<1>2. /\ k \in {"Opened", "Closed"} /\ \A x \in Entries : x.window \in Nat /\ x.window \in Ids
      /\ u = [i \in DOMAIN o |-> [kind |-> k, window |-> o[i].window]]
  BY <1>1, Numbers
<1>3. /\ u \in Seq(Changes)
      /\ \A i \in DOMAIN u : u[i].kind = k /\ u[i].window \in windowsOf(o)
      /\ \A i, j \in DOMAIN u : u[i].window = u[j].window => i = j
      /\ \A w \in windowsOf(o) : \E i \in DOMAIN u : u[i].window = w
  BY ONLY <1>2, o \in Seq(Entries), Sorted(o), Announced
<1> QED BY <1>1, <1>3 DEF Openings

\* The request is applied.
LEMMA ApplyHolds ==
  ASSUME IInv, Apply
  PROVE  IInv'
<1>0. run.phase = "idle"
  BY DEF Apply
<1> DEFINE Tell(kind, q) == [i \in DOMAIN q |-> [kind |-> kind, window |-> q[i].window]]
           Pointer(w) == IF w \in new THEN unplaced ELSE input.pointers[w]
           Focus == IF os.focus \in gone THEN NoWindow ELSE os.focus
           There(failed) == (DOMAIN os.windows \ gone) \cup (new \ failed)
           All == without(applied, gone) \o opening
<1>1. PICK failed \in SUBSET new, refused \in SUBSET windowsOf(entries),
           unchanged \in SUBSET toChange, modes \in [toSetCursor -> Modes] :
        /\ failed \subseteq refused
        /\ \A w \in refused \ failed : requested(w).pending # Nowhere
        /\ \A w \in toSetCursor :
             IF w \in There(failed)
             THEN modes[w] \in inForce(Focus, w, os.windows[w].effective, requested(w).mode)
             ELSE modes[w] = "Normal"
        /\ applied' = [i \in DOMAIN All |-> as(All[i].window)]
        /\ states' = without(states, gone)
                     \o [i \in DOMAIN opening |->
                           [window |-> opening[i].window,
                            open |-> FALSE, focused |-> FALSE, mode |-> "Normal"]]
        /\ input' = [input EXCEPT
             !.pointers = [w \in windowsOf(entries) |->
                IF w \in moved(refused)
                THEN [Pointer(w) EXCEPT !.position = requested(w).pending, !.placed = TRUE]
                ELSE Pointer(w)]]
        /\ os' = [focus |-> Focus,
                  windows |-> [w \in There(failed) |-> shownNext(w, Focus, unchanged, modes)]]
        /\ run' = [phase |-> "pump",
                   changes |-> Tell("Opened", without(opening, failed)),
                   events |-> Tell("Closed", without(applied, windowsOf(entries)))]
        /\ orphaned' = (orphaned \/ os.focus \in gone)
  BY DEF Apply
<1>2. /\ entries' = [i \in DOMAIN entries |-> [entries[i] EXCEPT !.pending = Nowhere]]
      /\ lastID' = lastID /\ reader' = reader /\ motion' = motion
  BY DEF Apply
<1>3. entries' \in Seq(Entries) /\ Sorted(entries') /\ windowsOf(entries') = windowsOf(entries)
  <2>1. entries \in Seq(Entries) /\ Sorted(entries) /\ \A i \in DOMAIN entries : entries[i] \in Entries
    BY <1>0, Applying, ElementOfSeq, LenProperties
  <2>2. /\ DOMAIN entries' = DOMAIN entries /\ entries' = [i \in DOMAIN entries |-> entries'[i]]
        /\ \A i \in DOMAIN entries : entries'[i] = [entries[i] EXCEPT !.pending = Nowhere]
    BY <1>2
  <2>3. ASSUME NEW i \in DOMAIN entries
        PROVE  entries'[i] \in Entries /\ entries'[i].window = entries[i].window
    <3>1. PICK e : e = entries[i]
      OBVIOUS
    <3>2. e \in Entries /\ entries'[i] = [e EXCEPT !.pending = Nowhere]
      BY <2>1, <2>2, <3>1
    <3> QED BY <3>1, <3>2 DEF Entries
  <2>4. Renames(entries', entries)
    BY <2>2, <2>3 DEF Renames
  <2> QED BY ONLY <2>1, <2>2, <2>3, <2>4, Renamed
<1>4. /\ applied' \in Seq(Applied) /\ Sorted(applied') /\ windowsOf(applied') = windowsOf(entries)
      /\ \A a \in ToSet(applied') : /\ a.window \in windowsOf(entries)
                                    /\ a.entry = requested(a.window).entry
                                    /\ a.mode = requested(a.window).mode
  <2>1. PICK all : all = All
    OBVIOUS
  <2>2. applied' = [i \in DOMAIN all |-> as(all[i].window)]
    BY <1>1, <2>1
  <2> QED BY <1>0, <2>1, <2>2, AppliedAs
<1>5. /\ states' \in Seq(States) /\ Sorted(states') /\ windowsOf(states') = windowsOf(entries)
      /\ NextStates(ToSet(states), ToSet(states'), gone, new)
      /\ {s.window : s \in {x \in ToSet(states') : x.open}}
           = {s.window : s \in {x \in ToSet(states) : x.open}} \ gone
  BY <1>0, <1>1, StatesBegun
<1>6. PICK P : P = [w \in windowsOf(entries) |->
                      IF w \in moved(refused)
                      THEN [Pointer(w) EXCEPT !.position = requested(w).pending, !.placed = TRUE]
                      ELSE Pointer(w)]
  OBVIOUS
<1>7. /\ P \in [windowsOf(entries) -> Pointers]
      /\ {w \in windowsOf(entries) : P[w].inside}
           = {w \in windowsOf(applied) : input.pointers[w].inside} \ gone
  <2>1. PICK f : f = pointersKept
    OBVIOUS
  <2>2. P = pointersPlaced(refused, f)
    BY <1>6, <2>1 DEF pointersKept, pointersPlaced
  <2> QED BY <1>0, <2>1, <2>2, PointersPlaced
<1>8. /\ input' \in InputTypes /\ input'.held = input.held /\ input'.pointers = P
      /\ DOMAIN P = windowsOf(entries)
  <2>1. P \in Partial(Pointers) /\ DOMAIN P = windowsOf(entries)
    BY <1>0, <1>7, Applying DEF Partial
  <2>2. input' = [input EXCEPT !.pointers = P] /\ input \in InputTypes
    BY <1>0, <1>1, <1>6, Applying
  <2> QED BY <2>1, <2>2 DEF InputTypes
<1>9. PICK focus, there, shown :
        /\ focus = Focus /\ there = (DOMAIN os.windows \ gone) \cup (new \ failed)
        /\ shown = [w \in there |-> shownNext(w, focus, unchanged, modes)]
  OBVIOUS
<1>10. there \subseteq windowsOf(entries) /\ \A w \in there : w \notin new => w \in DOMAIN os.windows
  <2>1. DOMAIN os.windows \subseteq windowsOf(applied)
    BY <1>0, Reported, Applying, KnownOf DEF Agree
  <2> QED BY <1>9, <2>1 DEF new, gone
<1>11. /\ shown \in Partial(Shown) /\ DOMAIN shown = there
       /\ ShownAs(shown, focus, ToSet(applied'))
  <2>1. PICK B : B = ToSet(applied')
    OBVIOUS
  <2>2. ModesIn(modes, there, focus)
    BY <1>1, <1>9 DEF ModesIn
  <2>3. AskedFor(B)
    BY <1>4, <2>1 DEF AskedFor
  <2>4. focus = IF os.focus \in gone THEN NoWindow ELSE os.focus
    BY <1>9
  <2> QED BY <1>0, <1>9, <1>10, <2>1, <2>2, <2>3, <2>4, ShownNext
<1>12. os'.focus = focus /\ os'.windows = shown /\ os' \in OSTypes
  <2>1. os' = [focus |-> focus, windows |-> shown]
    BY <1>1, <1>9
  <2>2. focus \in Ids \cup {NoWindow}
    BY <1>9, Reported
  <2> QED BY <1>11, <2>1, <2>2 DEF OSTypes
<1>13. PICK changes, events, o, c :
         /\ o = without(opening, failed) /\ c = without(applied, windowsOf(entries))
         /\ changes = Tell("Opened", o) /\ events = Tell("Closed", c)
  <2> HIDE DEF Tell
  <2> QED OBVIOUS
<1>14. /\ changes \in Seq(Changes) /\ Openings(changes, new \ failed)
  <2>1. opening \in Seq(Entries) /\ Sorted(opening) /\ windowsOf(opening) = new
    BY <1>0, Applying
  <2>2. o \in Seq(Entries) /\ Sorted(o) /\ windowsOf(o) = new \ failed
    BY <1>13, <2>1, Numbers, Without
  <2>3. changes = [i \in DOMAIN o |-> [kind |-> "Opened", window |-> o[i].window]]
    BY <1>13
  <2>4. changes \in Seq(Changes) /\ Openings(changes, windowsOf(o))
    BY ONLY <2>2, <2>3, OpeningsTold
  <2> QED BY <2>2, <2>4
<1>15. /\ events \in Seq(Events) /\ windowsOf(events) = gone
       /\ \A i \in DOMAIN events : events[i].kind = "Closed"
       /\ \A i, j \in DOMAIN events : events[i].window = events[j].window => i = j
  <2>1. applied \in Seq(Applied) /\ Sorted(applied)
    BY <1>0, Applying
  <2>2. c \in Seq(Applied) /\ Sorted(c) /\ windowsOf(c) = gone
    BY <1>13, <2>1, Numbers, Without DEF gone
  <2>3. PICK k : k = "Closed"
    OBVIOUS
  <2>4. /\ k \in {"Opened", "Closed"} /\ \A x \in Applied : x.window \in Nat /\ x.window \in Ids
        /\ events = [i \in DOMAIN c |-> [kind |-> k, window |-> c[i].window]]
    BY <1>13, <2>3, Numbers
  <2>5. /\ events \in Seq(Events) /\ windowsOf(events) = windowsOf(c)
        /\ \A i \in DOMAIN events : events[i].kind = k
        /\ \A i, j \in DOMAIN events : events[i].window = events[j].window => i = j
    BY ONLY <2>2, <2>4, Announced
  <2> QED BY <2>2, <2>3, <2>5
<1>16. run'.phase = "pump" /\ run'.changes = changes /\ run'.events = events /\ run' \in RunTypes
  BY <1>1, <1>13, <1>14, <1>15 DEF RunTypes
<1>17. orphaned' = (orphaned \/ os.focus \in gone) /\ orphaned' \in BOOLEAN
  BY <1>1
<1> HIDE DEF Tell, Pointer, There, All
<1>18. TypeInv'
  BY <1>2, <1>3, <1>4, <1>5, <1>8, <1>12, <1>16, <1>17 DEF IInv, TypeInv
<1>19. ListsInv'
  BY <1>2, <1>3, <1>4, <1>5, <1>8, <1>16 DEF IInv, ListsInv
<1>20. WindowsInv'
  <2>1. PICK S, N, B, E, W : /\ S = ToSet(states) /\ N = ToSet(states') /\ B = ToSet(applied')
                             /\ E = windowsOf(entries) /\ W = new \ failed
    OBVIOUS
  <2>2. /\ os.windows \in Partial(Shown) /\ S \in SUBSET States
        /\ Agree(os.windows, os.focus, <<>>, S, ToSet(applied))
    BY <1>0, <2>1, Reported, Applying
  <2>3. E \in SUBSET Ids /\ gone = known(S) \ E /\ new = E \ known(S)
    BY <1>0, <2>1, Applying, KnownOf DEF gone, new
  <2>4. focus = IF os.focus \in gone THEN NoWindow ELSE os.focus
    BY <1>9
  <2>5. /\ DOMAIN shown = (DOMAIN os.windows \ gone) \cup (new \ failed)
    BY <1>9, <1>11
  <2>6. ShownAs(shown, focus, B)
    BY <1>11, <2>1
  <2>7. Openings(changes, W) /\ W = new \ failed
    BY <1>14, <2>1
  <2>8. N \in SUBSET States /\ known(N) = E /\ NextStates(S, N, gone, new)
    <3>1. \A i \in DOMAIN states' : states'[i] \in States
      BY <1>5, ElementOfSeq, LenProperties
    <3> QED BY <1>5, <2>1, <3>1, KnownOf DEF ToSet
  <2>9. Agree(shown, focus, changes, N, B)
    BY ONLY <2>2, <2>3, <2>4, <2>5, <2>6, <2>7, <2>8, failed \in SUBSET new, AgreeApplied
  <2> QED BY <1>12, <1>16, <2>1, <2>9 DEF WindowsInv
<1>21. KeysInv'
  <2>1. ASSUME focus = NoWindow PROVE ReleasesToFold(changes, input.held, orphaned')
    <3>1. \A i \in DOMAIN changes : changes[i].kind = "Opened"
      BY <1>14 DEF Openings
    <3>2. ASSUME ~orphaned' PROVE input.held = {}
      <4>1. os.focus = NoWindow /\ ~orphaned
        BY <1>9, <1>17, <2>1, <3>2
      <4>2. ReleasesToFold(<<>>, input.held, orphaned)
        BY <1>0, <4>1, Applying DEF IInv, KeysInv
      <4> QED BY <4>1, <4>2 DEF ReleasesToFold
    <3> QED BY <3>1, <3>2 DEF ReleasesToFold
  <2> QED BY <1>8, <1>12, <1>16, <2>1 DEF KeysInv
<1>22. ReaderInv'
  <2>1. PICK v : v = tellAll(begun, events)
    OBVIOUS
  <2>2. now' = v
    BY <1>2, <1>16, <2>1 DEF now, begun
  <2>3. /\ v.right /\ v.held = input.held /\ v.pressed = {} /\ v.released = {}
        /\ v.open = {s.window : s \in {x \in ToSet(states) : x.open}} \ gone
        /\ v.inside = {w \in windowsOf(applied) : input.pointers[w].inside} \ gone
        /\ v.closed \subseteq 1..lastID /\ v.closed \cap windowsOf(entries) = {}
    BY <1>0, <1>15, <2>1, ToldGone
  <2>4. reader.right /\ IsFiniteSet(input.held)
    BY DEF IInv, ReaderInv
  <2> QED BY <1>2, <1>3, <1>4, <1>5, <1>7, <1>8, <1>16, <2>2, <2>3, <2>4 DEF ReaderInv
<1>23. MovesInv(run.events, motion)'
  <2>1. MovesInv(<<>>, motion)
    BY <1>0, Applying DEF IInv
  <2>2. \A w \in Ids : motion[w] = 0
    BY <2>1 DEF MovesInv
  <2>3. MovesInv(events, motion)
    BY <1>15, <2>2 DEF MovesInv, isMoveIn
  <2> QED BY <1>2, <1>16, <2>3
<1> QED BY <1>18, <1>19, <1>20, <1>21, <1>22, <1>23 DEF IInv

-----------------------------------------------------------------------------
(* The theorems *)

\* Before anything is opened, all lists are empty and nothing is held.
LEMMA InitHolds ==
  ASSUME Init
  PROVE  IInv
<1>1. /\ lastID = 0 /\ entries = <<>> /\ states = <<>> /\ applied = <<>> /\ orphaned = FALSE
      /\ motion = [w \in Ids |-> 0]
  BY DEF Init
<1>2. /\ input.held = {} /\ input.pressed = {} /\ input.released = {} /\ input.pointers = <<>>
      /\ DOMAIN input.pointers = {} /\ input \in InputTypes
  <2>1. <<>> \in [{} -> Pointers] /\ DOMAIN <<>> = {}
    OBVIOUS
  <2>2. <<>> \in Partial(Pointers)
    BY <2>1 DEF Partial
  <2> QED BY <2>1, <2>2 DEF Init, InputTypes
<1>3. /\ os.windows = <<>> /\ os.focus = NoWindow /\ DOMAIN os.windows = {} /\ os \in OSTypes
  <2>1. <<>> \in [{} -> Shown] /\ DOMAIN <<>> = {}
    OBVIOUS
  <2>2. <<>> \in Partial(Shown)
    BY <2>1 DEF Partial
  <2> QED BY <2>1, <2>2 DEF Init, OSTypes
<1>4. run.phase = "idle" /\ run.changes = <<>> /\ run.events = <<>> /\ run \in RunTypes
  <2>1. <<>> \in Seq(Changes) /\ <<>> \in Seq(Events)
    BY EmptySeq
  <2> QED BY <2>1 DEF Init, RunTypes
<1>5. /\ reader \in Readers /\ reader.right /\ reader.held = {} /\ reader.open = {}
      /\ reader.closed = {} /\ reader.inside = {} /\ reader.pressed = {} /\ reader.released = {}
  BY DEF Init, Readers
<1>6. /\ DOMAIN <<>> = {} /\ ToSet(<<>>) = {} /\ windowsOf(<<>>) = {} /\ Sorted(<<>>)
  BY DEF ToSet, windowsOf, Sorted
<1>7. TypeInv
  <2>1. <<>> \in Seq(Entries) /\ <<>> \in Seq(States) /\ <<>> \in Seq(Applied)
    BY EmptySeq
  <2>2. 0 \in 0..MaxWindows
    BY WindowsAssumption
  <2>3. motion \in [Ids -> Int]
    <3>1. \A w \in Ids : 0 \in Int
      OBVIOUS
    <3> QED BY <1>1, <3>1
  <2>4. orphaned \in BOOLEAN
    BY <1>1
  <2>5. lastID \in 0..MaxWindows
    BY <1>1, <2>2
  <2> QED BY <1>1, <1>2, <1>3, <1>4, <1>5, <2>1, <2>3, <2>4, <2>5 DEF TypeInv
<1>8. ListsInv
  BY <1>1, <1>2, <1>4, <1>6 DEF ListsInv
<1>9. WindowsInv
  <2>1. ChangesInv(<<>>, {}, {})
    BY <1>6 DEF ChangesInv
  <2>2. known({}) = {}
    BY DEF known
  <2>3. ShownInv(os.windows, NoWindow, <<>>, {})
    BY <1>3 DEF ShownInv
  <2>4. Agree(os.windows, NoWindow, <<>>, {}, {})
    BY <1>3, <2>1, <2>2, <2>3 DEF Agree
  <2> QED BY <1>1, <1>3, <1>4, <1>6, <2>4 DEF WindowsInv
<1>10. KeysInv
  BY <1>2, <1>4, <1>6 DEF KeysInv, ReleasesToFold
<1>11. ReaderInv
  <2>1. begun \in Readers
    BY <1>7, Begun
  <2>2. now = begun
    BY <1>4, <2>1, ToldNothing DEF now
  <2>3. IsFiniteSet({})
    BY FS_EmptySet
  <2>4. {s.window : s \in {x \in {} : x.open}} = {}
    OBVIOUS
  <2> QED BY <1>1, <1>2, <1>4, <1>5, <1>6, <1>7, <2>2, <2>3, <2>4, Begun DEF ReaderInv
<1>12. MovesInv(run.events, motion)
  BY <1>1, <1>4, <1>6 DEF MovesInv
<1> QED BY <1>7, <1>8, <1>9, <1>10, <1>11, <1>12 DEF IInv

\* Every step keeps the invariants.
LEMMA NextHolds ==
  ASSUME IInv, [Next]_vars
  PROVE  IInv'
<1>1. CASE Open \/ Apply \/ Pumped \/ Publish
  BY <1>1, OpenHolds, ApplyHolds, PumpedHolds, PublishHolds
<1>2. CASE \E w \in Ids : Change(w) \/ SetCursorMode(w) \/ Close(w)
  BY <1>2, ChangeHolds, SetCursorModeHolds, CloseHolds
<1>3. CASE \E w \in Ids : OSFocus(w) \/ OSBlur(w) \/ OSClose(w)
  BY <1>3, OSFocusHolds, OSBlurHolds, OSCloseHolds
<1>4. ASSUME NEW w \in Ids, OSPointer(w, "Leave", 0) PROVE IInv'
  BY <1>4, OSPointerHolds, WindowsAssumption
<1>5. ASSUME NEW w \in Ids, NEW p \in Positions, SetCursorPosition(w, p) PROVE IInv'
  BY <1>5, SetCursorPositionHolds
<1>6. ASSUME NEW w \in Ids, NEW p \in Positions, OSPointer(w, "Move", p) \/ OSPointer(w, "Enter", p)
      PROVE  IInv'
  BY <1>6, OSPointerHolds
<1>7. ASSUME NEW w \in Ids, NEW key \in Keys, NEW pressed \in BOOLEAN, OSKey(w, key, pressed)
      PROVE  IInv'
  BY <1>7, OSKeyHolds
<1>8. CASE FoldOpened \/ FoldClosed \/ FoldKey \/ FoldFocus
  BY <1>8, FoldOpenedHolds, FoldClosedHolds, FoldKeyHolds, FoldFocusHolds
<1>9. CASE FoldBlur \/ FoldMove \/ FoldEnter \/ FoldLeave
  BY <1>9, FoldBlurHolds, FoldMoveHolds, FoldEnterHolds, FoldLeaveHolds
<1>10. CASE UNCHANGED vars
  <2>1. /\ lastID' = lastID /\ entries' = entries /\ states' = states /\ applied' = applied
        /\ input' = input /\ os' = os /\ run' = run /\ reader' = reader /\ motion' = motion
        /\ orphaned' = orphaned
    BY <1>10 DEF vars, manager, history
  <2>2. TypeInv' /\ ListsInv' /\ WindowsInv' /\ KeysInv' /\ MovesInv(run.events, motion)'
    BY <2>1 DEF IInv, TypeInv, ListsInv, WindowsInv, KeysInv
  <2>3. now' = now
    BY <2>1 DEF now, begun
  <2>4. ReaderInv'
    BY <2>1, <2>3 DEF IInv, ReaderInv
  <2> QED BY <2>2, <2>4 DEF IInv
<1> QED BY <1>1, <1>2, <1>3, <1>4, <1>5, <1>6, <1>7, <1>8, <1>9, <1>10 DEF Next

\* An open window is as its state and as applied, but for what failed or was
\* refused.
OpenAs(s, a, shown) ==
  /\ shown.changed => shown.entry = a.entry
  /\ shown.effective = s.mode
  /\ s.focused /\ shown.granted => s.mode = a.mode

\* Once everything is folded the state tells what there is.
LEMMA ListsFollow ==
  ASSUME IInv
  PROVE  ListsAgree
<1>0. SUFFICES ASSUME run.phase = "fold", run.changes = <<>>
               PROVE  /\ names(entries) = names(states) /\ names(applied) = names(states)
                      /\ DOMAIN input.pointers = windowsOf(states)
                      /\ \A i \in DOMAIN states :
                           /\ states[i].open = (states[i].window \in DOMAIN os.windows)
                           /\ states[i].focused = (os.focus = states[i].window)
                           /\ states[i].open =>
                                OpenAs(states[i], applied[i], os.windows[states[i].window])
                           /\ ~states[i].focused => states[i].mode = "Normal"
  BY DEF OpenAs, ListsAgree, folded
<1>1. /\ entries \in Seq(Entries) /\ states \in Seq(States) /\ applied \in Seq(Applied)
      /\ Sorted(entries) /\ Sorted(states) /\ Sorted(applied)
      /\ windowsOf(entries) = windowsOf(states) /\ windowsOf(applied) = windowsOf(states)
      /\ DOMAIN input.pointers = windowsOf(states)
  BY <1>0 DEF IInv, TypeInv, ListsInv
<1>2. names(entries) = names(states)
  BY <1>1, Numbers, SameNames
<1>3. names(applied) = names(states) /\ DOMAIN applied = DOMAIN states
  BY <1>1, Numbers, SameNames
<1>4. ASSUME NEW i \in DOMAIN states
      PROVE  /\ states[i].open = (states[i].window \in DOMAIN os.windows)
             /\ states[i].focused = (os.focus = states[i].window)
             /\ states[i].open => OpenAs(states[i], applied[i], os.windows[states[i].window])
             /\ ~states[i].focused => states[i].mode = "Normal"
  <2>1. PICK s, a, w : s = states[i] /\ a = applied[i] /\ w = states[i].window
    OBVIOUS
  <2>2. /\ s \in States /\ a \in Applied /\ a.window = w /\ s.window = w /\ w # NoWindow
        /\ s \in ToSet(states) /\ a \in ToSet(applied)
    <3>1. names(applied)[i] = names(states)[i] /\ i \in DOMAIN applied
      BY <1>3
    <3>2. a.window = w
      BY <2>1, <3>1 DEF names
    <3>3. s \in States /\ a \in Applied
      BY <1>1, <2>1, <3>1, ElementOfSeq, LenProperties
    <3>4. s.window = w /\ w # NoWindow
      BY <2>1, <3>3, Numbers
    <3> QED BY <2>1, <3>1, <3>2, <3>3, <3>4 DEF ToSet
  <2>3. StateInv(s, os.windows, os.focus, <<>>) /\ ModeInv(s, os.windows)
        /\ ShownInv(os.windows, os.focus, <<>>, ToSet(applied))
    BY <1>0, <2>2 DEF IInv, WindowsInv, Agree
  <2>4. /\ ~opens(<<>>, w) /\ ~closes(<<>>, w) /\ ~focuses(<<>>, w)
        /\ endsFocused(<<>>, w, s.focused) <=> s.focused
    BY NothingToFold DEF endsFocused
  <2>5. s.open \in BOOLEAN /\ s.focused \in BOOLEAN
    BY <2>2 DEF States
  <2>6. s.open = (w \in DOMAIN os.windows)
    BY <2>2, <2>3, <2>4, <2>5 DEF StateInv
  <2>7. s.focused = (os.focus = w)
    <3>1. CASE w \in DOMAIN os.windows
      BY <2>2, <2>3, <2>4, <2>5, <3>1 DEF StateInv
    <3>2. CASE w \notin DOMAIN os.windows
      <4>1. os.focus # w
        BY <2>2, <2>3, <3>2 DEF ShownInv
      <4> QED BY <2>2, <2>3, <2>4, <2>5, <3>2, <4>1 DEF StateInv
    <3> QED BY <3>1, <3>2
  <2>8. w \in DOMAIN os.windows => OpenAs(s, a, os.windows[w])
    <3>1. SUFFICES ASSUME w \in DOMAIN os.windows PROVE OpenAs(s, a, os.windows[w])
      OBVIOUS
    <3>2. os.windows[w].effective = s.mode
      BY <2>2, <2>3, <3>1 DEF ModeInv
    <3>3. /\ os.windows[w].changed => os.windows[w].entry = a.entry
          /\ os.focus = w /\ os.windows[w].granted => os.windows[w].effective = a.mode
      BY <2>2, <2>3, <2>4, <3>1 DEF ShownInv
    <3>4. s.focused => os.focus = w
      BY <2>7
    <3> QED BY <3>2, <3>3, <3>4 DEF OpenAs
  <2>9. ~s.focused => s.mode = "Normal"
    <3>1. CASE w \in DOMAIN os.windows
      <4>1. os.focus # w => os.windows[w].effective = "Normal"
        BY <2>3, <3>1 DEF ShownInv
      <4>2. s.mode = os.windows[w].effective
        BY <2>2, <2>3, <3>1 DEF ModeInv
      <4> QED BY <2>5, <2>7, <4>1, <4>2
    <3>2. CASE w \notin DOMAIN os.windows
      BY <2>2, <2>3, <3>2 DEF ModeInv
    <3> QED BY <3>1, <3>2
  <2> QED BY <2>1, <2>5, <2>6, <2>7, <2>8, <2>9
<1> QED BY <1>1, <1>2, <1>3, <1>4

\* Between runs the reader has read everything, and once everything is folded
\* the moves of a window are one.
LEMMA ReadersFollow ==
  ASSUME IInv
  PROVE  ReadersAgree
<1>1. reader.right
  BY DEF IInv, ReaderInv
<1>2. ASSUME run.phase = "idle"
      PROVE  /\ reader.held = input.held
             /\ reader.pressed = input.pressed /\ reader.released = input.released
             /\ reader.open = {w \in windowsOf(states) : state(w).open}
             /\ reader.inside = {w \in DOMAIN input.pointers : input.pointers[w].inside}
  <2>1. /\ states \in Seq(States) /\ Sorted(states) /\ run.events = <<>> /\ TypeInv
    BY <1>2, Applying
  <2>2. now = begun
    BY <2>1, Begun, ToldNothing DEF now
  <2>3. /\ reader.held = input.held
        /\ reader.pressed = input.pressed /\ reader.released = input.released
        /\ reader.open = {s.window : s \in {x \in ToSet(states) : x.open}}
        /\ reader.inside = {w \in DOMAIN input.pointers : input.pointers[w].inside}
    BY <1>2, <2>1, <2>2, Begun DEF IInv, ReaderInv
  <2>4. ASSUME NEW w \in windowsOf(states) PROVE state(w) \in ToSet(states) /\ state(w).window = w
    BY Found DEF state
  <2>5. \A x, y \in ToSet(states) : x.window = y.window => x = y
    BY <2>1, Numbers, Once
  <2>6. windowsOf(states) = {x.window : x \in ToSet(states)}
    BY WindowsOf
  <2>7. {s.window : s \in {x \in ToSet(states) : x.open}} = {w \in windowsOf(states) : state(w).open}
    BY <2>4, <2>5, <2>6
  <2> QED BY <2>3, <2>7
<1>3. ASSUME folded, NEW w \in Ids
      PROVE  /\ \A i, j \in earlierMoves(w) : i = j
             /\ \A i \in earlierMoves(w) : run.events[i].motion = motion[w]
             /\ earlierMoves(w) = {} => motion[w] = 0
  <2>1. MovesInv(run.events, motion)
    BY DEF IInv
  <2> QED BY <2>1 DEF MovesInv, earlierMoves
<1> QED BY <1>1, <1>2, <1>3 DEF ReadersAgree

\* Between runs nothing is left to fold.
LEMMA KeysFollow ==
  ASSUME IInv
  PROVE  KeysReleased
<1>1. SUFFICES ASSUME run.phase = "idle", os.focus = NoWindow, ~orphaned PROVE input.held = {}
  BY DEF KeysReleased
<1>2. ReleasesToFold(<<>>, input.held, orphaned)
  BY <1>1, Applying DEF IInv, KeysInv
<1> QED BY <1>1, <1>2 DEF ReleasesToFold

\* The inductive invariant: what is still to fold accounts for every difference
\* between the window and input state and what exists, and what the reader has
\* been told for every difference between the two of them (eventprocessor.go
\* apply and fold).
THEOREM WindowsHold == Spec => []IInv
<1>1. Init => IInv
  BY InitHolds
<1>2. IInv /\ [Next]_vars => IInv'
  BY NextHolds
<1> QED BY <1>1, <1>2, PTL DEF Spec

\* The four lists of windows agree once a run has folded its changes, whatever
\* was opened, closed, failed or closed by itself, and with what exists but for
\* the changes that failed and the cursor modes that were refused
\* (eventprocessor.go apply, fold and reapplyCursorMode).
THEOREM ListsHold == Spec => []ListsAgree
BY WindowsHold, ListsFollow, PTL

\* Who keeps the state by the events alone has what the package keeps, and the
\* moves of a run reach it as one event with all their motion (eventprocessor.go
\* fold).
THEOREM ReadersHold == Spec => []ReadersAgree
BY WindowsHold, ReadersFollow, PTL

\* No key stays held once no window has the focus, unless the focused window
\* closed (eventprocessor.go fold of InputChangeFocus).
THEOREM KeysHold == Spec => []KeysReleased
BY WindowsHold, KeysFollow, PTL

=============================================================================
