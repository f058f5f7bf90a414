---------------------------- MODULE StoreProofs ----------------------------
(***************************************************************************)
(* What the map of a learner holds after any number of commands, for all   *)
(* keys and values. kvStore folds Apply over the commands applied so far;  *)
(* a fold takes its value from a recursive function, and what it computes  *)
(* is shown by least counterexamples: the shortest sequence for which a    *)
(* fact fails would have a shorter one, for which it fails as well.        *)
(***************************************************************************)
EXTENDS PaxosClientsProofs

\* A set of naturals that is not empty has a least element.
LEMMA LeastOf ==
  ASSUME NEW S, S \subseteq Nat, S # {}
  PROVE  \E k \in S : \A j \in S : ~(j < k)
<1> DEFINE R == {ss \in Nat \X Nat : ss[1] < ss[2]}
<1>1. IsWellFoundedOn(R, Nat)
  BY NatLessThanWellFounded DEF OpToRel
<1>2. PICK k \in S : \A j \in S : <<j, k>> \notin R
  <2> HIDE DEF R
  <2> QED  BY <1>1, WFMin
<1>3. QED
  BY <1>2

\* The greatest of a set of positions is one of them, and none is greater.
LEMMA GreatestPosition ==
  ASSUME NEW n \in Nat, NEW T, T \subseteq 1 .. n, T # {}
  PROVE  Max(T) \in T /\ \A x \in T : x <= Max(T)
<1>1. T \subseteq Nat /\ \A x \in T : x <= n
  OBVIOUS
<1>2. QED
  BY <1>1, MaxOfBounded

LEMMA WithoutLast ==
  ASSUME NEW k \in Nat, k # 0
  PROVE  (1 .. k) \ {k} = 1 .. (k - 1)
<1>1. ASSUME NEW i \in (1 .. k) \ {k} PROVE i \in 1 .. (k - 1)
  BY <1>1
<1>2. ASSUME NEW i \in 1 .. (k - 1) PROVE i \in (1 .. k) \ {k}
  BY <1>2
<1>3. QED
  BY <1>1, <1>2

-----------------------------------------------------------------------------
(* The fold.                                                               *)

\* f gives, for each set of positions of seq, the map after the commands there.
FoldsOn(f, seq, D) ==
  f = [T \in SUBSET D |->
         IF T = {} THEN << >>
         ELSE LET x == Max(T) IN Apply(f[T \ {x}], seq[x])]

\* FoldLeft takes its value from such a function, if there is one.
LEMMA FoldLeftIs ==
  ASSUME NEW seq
  PROVE  FoldLeft(Apply, << >>, seq) =
           (CHOOSE f : FoldsOn(f, seq, DOMAIN seq))[DOMAIN seq]
  BY DEF FoldLeft, MapThenFoldSet, FoldsOn

\* One position more: sets without it are as before, the others end with it.
LEMMA FoldExtends ==
  ASSUME NEW seq, NEW k \in Nat, k # 0,
         NEW f, FoldsOn(f, seq, 1 .. (k - 1))
  PROVE  \E g : FoldsOn(g, seq, 1 .. k)
<1> DEFINE
      g == [T \in SUBSET (1 .. k) |->
              IF k \in T THEN Apply(f[T \ {k}], seq[k]) ELSE f[T]]
<1>1. ASSUME NEW T \in SUBSET (1 .. k), k \in T
      PROVE  /\ T # {} /\ Max(T) = k
             /\ g[T] = Apply(g[T \ {k}], seq[k])
  <2>1. Max(T) \in T /\ \A x \in T : x <= Max(T)
    BY <1>1, GreatestPosition
  <2>2. Max(T) = k
    <3>1. Max(T) \in 1 .. k /\ k <= Max(T)
      BY <1>1, <2>1
    <3>2. QED
      BY <3>1
  <2>3. T \ {k} \in SUBSET (1 .. k) /\ k \notin T \ {k}
    OBVIOUS
  <2>4. g[T \ {k}] = f[T \ {k}]
    BY <2>3
  <2>5. g[T] = Apply(f[T \ {k}], seq[k])
    BY <1>1
  <2>6. QED
    BY <1>1, <2>2, <2>4, <2>5
<1>2. ASSUME NEW T \in SUBSET (1 .. k), k \notin T, T # {}
      PROVE  g[T] = Apply(g[T \ {Max(T)}], seq[Max(T)])
  <2>1. T \in SUBSET (1 .. (k - 1))
    BY <1>2
  <2>2. f[T] = Apply(f[T \ {Max(T)}], seq[Max(T)])
    <3>1. f = [U \in SUBSET (1 .. (k - 1)) |->
                 IF U = {} THEN << >>
                 ELSE Apply(f[U \ {Max(U)}], seq[Max(U)])]
      BY DEF FoldsOn
    <3>2. QED
      BY <1>2, <2>1, <3>1, Zenon
  <2>3. T \ {Max(T)} \in SUBSET (1 .. k) /\ k \notin T \ {Max(T)}
    BY <1>2
  <2>4. g[T] = f[T] /\ g[T \ {Max(T)}] = f[T \ {Max(T)}]
    BY <1>2, <2>3
  <2>5. QED
    BY <2>2, <2>4
<1>3. g[{}] = << >>
  <2>1. {} \in SUBSET (1 .. k) /\ {} \in SUBSET (1 .. (k - 1))
    OBVIOUS
  <2>2. f[{}] = << >>
    <3>1. f = [U \in SUBSET (1 .. (k - 1)) |->
                 IF U = {} THEN << >>
                 ELSE Apply(f[U \ {Max(U)}], seq[Max(U)])]
      BY DEF FoldsOn
    <3>2. QED
      BY <2>1, <3>1, Zenon
  <2>3. QED
    BY <2>1, <2>2
<1>4. \A T \in SUBSET (1 .. k) :
        g[T] = IF T = {} THEN << >>
               ELSE Apply(g[T \ {Max(T)}], seq[Max(T)])
  BY <1>1, <1>2, <1>3
<1>5. g = [T \in SUBSET (1 .. k) |-> g[T]]
  OBVIOUS
<1> HIDE DEF g
<1>6. g = [T \in SUBSET (1 .. k) |->
             IF T = {} THEN << >> ELSE Apply(g[T \ {Max(T)}], seq[Max(T)])]
  BY <1>4, <1>5, Zenon
<1>7. QED
  BY <1>6 DEF FoldsOn

LEMMA FoldExists ==
  ASSUME NEW seq, NEW n \in Nat
  PROVE  \E f : FoldsOn(f, seq, 1 .. n)
<1> DEFINE Bad == {k \in Nat : ~ \E f : FoldsOn(f, seq, 1 .. k)}
<1>1. SUFFICES ASSUME Bad # {} PROVE FALSE
  OBVIOUS
<1>2. PICK k \in Bad : \A j \in Bad : ~(j < k)
  <2>1. Bad \subseteq Nat
    OBVIOUS
  <2> HIDE DEF Bad
  <2>2. QED
    BY <1>1, <2>1, LeastOf
<1>3. CASE k = 0
  <2> DEFINE g == [T \in SUBSET (1 .. 0) |-> << >>]
  <2>1. \A T \in SUBSET (1 .. 0) : T = {}
    OBVIOUS
  <2>2. FoldsOn(g, seq, 1 .. 0)
    BY <2>1 DEF FoldsOn
  <2>3. QED
    BY <1>2, <1>3, <2>2
<1>4. CASE k # 0
  <2>1. k \in Nat /\ k - 1 \in Nat /\ k - 1 < k
    BY <1>2, <1>4
  <2>2. PICK f : FoldsOn(f, seq, 1 .. (k - 1))
    BY <1>2, <2>1
  <2>3. QED
    BY <1>2, <1>4, <2>1, <2>2, FoldExtends
<1>5. QED
  BY <1>3, <1>4

\* So the commands are applied one after the other, the first one to the
\* empty map.
LEMMA FoldSteps ==
  ASSUME NEW seq, NEW n \in Nat, DOMAIN seq = 1 .. n
  PROVE  \E store :
           /\ store[0] = << >>
           /\ \A k \in 1 .. n : store[k] = Apply(store[k - 1], seq[k])
           /\ FoldLeft(Apply, << >>, seq) = store[n]
<1> DEFINE f == CHOOSE h : FoldsOn(h, seq, 1 .. n)
<1>1. FoldsOn(f, seq, 1 .. n)
  BY FoldExists
<1>2. FoldLeft(Apply, << >>, seq) = f[1 .. n]
  BY FoldLeftIs
<1> HIDE DEF f
<1>3. f = [T \in SUBSET (1 .. n) |->
             IF T = {} THEN << >> ELSE Apply(f[T \ {Max(T)}], seq[Max(T)])]
  BY <1>1 DEF FoldsOn
<1> DEFINE store == [k \in 0 .. n |-> f[1 .. k]]
<1>4. store[0] = << >>
  <2>1. 1 .. 0 = {} /\ {} \in SUBSET (1 .. n) /\ 0 \in 0 .. n
    OBVIOUS
  <2>2. f[{}] = << >>
    BY <1>3, <2>1, Zenon
  <2>3. QED
    BY <2>1, <2>2
<1>5. ASSUME NEW k \in 1 .. n
      PROVE  store[k] = Apply(store[k - 1], seq[k])
  <2>1. 1 .. k \in SUBSET (1 .. n) /\ 1 .. k # {}
    <3>1. 1 \in 1 .. k /\ \A i \in 1 .. k : i \in 1 .. n
      OBVIOUS
    <3>2. QED
      BY <3>1
  <2>2. Max(1 .. k) = k
    <3>1. k \in Nat /\ k \in 1 .. k /\ 1 .. k \subseteq 1 .. k
      OBVIOUS
    <3>2. Max(1 .. k) \in 1 .. k /\ \A x \in 1 .. k : x <= Max(1 .. k)
      BY <2>1, <3>1, GreatestPosition
    <3>3. QED
      BY <3>1, <3>2
  <2>3. (1 .. k) \ {k} = 1 .. (k - 1)
    BY WithoutLast
  <2>4. f[1 .. k] = Apply(f[(1 .. k) \ {Max(1 .. k)}], seq[Max(1 .. k)])
    BY <1>3, <2>1, Zenon
  <2>5. k \in 0 .. n /\ k - 1 \in 0 .. n
    OBVIOUS
  <2>6. QED
    BY <2>2, <2>3, <2>4, <2>5
<1>6. store[n] = f[1 .. n]
  OBVIOUS
<1> HIDE DEF store
<1>7. QED
  BY <1>2, <1>4, <1>5, <1>6

-----------------------------------------------------------------------------
(* The map.                                                                *)

\* What one command does to each key.
LEMMA ApplyWrites ==
  ASSUME NEW store, NEW entry, entry.cmd \in Command, NEW k
  PROVE  LET after == Apply(store, entry)
             op == entry.cmd.op
         IN  /\ ~(entry.cmd \in Request /\ op.key = k) =>
                  /\ k \in DOMAIN after <=> k \in DOMAIN store
                  /\ k \in DOMAIN store => after[k] = store[k]
             /\ entry.cmd \in Request /\ op.key = k =>
                  IF op.type = "Put" THEN k \in DOMAIN after /\ after[k] = op.value
                                     ELSE k \notin DOMAIN after
<1>1. CASE entry.cmd \notin Request
  <2>1. Apply(store, entry) = store
    BY <1>1 DEF Command, Apply
  <2>2. QED
    BY <1>1, <2>1
<1>2. CASE entry.cmd \in Request /\ entry.cmd.op.type = "Delete"
  <2>1. Apply(store, entry) =
          [x \in DOMAIN store \ {entry.cmd.op.key} |-> store[x]]
    BY <1>2, RequestAssumption DEF Apply, Restrict
  <2>2. QED
    BY <1>2, <2>1
<1>3. CASE entry.cmd \in Request /\ entry.cmd.op.type = "Put"
  <2>1. Apply(store, entry) =
          [x \in DOMAIN store \cup {entry.cmd.op.key} |->
             IF x = entry.cmd.op.key THEN entry.cmd.op.value ELSE store[x]]
    BY <1>3, RequestAssumption DEF Apply
  <2>2. QED
    BY <1>3, <2>1
<1>4. entry.cmd \in Request => entry.cmd.op.type \in {"Put", "Delete"}
  BY OpAssumption
<1>5. QED
  BY <1>1, <1>2, <1>3, <1>4

\* The positions of the first n commands of seq that are about key k.
On(seq, n, k) ==
  {i \in 1 .. n : seq[i].cmd \in Request /\ seq[i].cmd.op.key = k}

\* What store holds for key k is what the last of them left there.
LastWritten(store, seq, n, k) ==
  LET on == On(seq, n, k)
      last == seq[Max(on)].cmd.op
  IN  IF on # {} /\ last.type = "Put"
      THEN k \in DOMAIN store /\ store[k] = last.value
      ELSE k \notin DOMAIN store

LEMMA OneMoreCommand ==
  ASSUME NEW seq, NEW n \in Nat, n # 0, seq[n].cmd \in Command, NEW k,
         NEW store, LastWritten(store, seq, n - 1, k)
  PROVE  LastWritten(Apply(store, seq[n]), seq, n, k)
<1>1. CASE seq[n].cmd \in Request /\ seq[n].cmd.op.key = k
  <2>1. n \in On(seq, n, k) /\ On(seq, n, k) \subseteq 1 .. n
    BY <1>1 DEF On
  <2>2. Max(On(seq, n, k)) = n
    <3>1. /\ Max(On(seq, n, k)) \in 1 .. n
          /\ n <= Max(On(seq, n, k))
      BY <2>1, GreatestPosition
    <3>2. QED
      BY <3>1
  <2>3. QED
    BY <1>1, <2>1, <2>2, ApplyWrites DEF LastWritten
<1>2. CASE ~(seq[n].cmd \in Request /\ seq[n].cmd.op.key = k)
  <2>1. On(seq, n, k) = On(seq, n - 1, k)
    <3>1. \A i \in 1 .. n : i = n \/ i \in 1 .. (n - 1)
      OBVIOUS
    <3>2. \A i \in 1 .. (n - 1) : i \in 1 .. n
      OBVIOUS
    <3>3. QED
      BY <1>2, <3>1, <3>2 DEF On
  <2>2. QED
    BY <1>2, <2>1, ApplyWrites DEF LastWritten
<1>3. QED
  BY <1>1, <1>2

LEMMA FoldIsLastWritten ==
  ASSUME NEW seq, NEW n \in Nat, DOMAIN seq = 1 .. n,
         \A i \in 1 .. n : seq[i].cmd \in Command, NEW key
  PROVE  LastWritten(FoldLeft(Apply, << >>, seq), seq, n, key)
<1>1. PICK store :
        /\ store[0] = << >>
        /\ \A k \in 1 .. n : store[k] = Apply(store[k - 1], seq[k])
        /\ FoldLeft(Apply, << >>, seq) = store[n]
  BY FoldSteps
<1> DEFINE Bad == {k \in 0 .. n : ~LastWritten(store[k], seq, k, key)}
<1>2. SUFFICES ASSUME Bad # {} PROVE FALSE
  BY <1>1
<1>3. PICK k \in Bad : \A j \in Bad : ~(j < k)
  <2>1. Bad \subseteq Nat
    OBVIOUS
  <2> HIDE DEF Bad
  <2>2. QED
    BY <1>2, <2>1, LeastOf
<1>4. CASE k = 0
  <2>1. On(seq, 0, key) = {}
    BY DEF On
  <2>2. LastWritten(store[0], seq, 0, key)
    BY <1>1, <2>1 DEF LastWritten
  <2>3. QED
    BY <1>3, <1>4, <2>2
<1>5. CASE k # 0
  <2>1. /\ k \in Nat /\ k \in 1 .. n
        /\ k - 1 \in 0 .. n /\ k - 1 < k
    BY <1>3, <1>5
  <2>2. LastWritten(store[k - 1], seq, k - 1, key)
    BY <1>3, <2>1
  <2>3. store[k] = Apply(store[k - 1], seq[k])
    BY <1>1, <2>1
  <2>4. LastWritten(store[k], seq, k, key)
    BY <1>5, <2>1, <2>2, <2>3, OneMoreCommand
  <2>5. QED
    BY <1>3, <2>4
<1>6. QED
  BY <1>4, <1>5

\* In every state, and for every key, the map of a learner holds what the last
\* command that it applied on that key put there, and nothing if that was a
\* Delete or if there was none.
THEOREM StoreCorrect == ClientSpec => []StoreIsLastWrite
<1>1. ASSUME TypeOK PROVE StoreIsLastWrite
  <2>1. SUFFICES ASSUME NEW s \in Server, NEW k \in Key
                 PROVE  LastWritten(kvStore(s), applied[s], Len(applied[s]), k)
    <3>1. ASSUME NEW s \in Server
          PROVE  DOMAIN applied[s] = 1 .. Len(applied[s])
      BY <1>1 DEF TypeOK
    <3>2. QED
      BY <3>1 DEF StoreIsLastWrite, LastWritten, On
  <2>2. applied[s] \in Seq([pos : Nat, cmd : Command])
    BY <1>1 DEF TypeOK
  <2>3. /\ Len(applied[s]) \in Nat
        /\ DOMAIN applied[s] = 1 .. Len(applied[s])
        /\ \A i \in 1 .. Len(applied[s]) : applied[s][i].cmd \in Command
    <3>1. \A i \in 1 .. Len(applied[s]) :
            applied[s][i] \in [pos : Nat, cmd : Command]
      BY <2>2, ElementOfSeq
    <3>2. QED
      BY <2>2, <3>1, LenProperties
  <2>4. QED
    BY <2>3, FoldIsLastWritten DEF kvStore
<1>2. ClientTypeOK => TypeOK
  BY DEF ClientTypeOK
<1>3. QED
  BY <1>1, <1>2, ClientTypeCorrect, PTL
=============================================================================
