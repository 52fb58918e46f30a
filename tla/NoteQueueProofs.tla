-------------------------- MODULE NoteQueueProofs --------------------------
(***************************************************************************)
(* What the operations of NoteQueue make of queues of any length, for any  *)
(* set of notes.  retain is a loop: what it computes is proved by          *)
(* induction on the length of the queue, in the form of a least number     *)
(* that the statement fails for.                                           *)
(***************************************************************************)
EXTENDS NoteQueue, SequenceTheorems, FiniteSetTheorems, WellFoundedInduction, TLAPS

(* A set of naturals that is not empty has a least element.                *)
LEMMA LeastNatural ==
  ASSUME NEW T \in SUBSET Nat, T # {}
  PROVE  \E m \in T : \A k \in T : m <= k
<1> DEFINE Up == {0..n : n \in T}
<1>1. IsWellFoundedOn(StrictSubsetOrdering(Nat), FiniteSubsetsOf(Nat))
  BY FS_StrictSubsetOrderingWellFounded
<1>2. Up \subseteq FiniteSubsetsOf(Nat) /\ Up # {}
  <2>1. \A n \in T : 0..n \in SUBSET Nat /\ IsFiniteSet(0..n)
    BY FS_Interval
  <2> QED BY <2>1 DEF FiniteSubsetsOf
<1>3. PICK I \in Up : \A J \in Up : ~(<<J, I>> \in StrictSubsetOrdering(Nat))
  <2> HIDE DEF Up
  <2> QED BY <1>1, <1>2, WFMin
<1>4. PICK m \in T : I = 0..m
  OBVIOUS
<1>5. ASSUME NEW k \in T, k < m
      PROVE  FALSE
  <2>1. 0..k \in Up /\ 0..k \in SUBSET Nat /\ 0..m \in SUBSET Nat
    OBVIOUS
  <2>2. 0..k \subseteq 0..m /\ 0..k # 0..m
    BY <1>5
  <2>3. <<0..k, I>> \in StrictSubsetOrdering(Nat)
    BY <2>1, <2>2, <1>4 DEF StrictSubsetOrdering
  <2> QED BY <2>1, <2>3, <1>3
<1> QED BY <1>5

(* Induction on the numbers up to n, for a set: the induction theorems of  *)
(* the library are for an operator.                                        *)
LEMMA IntervalInduction ==
  ASSUME NEW n \in Nat, NEW P, 0 \in P, \A i \in 1..n : i - 1 \in P => i \in P
  PROVE  0..n \subseteq P
<1> SUFFICES ASSUME NEW j \in 0..n, j \notin P PROVE FALSE
  OBVIOUS
<1> DEFINE T == {i \in 0..n : i \notin P}
<1>1. T \in SUBSET Nat /\ T # {}
  OBVIOUS
<1>2. PICK m \in T : \A k \in T : m <= k
  <2> HIDE DEF T
  <2> QED BY <1>1, LeastNatural
<1>3. m \in 1..n /\ m - 1 \in 0..n /\ m - 1 \notin T
  BY <1>2
<1> QED BY <1>3

(* f has the values of a loop that starts with base and makes n steps.    *)
IsLoop(f, n, base, step) ==
  f[0] = base /\ \A i \in 1..n : f[i] = step[<<i, f[i - 1]>>]

(* A loop that builds its value step by step has a value after every step. *)
LEMMA LoopExists ==
  ASSUME NEW n \in Nat, NEW S, NEW base \in S, NEW step \in [(1..n) \X S -> S]
  PROVE  \E f \in [0..n -> S] : IsLoop(f, n, base, step)
<1> USE DEF IsLoop
<1> DEFINE Upto(m, f) == IsLoop(f, m, base, step)
           P == {m \in 0..n : \E f \in [0..n -> S] : Upto(m, f)}
<1>1. 0 \in P
  <2> DEFINE f == [i \in 0..n |-> base]
  <2>1. f \in [0..n -> S] /\ f[0] = base
    OBVIOUS
  <2> HIDE DEF f
  <2>2. Upto(0, f)
    BY <2>1
  <2> QED BY <2>1, <2>2
<1>2. ASSUME NEW m \in 1..n, m - 1 \in P
      PROVE  m \in P
  <2>1. PICK f \in [0..n -> S] : Upto(m - 1, f)
    BY <1>2
  <2> DEFINE g == [f EXCEPT ![m] = step[<<m, f[m - 1]>>]]
  <2>2. m \in 0..n /\ m - 1 \in 0..n /\ m # m - 1 /\ f[m - 1] \in S
    OBVIOUS
  <2>3. step[<<m, f[m - 1]>>] \in S
    BY <2>2
  <2>4. g \in [0..n -> S] /\ g[m] = step[<<m, f[m - 1]>>] /\ \A i \in 0..n : i # m => g[i] = f[i]
    BY <2>2, <2>3
  <2> HIDE DEF g
  <2>5. g[0] = base
    BY <2>1, <2>4
  <2>6. ASSUME NEW i \in 1..m
        PROVE  g[i] = step[<<i, g[i - 1]>>]
    <3>1. i - 1 \in 0..n /\ i \in 0..n /\ i - 1 # m
      OBVIOUS
    <3>2. g[i - 1] = f[i - 1]
      BY <3>1, <2>4
    <3>3. CASE i = m
      BY <3>2, <3>3, <2>4
    <3>4. CASE i # m
      <4>1. i \in 1..(m - 1)
        BY <3>4
      <4> QED BY <3>1, <3>2, <3>4, <4>1, <2>1, <2>4
    <3> QED BY <3>3, <3>4
  <2> QED BY <2>2, <2>4, <2>5, <2>6
<1>3. n \in P
  <2> HIDE DEF P
  <2>1. 0..n \subseteq P
    BY <1>1, <1>2, IntervalInduction
  <2> QED BY <2>1
<1> QED BY <1>3

(* r has the elements of q at the positions pos[1] < pos[2] < ..., and     *)
(* these positions are the ones in keep.                                   *)
Selects(pos, r, q, keep) ==
  /\ pos \in [1..Len(r) -> 1..Len(q)]
  /\ \A k \in 1..Len(r) : pos[k] \in keep /\ r[k] = q[pos[k]]
  /\ \A j, k \in 1..Len(r) : j < k => pos[j] < pos[k]
  /\ \A i \in keep \cap 1..Len(q) : \E k \in 1..Len(r) : pos[k] = i

(* What retain leaves of a queue, by induction on its length.              *)
LEMMA RetainFacts ==
  ASSUME NEW X, NEW q \in Seq(X), NEW keep, NEW r, r = Retain(q, keep)
  PROVE  /\ r \in Seq(X) /\ Len(r) <= Len(q)
         /\ Len(r) = Len(q) <=> 1..Len(q) \subseteq keep
         /\ \E pos : Selects(pos, r, q, keep)
<1> DEFINE n == Len(q)
           Loop(g, i) == IF i = 0 THEN <<>>
                         ELSE IF i \in keep THEN Append(g[i - 1], q[i]) ELSE g[i - 1]
           f == CHOOSE g : g = [i \in 0..n |-> Loop(g, i)]
<1>1. n \in Nat /\ \A i \in 1..n : q[i] \in X
  OBVIOUS
<1>0. r = f[n]
  BY DEF Retain
<1> HIDE DEF n
<1>2. \E g : g = [i \in 0..n |-> Loop(g, i)]
  <2> DEFINE Q == Seq(X)
             empty == <<>>
             step == [p \in (1..n) \X Q |-> IF p[1] \in keep THEN Append(p[2], q[p[1]]) ELSE p[2]]
  <2>1. step \in [(1..n) \X Q -> Q] /\ empty \in Q
    <3>1. \A p \in (1..n) \X Seq(X) : q[p[1]] \in X /\ p[2] \in Seq(X)
      BY <1>1
    <3> QED BY <3>1
  <2>2. PICK g \in [0..n -> Q] : IsLoop(g, n, empty, step)
    <3> HIDE DEF step, Q, empty
    <3> QED BY <1>1, <2>1, LoopExists
  <2>3. \A i \in 1..n : g[i - 1] \in Seq(X)
                        /\ g[i] = IF i \in keep THEN Append(g[i - 1], q[i]) ELSE g[i - 1]
    <3>1. \A i \in 1..n : i - 1 \in 0..n
      BY <1>1
    <3> QED BY <2>2, <3>1 DEF IsLoop
  <2>4. ASSUME NEW i \in 0..n
        PROVE  g[i] = Loop(g, i)
    <3>1. CASE i = 0
      BY <2>2, <3>1 DEF IsLoop
    <3>2. CASE i # 0
      <4>1. i \in 1..n
        BY <1>1, <3>2
      <4> QED BY <2>3, <3>2, <4>1
    <3> QED BY <3>1, <3>2
  <2> HIDE DEF Loop
  <2> QED BY <2>4
<1>3. f = [i \in 0..n |-> Loop(f, i)]
  <2> HIDE DEF Loop
  <2> QED BY <1>2
<1>5. f[0] = <<>> /\ \A i \in 1..n : f[i] = IF i \in keep THEN Append(f[i - 1], q[i]) ELSE f[i - 1]
  <2> HIDE DEF f
  <2>1. \A i \in 0..n : f[i] = Loop(f, i)
    <3> HIDE DEF Loop
    <3> QED BY <1>3
  <2>2. 0 \in 0..n /\ \A i \in 1..n : i \in 0..n /\ i # 0
    BY <1>1
  <2> QED BY <2>1, <2>2
<1> HIDE DEF f
<1> DEFINE Filters(m, pos) ==
             /\ pos \in [1..Len(f[m]) -> 1..m]
             /\ \A k \in 1..Len(f[m]) : pos[k] \in keep /\ f[m][k] = q[pos[k]]
             /\ \A j, k \in 1..Len(f[m]) : j < k => pos[j] < pos[k]
             /\ \A i \in keep \cap 1..m : \E k \in 1..Len(f[m]) : pos[k] = i
           Good(m) == /\ f[m] \in Seq(X) /\ Len(f[m]) <= m
                      /\ Len(f[m]) = m <=> 1..m \subseteq keep
                      /\ \E pos : Filters(m, pos)
           P == {m \in 0..n : Good(m)}
<1>6. 0 \in P
  <2>1. f[0] \in Seq(X) /\ Len(f[0]) = 0
    BY <1>5
  <2>2. Filters(0, <<>>)
    BY <2>1
  <2> HIDE DEF Filters
  <2> QED BY <1>1, <2>1, <2>2
<1>7. ASSUME NEW m \in 1..n, m - 1 \in P
      PROVE  m \in P
  <2>1. Good(m - 1) /\ m - 1 \in Nat
    <3> HIDE DEF Good
    <3> QED BY <1>7
  <2>2. PICK pos : Filters(m - 1, pos)
    BY <2>1
  <2>3. CASE m \notin keep
    <3>1. f[m] = f[m - 1]
      BY <1>5, <2>3
    <3>2. Filters(m, pos)
      BY <2>2, <2>3, <3>1
    <3>3. ~(1..m \subseteq keep) /\ f[m] \in Seq(X) /\ Len(f[m]) < m
      BY <2>1, <2>3, <3>1
    <3> HIDE DEF Filters
    <3> QED BY <3>2, <3>3
  <2>4. CASE m \in keep
    <3> DEFINE l == Len(f[m - 1])
               new == [k \in 1..(l + 1) |-> IF k = l + 1 THEN m ELSE pos[k]]
    <3>0. f[m - 1] \in Seq(X) /\ l <= m - 1
      BY <2>1
    <3>1. /\ f[m] = Append(f[m - 1], q[m]) /\ f[m - 1] \in Seq(X) /\ q[m] \in X
          /\ l \in Nat /\ l <= m - 1
      <4>1. f[m] = Append(f[m - 1], q[m]) /\ q[m] \in X
        BY <1>1, <1>5, <2>4
      <4> QED BY <4>1, <3>0
    <3>2. f[m] \in Seq(X) /\ Len(f[m]) = l + 1 /\ f[m][l + 1] = q[m] /\ \A k \in 1..l : f[m][k] = f[m - 1][k]
      BY <3>1
    <3>3. pos \in [1..l -> 1..(m - 1)]
      BY <2>2
    <3> HIDE DEF l
    <3>4. new \in [1..(l + 1) -> 1..m] /\ new[l + 1] = m /\ \A k \in 1..l : new[k] = pos[k]
      BY <3>1, <3>3
    <3> HIDE DEF new
    <3>5. \A k \in 1..(l + 1) : new[k] \in keep /\ f[m][k] = q[new[k]]
      <4>1. \A k \in 1..l : pos[k] \in keep /\ f[m - 1][k] = q[pos[k]]
        BY <2>2 DEF l
      <4>2. \A k \in 1..(l + 1) : k = l + 1 \/ k \in 1..l
        BY <3>1
      <4> QED BY <4>1, <4>2, <3>2, <3>4, <2>4
    <3>6. \A j, k \in 1..(l + 1) : j < k => new[j] < new[k]
      <4>1. \A j, k \in 1..l : j < k => pos[j] < pos[k]
        BY <2>2 DEF l
      <4>2. \A j, k \in 1..(l + 1) : j < k => j \in 1..l /\ (k = l + 1 \/ k \in 1..l)
        BY <3>1
      <4>3. \A j \in 1..l : pos[j] < m
        BY <3>3
      <4> QED BY <4>1, <4>2, <4>3, <3>4
    <3>7. \A i \in keep \cap 1..m : \E k \in 1..(l + 1) : new[k] = i
      <4>1. \A i \in keep \cap 1..(m - 1) : \E k \in 1..l : pos[k] = i
        BY <2>2 DEF l
      <4>2. \A i \in 1..m : i = m \/ i \in 1..(m - 1)
        OBVIOUS
      <4>3. 1..l \subseteq 1..(l + 1) /\ l + 1 \in 1..(l + 1)
        BY <3>1
      <4> QED BY <4>1, <4>2, <4>3, <3>4
    <3>8. Filters(m, new)
      BY <3>2, <3>4, <3>5, <3>6, <3>7
    <3>9. Len(f[m]) <= m /\ (Len(f[m]) = m <=> 1..m \subseteq keep)
      <4>1. l = m - 1 <=> 1..(m - 1) \subseteq keep
        BY <2>1 DEF l
      <4>2. 1..m \subseteq keep <=> 1..(m - 1) \subseteq keep
        BY <2>4
      <4> QED BY <4>1, <4>2, <3>1, <3>2
    <3> HIDE DEF Filters
    <3> QED BY <3>2, <3>8, <3>9
  <2> QED BY <2>3, <2>4
<1>8. Good(n)
  <2> HIDE DEF Good
  <2>1. 0..n \subseteq P
    <3> HIDE DEF P
    <3> QED BY <1>1, <1>6, <1>7, IntervalInduction
  <2> QED BY <1>1, <2>1
<1>9. PICK pos : Filters(n, pos)
  <2> HIDE DEF Filters
  <2> QED BY <1>8
<1>10. r \in Seq(X) /\ Len(r) <= n /\ (Len(r) = n <=> 1..n \subseteq keep)
  <2> HIDE DEF Filters
  <2> QED BY <1>0, <1>8
<1> HIDE DEF Good
<1>11. Selects(pos, r, q, keep)
  <2>1. /\ pos \in [1..Len(r) -> 1..n]
        /\ \A k \in 1..Len(r) : pos[k] \in keep /\ r[k] = q[pos[k]]
        /\ \A j, k \in 1..Len(r) : j < k => pos[j] < pos[k]
        /\ \A i \in keep \cap 1..n : \E k \in 1..Len(r) : pos[k] = i
    BY ONLY <1>0, <1>9
  <2> QED BY ONLY <2>1 DEF Selects, n
<1> QED BY ONLY <1>10, <1>11 DEF n

(* What is evicted is the oldest of a full queue (NoteStore::insert).      *)
LEMMA EvictFacts ==
  ASSUME NEW X, NEW q \in Seq(X), Len(q) <= MaxNotes
  PROVE  /\ Evict(q) \in Seq(X) /\ Len(Evict(q)) < MaxNotes
         /\ \E d \in 0..1 :
              /\ d = 1 => Len(q) = MaxNotes
              /\ Len(Evict(q)) = Len(q) - d
              /\ \A i \in 1..Len(Evict(q)) : i + d \in 1..Len(q) /\ Evict(q)[i] = q[i + d]
<1>1. Len(q) \in Nat /\ MaxNotes \in Nat /\ MaxNotes > 0
  BY MaxNotesAssumption
<1>2. CASE Len(q) < MaxNotes
  <2>1. Evict(q) = q
    BY <1>2 DEF Evict
  <2>2. \A i \in 1..Len(q) : i + 0 \in 1..Len(q) /\ q[i] = q[i + 0]
    OBVIOUS
  <2> QED BY <1>2, <2>1, <2>2
<1>3. CASE Len(q) = MaxNotes
  <2>1. Evict(q) = SubSeq(q, 2, Len(q))
    BY <1>1, <1>3 DEF Evict
  <2>2. /\ SubSeq(q, 2, Len(q)) \in Seq(X) /\ Len(SubSeq(q, 2, Len(q))) = Len(q) - 1
        /\ \A i \in 1..(Len(q) - 1) : SubSeq(q, 2, Len(q))[i] = q[i + 1]
    <3>1. \A i \in 2..Len(q) : q[i] \in X
      OBVIOUS
    <3> QED BY <1>1, <1>3, SubSeqProperties
  <2>3. \A i \in 1..(Len(q) - 1) : i + 1 \in 1..Len(q)
    BY <1>1
  <2> QED BY <1>1, <1>3, <2>1, <2>2, <2>3
<1> QED BY <1>1, <1>2, <1>3

(* The queue of a tag, empty for a tag without notes.                      *)
LEMMA QueueOfFacts ==
  ASSUME NEW X, NEW notes, AreQueues(notes, X), NEW tag
  PROVE  /\ QueueOf(notes, tag) \in Seq(X) /\ Len(QueueOf(notes, tag)) <= MaxNotes
         /\ tag \in DOMAIN notes <=> Len(QueueOf(notes, tag)) # 0
<1>1. MaxNotes \in Nat
  BY MaxNotesAssumption
<1> QED BY <1>1 DEF QueueOf, AreQueues

(* The queue without its d oldest notes, and the new note behind them.     *)
Shifted(d, new, old, note) ==
  /\ Len(new) = Len(old) - d + 1 /\ new[Len(new)] = note
  /\ \A i \in 1..(Len(old) - d) : i + d \in 1..Len(old) /\ new[i] = old[i + d]

(* One queue has the new note, and lost its oldest if it was full.         *)
Inserted(new, notes, tag, note) ==
  /\ DOMAIN new = DOMAIN notes \cup {tag}
  /\ \A t \in DOMAIN notes : t # tag => new[t] = notes[t]
  /\ \E d \in 0..1 : /\ d = 1 => Len(QueueOf(notes, tag)) = MaxNotes
                    /\ Shifted(d, new[tag], QueueOf(notes, tag), note)

(* NoteStore::insert changes one queue.                                    *)
LEMMA InsertFacts ==
  ASSUME NEW X, NEW notes, AreQueues(notes, X), NEW tag \in Tags, NEW note \in X,
         NEW new, new = insert(notes, tag, note)
  PROVE  AreQueues(new, X) /\ Inserted(new, notes, tag, note)
<1> DEFINE old == QueueOf(notes, tag)
           e == Evict(old)
           q == Append(e, note)
<1>1. old \in Seq(X) /\ Len(old) <= MaxNotes
  BY QueueOfFacts
<1>2. /\ e \in Seq(X) /\ Len(e) < MaxNotes
      /\ \E d \in 0..1 :
           /\ d = 1 => Len(old) = MaxNotes
           /\ Len(e) = Len(old) - d
           /\ \A i \in 1..Len(e) : i + d \in 1..Len(old) /\ e[i] = old[i + d]
  <2> HIDE DEF old
  <2> QED BY <1>1, EvictFacts
<1>3. new = WithQueue(notes, tag, q)
  BY DEF insert
<1> HIDE DEF old, e
<1>4. /\ q \in Seq(X) /\ Len(q) = Len(e) + 1 /\ q[Len(e) + 1] = note
      /\ \A i \in 1..Len(e) : q[i] = e[i]
  BY <1>2
<1>5. Len(q) \in 1..MaxNotes
  <2>1. Len(e) \in Nat /\ MaxNotes \in Nat
    BY <1>2, MaxNotesAssumption
  <2> QED BY <1>2, <1>4, <2>1
<1> HIDE DEF q
<1>6. /\ AreQueues(new, X) /\ DOMAIN new = DOMAIN notes \cup {tag}
      /\ new[tag] = q /\ \A t \in DOMAIN notes : t # tag => new[t] = notes[t]
  BY <1>3, <1>4, <1>5 DEF WithQueue, AreQueues
<1>7. PICK d \in 0..1 :
        /\ d = 1 => Len(old) = MaxNotes
        /\ Len(e) = Len(old) - d
        /\ \A i \in 1..Len(e) : i + d \in 1..Len(old) /\ e[i] = old[i + d]
  BY <1>2
<1>8. /\ Len(q) = Len(old) - d + 1 /\ q[Len(q)] = note
      /\ \A i \in 1..(Len(old) - d) : i + d \in 1..Len(old) /\ q[i] = old[i + d]
  BY <1>4, <1>7
<1> QED BY <1>6, <1>7, <1>8 DEF Shifted, Inserted, old

(* The positions of the notes with another id.                             *)
Others(queue, id) == {i \in 1..Len(queue) : queue[i].id # id}

(* NoteStore::delete_note changes one queue, from which it takes the notes *)
(* with the id; it says whether there was one.                             *)
LEMMA DeleteFacts ==
  ASSUME NEW X, NEW notes, AreQueues(notes, X), NEW tag \in Tags, NEW id,
         NEW old, old = QueueOf(notes, tag),
         NEW new, new = delete_note(notes, tag, id).notes,
         NEW left, left = QueueOf(new, tag)
  PROVE  /\ AreQueues(new, X) /\ left \in Seq(X)
         /\ \A t \in Tags \ {tag} : (t \in DOMAIN new <=> t \in DOMAIN notes)
                                  /\ (t \in DOMAIN notes => new[t] = notes[t])
         /\ \E pos : Selects(pos, left, old, Others(old, id))
         /\ delete_note(notes, tag, id).deleted <=> \E i \in 1..Len(old) : old[i].id = id
<1> DEFINE keep == {i \in DOMAIN old : old[i].id # id}
           q == Retain(old, keep)
<1>1. old \in Seq(X) /\ Len(old) <= MaxNotes /\ (tag \in DOMAIN notes <=> Len(old) # 0)
  BY QueueOfFacts
<1>2. keep = Others(old, id)
  BY <1>1 DEF Others
<1>3. /\ delete_note(notes, tag, id).deleted <=> Len(q) < Len(old)
      /\ new = IF q # <<>> THEN WithQueue(notes, tag, q) ELSE [t \in DOMAIN notes \ {tag} |-> notes[t]]
  BY DEF delete_note
<1> HIDE DEF keep
<1>4. /\ q \in Seq(X) /\ Len(q) <= Len(old)
      /\ Len(q) = Len(old) <=> 1..Len(old) \subseteq keep
      /\ \E pos : Selects(pos, q, old, keep)
  BY <1>1, RetainFacts
<1> HIDE DEF q
<1>5. /\ AreQueues(new, X) /\ left = q
      /\ \A t \in Tags \ {tag} : (t \in DOMAIN new <=> t \in DOMAIN notes)
                               /\ (t \in DOMAIN notes => new[t] = notes[t])
  <2>1. CASE q # <<>>
    <3>1. Len(q) \in 1..MaxNotes
      <4>1. Len(q) \in Nat /\ Len(q) # 0 /\ Len(old) \in Nat /\ MaxNotes \in Nat
        BY <1>1, <1>4, <2>1, MaxNotesAssumption
      <4> QED BY <4>1, <1>1, <1>4
    <3>2. /\ AreQueues(new, X) /\ DOMAIN new = DOMAIN notes \cup {tag}
          /\ new[tag] = q /\ \A t \in DOMAIN notes : t # tag => new[t] = notes[t]
      BY <1>3, <1>4, <2>1, <3>1 DEF WithQueue, AreQueues
    <3> QED BY <3>2 DEF QueueOf
  <2>2. CASE q = <<>>
    <3>1. new = [t \in DOMAIN notes \ {tag} |-> notes[t]]
      BY <1>3, <2>2
    <3> QED BY <2>2, <3>1 DEF AreQueues, QueueOf
  <2> QED BY <2>1, <2>2
<1>6. delete_note(notes, tag, id).deleted <=> \E i \in 1..Len(old) : old[i].id = id
  <2>1. Len(q) \in Nat /\ Len(old) \in Nat
    BY <1>1, <1>4
  <2>2. Len(q) < Len(old) <=> ~(1..Len(old) \subseteq keep)
    BY <2>1, <1>4
  <2>3. 1..Len(old) \subseteq keep <=> \A i \in 1..Len(old) : old[i].id # id
    BY <1>2 DEF Others
  <2> QED BY <2>2, <2>3, <1>3
<1> QED BY <1>2, <1>4, <1>5, <1>6
============================================================================
