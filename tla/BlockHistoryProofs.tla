------------------------- MODULE BlockHistoryProofs -------------------------
(***************************************************************************)
(* Theorems about BlockHistory, for every set of workers and every value   *)
(* of the bounds: its types, that a scan leaves no gap behind it, and that *)
(* one find is one credit.                                                 *)
(*                                                                         *)
(* A poll folds its events into the state and then the heights of the scan *)
(* into it.  A fold is a recursive function over the subsets of its        *)
(* indices: it is shown to exist first, then to be the last of the states  *)
(* that the steps of the fold pass through.                                *)
(***************************************************************************)
EXTENDS BlockHistory, FiniteSetTheorems, WellFoundedInduction, TLAPS

-----------------------------------------------------------------------------
(* Numbers.                                                                *)

\* Numbers have a least one.
LEMMA LeastNumber ==
  ASSUME NEW N \in SUBSET Nat, N # {}
  PROVE  \E m \in N : \A k \in N : m <= k
  <1>1. PICK m \in N : \A k \in N : ~(<<k, m>> \in OpToRel(<, Nat))
    BY NatLessThanWellFounded, WFMin
  <1>2. ASSUME NEW k \in N PROVE m <= k
    <2>1. k \in Nat /\ m \in Nat
      OBVIOUS
    <2>2. ~(k < m)
      BY <1>1, <2>1 DEF OpToRel
    <2> QED BY <2>1, <2>2
  <1> QED BY <1>2

\* What holds of zero and passes from a number below n to the next one holds
\* of every number up to n.
LEMMA Climb ==
  ASSUME NEW n \in Nat, NEW P, 0 \in P,
         \A k \in 0 .. n - 1 : k \in P => k + 1 \in P
  PROVE  \A k \in 0 .. n : k \in P
  <1> SUFFICES ASSUME NEW j \in 0 .. n, j \notin P PROVE FALSE
    OBVIOUS
  <1> DEFINE bad == {k \in 0 .. n : k \notin P}
  <1>0. bad \in SUBSET Nat /\ bad # {}
    OBVIOUS
  <1>1. PICK m \in bad : \A k \in bad : m <= k
    <2> HIDE DEF bad
    <2> QED BY <1>0, LeastNumber
  <1>2. m # 0 /\ m \in Nat /\ m <= n
    OBVIOUS
  <1>3. m - 1 \in 0 .. n - 1 /\ (m - 1) + 1 = m
    BY <1>2
  <1>4. m - 1 \notin bad
    BY <1>1, <1>3
  <1> QED BY <1>3, <1>4

\* The greatest of a nonempty set of numbers up to n.
LEMMA GreatestUpTo ==
  ASSUME NEW n \in Nat, NEW N \in SUBSET (0 .. n), N # {}
  PROVE  /\ Max(N) \in N
         /\ \A k \in N : k <= Max(N)
  <1> DEFINE gaps == {n - k : k \in N}
  <1>0. \A k \in N : k \in 0 .. n /\ n - k \in Nat
    OBVIOUS
  <1>1. gaps \subseteq Nat /\ gaps # {}
    BY <1>0
  <1>2. PICK g \in gaps : \A h \in gaps : g <= h
    <2> HIDE DEF gaps
    <2> QED BY <1>1, LeastNumber
  <1>3. PICK m \in N : g = n - m
    OBVIOUS
  <1>4. \A k \in N : m >= k
    <2> SUFFICES ASSUME NEW k \in N PROVE m >= k
      OBVIOUS
    <2>1. g <= n - k
      BY <1>2
    <2> QED BY <1>3, <2>1
  <1>5. Max(N) \in N /\ \A k \in N : Max(N) >= k
    BY <1>4 DEF Max
  <1> QED BY <1>5

-----------------------------------------------------------------------------
(* Folds from the left.                                                    *)

\* The recursion by which a fold takes the steps F on base.
Rest(t) == t \ {Max(t)}

FoldsBy(g, n, base, F) ==
    g = [t \in SUBSET (1 .. n) |->
           IF t = {} THEN base ELSE F[Max(t)][g[Rest(t)]]]

\* The last of a set of indices goes first.
LEMMA RestUpTo ==
  ASSUME NEW n \in Nat, NEW t \in SUBSET (1 .. n), t # {}
  PROVE  /\ Max(t) \in 1 .. n /\ Rest(t) \in SUBSET (1 .. n)
         /\ Rest(t) \in SUBSET (1 .. Max(t) - 1)
  <1>1. t \in SUBSET (0 .. n)
    OBVIOUS
  <1>2. Max(t) \in t /\ \A k \in t : k <= Max(t)
    BY <1>1, GreatestUpTo
  <1>3. Max(t) \in 1 .. n
    BY <1>2
  <1>4. ASSUME NEW k \in Rest(t) PROVE k \in 1 .. Max(t) - 1
    BY <1>2, <1>3 DEF Rest
  <1> QED BY <1>3, <1>4 DEF Rest

\* Of the first k indices, k goes first.
LEMMA RestOfFirst ==
  ASSUME NEW k \in Nat, k > 0
  PROVE  Max(1 .. k) = k /\ Rest(1 .. k) = 1 .. k - 1 /\ 1 .. k # {}
  <1>1. (1 .. k) \in SUBSET (0 .. k) /\ 1 .. k # {}
    OBVIOUS
  <1>2. Max(1 .. k) \in 1 .. k /\ \A j \in 1 .. k : j <= Max(1 .. k)
    BY <1>1, GreatestUpTo
  <1>3. Max(1 .. k) = k
    BY <1>2
  <1>4. (1 .. k) \ {k} = 1 .. k - 1
    OBVIOUS
  <1> QED BY <1>1, <1>3, <1>4 DEF Rest

\* The recursion of a fold has a solution, and it stays where the steps stay.
LEMMA FoldExists ==
  ASSUME NEW n \in Nat, NEW A, NEW base \in A, NEW F \in [1 .. n -> [A -> A]]
  PROVE  \E g \in [SUBSET (1 .. n) -> A] : FoldsBy(g, n, base, F)
  <1> DEFINE Solved(k) ==
                \E g \in [SUBSET (1 .. k) -> A] : FoldsBy(g, k, base, F)
             P == {k \in 0 .. n : Solved(k)}
  <1>1. Solved(0)
    <2> DEFINE g == [t \in SUBSET (1 .. 0) |-> base]
    <2>1. \A t \in SUBSET (1 .. 0) : t = {}
      OBVIOUS
    <2>2. FoldsBy(g, 0, base, F)
      BY <2>1 DEF FoldsBy
    <2> QED BY <2>2
  <1>2. ASSUME NEW k \in 0 .. n - 1, Solved(k) PROVE Solved(k + 1)
    <2>1. PICK g \in [SUBSET (1 .. k) -> A] : FoldsBy(g, k, base, F)
      BY <1>2
    <2> DEFINE h == [t \in SUBSET (1 .. k + 1) |->
                       IF t = {} THEN base ELSE F[Max(t)][g[Rest(t)]]]
    <2>2. ASSUME NEW t \in SUBSET (1 .. k + 1), t # {}
          PROVE  Max(t) \in 1 .. n /\ Rest(t) \in SUBSET (1 .. k)
      <3>1. Max(t) \in 1 .. k + 1 /\ Rest(t) \in SUBSET (1 .. Max(t) - 1)
        BY <2>2, RestUpTo
      <3> QED BY <3>1
    <2>3. h \in [SUBSET (1 .. k + 1) -> A]
      <3>1. ASSUME NEW t \in SUBSET (1 .. k + 1), t # {}
            PROVE  F[Max(t)][g[Rest(t)]] \in A
        <4>1. F[Max(t)] \in [A -> A] /\ g[Rest(t)] \in A
          BY <2>2, <3>1
        <4> QED BY <4>1
      <3> QED BY <3>1
    <2>4. ASSUME NEW t \in SUBSET (1 .. k) PROVE h[t] = g[t]
      <3>1. t \in SUBSET (1 .. k + 1)
        OBVIOUS
      <3>2. g[t] = IF t = {} THEN base ELSE F[Max(t)][g[Rest(t)]]
        BY <2>1 DEF FoldsBy
      <3> QED BY <3>1, <3>2
    <2>5. FoldsBy(h, k + 1, base, F)
      <3>1. \A t \in SUBSET (1 .. k + 1) : t # {} => h[Rest(t)] = g[Rest(t)]
        BY <2>2, <2>4
      <3> QED BY <3>1 DEF FoldsBy
    <2> HIDE DEF h
    <2> QED BY <2>3, <2>5
  <1>3. n \in P
    <2> HIDE DEF Solved
    <2>1. 0 \in P /\ \A k \in 0 .. n - 1 : k \in P => k + 1 \in P
      BY <1>1, <1>2
    <2> HIDE DEF P
    <2>2. \A k \in 0 .. n : k \in P
      BY <2>1, Climb
    <2> QED BY <2>2
  <1> QED BY <1>3

-----------------------------------------------------------------------------
(* States of the poller.                                                   *)

\* States whose rows are blocks of the chain, one per height.
States ==
    {s \in State :
        /\ IsFiniteSet(s.history)
        /\ \A r \in s.history : r.height \in 1 .. Len(chain)
        /\ \A q, r \in s.history : q.height = r.height => q = r}

\* The counters a state remembers and how far it scanned.
Marks(s) == <<s.runtime, s.lastupdate, s.blocks, s.scanned>>

\* The rows and the waiting events of worker w.
RowsOf(H, w) == {r \in H : r.worker = w}
WaitingOf(q, w) == {i \in DOMAIN q : q[i].worker = w}

\* One if the event is w's.
One(e, w) == IF e.worker = w THEN 1 ELSE 0

LEMMA NamedIs ==
  ASSUME NEW s, NEW w
  PROVE  Named(s, w) = Cardinality(RowsOf(s.history, w))
                        + Cardinality(WaitingOf(s.pending, w))
  BY DEF Named, RowsOf, WaitingOf

\* A queue holds finitely many events of a worker.
LEMMA WaitingType ==
  ASSUME NEW q \in Seq(Event), NEW w
  PROVE  /\ IsFiniteSet(WaitingOf(q, w))
         /\ Cardinality(WaitingOf(q, w)) \in Nat
  <1>1. WaitingOf(q, w) \in SUBSET (1 .. Len(q)) /\ Len(q) \in Nat
    BY DEF WaitingOf
  <1>2. IsFiniteSet(1 .. Len(q))
    BY <1>1, FS_Interval
  <1> QED BY <1>1, <1>2, FS_Subset, FS_CardinalityType

\* What is counted is finite.
LEMMA CountsType ==
  ASSUME NEW s \in States, NEW w
  PROVE  /\ IsFiniteSet(RowsOf(s.history, w)) /\ Cardinality(RowsOf(s.history, w)) \in Nat
         /\ IsFiniteSet(WaitingOf(s.pending, w))
         /\ Cardinality(WaitingOf(s.pending, w)) \in Nat
         /\ Named(s, w) \in Nat
  <1>1. IsFiniteSet(s.history) /\ RowsOf(s.history, w) \in SUBSET s.history
    BY DEF States, RowsOf
  <1>2. IsFiniteSet(RowsOf(s.history, w))
    BY <1>1, FS_Subset
  <1>3. s.pending \in Seq(Event)
    BY DEF States, State
  <1>6. /\ IsFiniteSet(WaitingOf(s.pending, w))
        /\ Cardinality(WaitingOf(s.pending, w)) \in Nat
    BY <1>3, WaitingType
  <1>7. Cardinality(RowsOf(s.history, w)) \in Nat
        /\ Cardinality(WaitingOf(s.pending, w)) \in Nat
    BY <1>2, <1>6, FS_CardinalityType
  <1> QED BY <1>2, <1>6, <1>7, NamedIs

\* One element more is one more at most.
LEMMA OneMore ==
  ASSUME NEW S, IsFiniteSet(S), NEW x
  PROVE  /\ IsFiniteSet(S \cup {x})
         /\ Cardinality(S) \in Nat /\ Cardinality(S \cup {x}) \in Nat
         /\ Cardinality(S \cup {x}) <= Cardinality(S) + 1
  <1>1. IsFiniteSet(S \cup {x}) /\ Cardinality(S) \in Nat
        /\ Cardinality(S \cup {x}) \in Nat
    BY FS_AddElement, FS_CardinalityType
  <1>2. CASE x \in S
    <2>1. Cardinality(S \cup {x}) = Cardinality(S)
      BY <1>2, FS_AddElement
    <2> QED BY <1>1, <2>1
  <1>3. CASE x \notin S
    <2>1. Cardinality(S \cup {x}) = Cardinality(S) + 1
      BY <1>3, FS_AddElement
    <2> QED BY <1>1, <2>1
  <1> QED BY <1>2, <1>3

\* One more event waits.
LEMMA WaitsAppend ==
  ASSUME NEW q \in Seq(Event), NEW e \in Event, NEW w
  PROVE  Cardinality(WaitingOf(Append(q, e), w))
            <= Cardinality(WaitingOf(q, w)) + One(e, w)
  <1> DEFINE n == Len(q) + 1
  <1>1. /\ Len(q) \in Nat /\ DOMAIN q = 1 .. Len(q)
        /\ DOMAIN Append(q, e) = 1 .. n
        /\ \A i \in 1 .. Len(q) : Append(q, e)[i] = q[i]
        /\ Append(q, e)[n] = e
    OBVIOUS
  <1>2. IsFiniteSet(WaitingOf(q, w)) /\ Cardinality(WaitingOf(q, w)) \in Nat
    BY WaitingType
  <1>3. CASE e.worker = w
    <2>1. WaitingOf(Append(q, e), w) = WaitingOf(q, w) \cup {n}
      BY <1>1, <1>3 DEF WaitingOf
    <2>2. Cardinality(WaitingOf(q, w) \cup {n})
             <= Cardinality(WaitingOf(q, w)) + 1
      BY <1>2, OneMore
    <2> QED BY <1>3, <2>1, <2>2 DEF One
  <1>4. CASE e.worker # w
    <2>1. WaitingOf(Append(q, e), w) = WaitingOf(q, w)
      BY <1>1, <1>4 DEF WaitingOf
    <2> QED BY <1>2, <1>4, <2>1 DEF One
  <1> QED BY <1>3, <1>4

\* The first event waits no longer.
LEMMA WaitsTail ==
  ASSUME NEW q \in Seq(Event), q # <<>>, NEW w
  PROVE  Cardinality(WaitingOf(Tail(q), w)) + One(Head(q), w)
            <= Cardinality(WaitingOf(q, w))
  <1> DEFINE T == WaitingOf(Tail(q), w)
             S == WaitingOf(q, w)
             f == [i \in T |-> i + 1]
  <1>1. /\ Len(q) \in Nat /\ Len(q) > 0 /\ DOMAIN q = 1 .. Len(q)
        /\ DOMAIN Tail(q) = 1 .. Len(q) - 1
        /\ \A i \in 1 .. Len(q) - 1 : Tail(q)[i] = q[i + 1]
        /\ Head(q) = q[1]
    OBVIOUS
  <1>2. IsFiniteSet(S) /\ Cardinality(S) \in Nat
    BY WaitingType
  <1>3. IsFiniteSet(S \ {1})
        /\ Cardinality(S \ {1}) = Cardinality(S) - One(Head(q), w)
    <2>1. 1 \in S <=> Head(q).worker = w
      BY <1>1 DEF WaitingOf
    <2> HIDE DEF S
    <2> QED BY <1>2, <2>1, FS_RemoveElement DEF One
  <1>4. f \in Injection(T, S \ {1})
    <2>1. \A i \in T : i \in Nat /\ i + 1 \in S \ {1}
      BY <1>1 DEF WaitingOf
    <2> HIDE DEF S, T
    <2>2. f \in [T -> S \ {1}]
      BY <2>1
    <2>3. IsInjective(f)
      BY <2>1 DEF IsInjective
    <2> QED BY <2>2, <2>3 DEF Injection
  <1>5. Cardinality(T) <= Cardinality(S \ {1}) /\ IsFiniteSet(T)
    <2> HIDE DEF f, S, T
    <2> QED BY <1>3, <1>4, FS_Injection
  <1>6. Cardinality(T) \in Nat /\ One(Head(q), w) \in Nat
    BY <1>5, FS_CardinalityType DEF One
  <1> SUFFICES Cardinality(T) + One(Head(q), w) <= Cardinality(S)
    OBVIOUS
  <1> HIDE DEF S, T
  <1>7. Cardinality(T) <= Cardinality(S) - One(Head(q), w)
    BY <1>3, <1>5
  <1> QED BY <1>2, <1>6, <1>7

\* One more row.
LEMMA RowsAdd ==
  ASSUME NEW H, NEW r, NEW K \in SUBSET H, NEW w, IsFiniteSet(H)
  PROVE  Cardinality(RowsOf(K \cup {r}, w))
            <= Cardinality(RowsOf(H, w)) + One(r, w)
  <1> DEFINE h == RowsOf(H, w)
             k == RowsOf(K, w)
             n == RowsOf(K \cup {r}, w)
  <1>1. h \in SUBSET H /\ k \in SUBSET h
    BY DEF RowsOf
  <1>2. IsFiniteSet(h) /\ IsFiniteSet(k)
    BY <1>1, FS_Subset
  <1>3. /\ Cardinality(k) <= Cardinality(h)
        /\ Cardinality(k) \in Nat /\ Cardinality(h) \in Nat
    BY <1>1, <1>2, FS_Subset, FS_CardinalityType
  <1>4. CASE r.worker = w
    <2>1. n = k \cup {r}
      BY <1>4 DEF RowsOf
    <2> HIDE DEF h, k, n
    <2>2. Cardinality(n) <= Cardinality(k) + 1 /\ Cardinality(n) \in Nat
      BY <1>2, <2>1, OneMore
    <2>3. Cardinality(n) <= Cardinality(h) + One(r, w)
      BY <1>3, <1>4, <2>2 DEF One
    <2> QED BY <2>3 DEF h, n
  <1>5. CASE r.worker # w
    <2>1. n = k
      BY <1>5 DEF RowsOf
    <2> HIDE DEF h, k, n
    <2>2. Cardinality(n) <= Cardinality(h) + One(r, w)
      BY <1>3, <1>5, <2>1 DEF One
    <2> QED BY <2>2 DEF h, n
  <1> QED BY <1>4, <1>5

-----------------------------------------------------------------------------
(* An event and a height.                                                  *)

\* The block an event names is one it may name.
LEMMA MatchIn ==
  ASSUME NEW s \in States, NEW e \in Event, Confirmed(s.history, e) # {},
         chain \in Seq(Worker \cup {Other})
  PROVE  /\ Match(s.history, e) \in s.history
         /\ Match(s.history, e).worker = Anonymous
  <1> DEFINE C == Confirmed(s.history, e)
             far(r) == Distance(r.found_at, e.found_at)
             fars == {far(r) : r \in C}
  <1>1. C \subseteq s.history /\ \A r \in C : r.worker = Anonymous
    BY DEF Confirmed
  <1>2. /\ s.history \in SUBSET Entry /\ Len(chain) \in Nat
        /\ e.found_at \in Nat
        /\ \A r \in s.history : r.height \in 1 .. Len(chain)
    BY DEF States, State, Event
  <1>3. \A r \in C : far(r) \in Nat
    BY <1>1, <1>2 DEF Distance, Entry
  <1> HIDE DEF C, far
  <1>4. PICK d \in fars : \A f \in fars : d <= f
    <2>1. fars \subseteq Nat /\ fars # {}
      BY <1>3 DEF C
    <2> HIDE DEF fars
    <2> QED BY <2>1, LeastNumber
  <1> DEFINE near == {r \in C : far(r) = d}
             low(r) == Len(chain) - r.height
             lows == {low(r) : r \in near}
  <1>5. PICK l \in lows : \A m \in lows : l <= m
    <2>1. \A r \in near : low(r) \in Nat
      BY <1>1, <1>2
    <2>2. lows \subseteq Nat /\ lows # {}
      BY <1>4, <2>1
    <2> HIDE DEF lows
    <2> QED BY <2>2, LeastNumber
  <1>6. PICK r \in near : l = low(r)
    OBVIOUS
  <1>7. ASSUME NEW q \in C
        PROVE  far(r) < far(q) \/ (far(r) = far(q) /\ r.height >= q.height)
    <2>1. far(q) \in Nat /\ far(r) \in Nat /\ far(r) <= far(q)
      BY <1>3, <1>4
    <2>2. far(r) = far(q) => low(r) <= low(q)
      BY <1>5, <1>6
    <2>3. r.height \in 1 .. Len(chain) /\ q.height \in 1 .. Len(chain)
      BY <1>1, <1>2
    <2> QED BY <1>2, <2>1, <2>2, <2>3
  <1>8. Match(s.history, e) \in C
    BY <1>7 DEF Match, C, far
  <1> QED BY <1>1, <1>8

\* An event is kept, and moves neither counters nor heights.
LEMMA AttributeKeeps ==
  ASSUME NEW s \in States, NEW e \in Event, chain \in Seq(Worker \cup {Other})
  PROVE  LET t == Attribute(s, e)
         IN  /\ t \in States
             /\ Marks(t) = Marks(s)
             /\ \A h : Known(t, h) <=> Known(s, h)
             /\ \A w \in Worker : Named(t, w) <= Named(s, w) + One(e, w)
  <1> DEFINE t == Attribute(s, e)
  <1>1. /\ s \in State /\ s.history \in SUBSET Entry
        /\ s.pending \in Seq(Event)
        /\ IsFiniteSet(s.history)
        /\ \A r \in s.history : r.height \in 1 .. Len(chain)
        /\ \A q, r \in s.history : q.height = r.height => q = r
        /\ e.worker \in Worker /\ e.found_at \in Nat
    BY DEF States, State, Event
  <1>2. CASE Confirmed(s.history, e) = {}
    <2> DEFINE p == Append(s.pending, e)
    <2>0. p \in Seq(Event)
      BY <1>1
    <2>1. t = [s EXCEPT !.pending = p]
      BY <1>2 DEF Attribute
    <2> HIDE DEF t, p
    <2>2. /\ t \in State /\ t.history = s.history /\ Marks(t) = Marks(s)
          /\ t.pending = p
      BY <1>1, <2>0, <2>1 DEF State, Marks
    <2>3. t \in States
      BY <1>1, <2>2 DEF States
    <2>4. ASSUME NEW w \in Worker PROVE Named(t, w) <= Named(s, w) + One(e, w)
      <3>1. RowsOf(t.history, w) = RowsOf(s.history, w)
        BY <2>2 DEF RowsOf
      <3>2. Cardinality(WaitingOf(t.pending, w))
              <= Cardinality(WaitingOf(s.pending, w)) + One(e, w)
        BY <1>1, <2>2, WaitsAppend DEF p
      <3>3. One(e, w) \in Nat
        BY DEF One
      <3> QED BY <2>3, <3>1, <3>2, <3>3, NamedIs, CountsType
    <2> QED BY <2>2, <2>3, <2>4 DEF Known, t
  <1>3. CASE Confirmed(s.history, e) # {}
    <2> DEFINE r == Match(s.history, e)
               q == [r EXCEPT !.worker = e.worker, !.found_at = e.found_at]
    <2>1. r \in s.history
      BY <1>3, MatchIn
    <2>2. t = [s EXCEPT !.history = (s.history \ {r}) \cup {q}]
      BY <1>3 DEF Attribute
    <2> HIDE DEF r, t
    <2>3. q \in Entry /\ q.height = r.height /\ q.worker = e.worker
      BY <1>1, <2>1 DEF Entry
    <2> HIDE DEF q
    <2>4. /\ t \in State /\ t.history = (s.history \ {r}) \cup {q}
          /\ Marks(t) = Marks(s) /\ t.pending = s.pending
      BY <1>1, <2>2, <2>3 DEF State, Marks
    <2>5. IsFiniteSet(t.history)
      <3>1. IsFiniteSet(s.history \ {r})
        BY <1>1, FS_RemoveElement
      <3>2. IsFiniteSet((s.history \ {r}) \cup {q})
        BY <3>1, FS_AddElement
      <3> QED BY <2>4, <3>2
    <2>6. /\ \A x \in t.history : x.height \in 1 .. Len(chain)
          /\ \A x, y \in t.history : x.height = y.height => x = y
      BY <1>1, <2>1, <2>3, <2>4
    <2>7. t \in States
      BY <2>4, <2>5, <2>6 DEF States
    <2>8. ASSUME NEW w \in Worker PROVE Named(t, w) <= Named(s, w) + One(e, w)
      <3>1. (s.history \ {r}) \in SUBSET s.history
        OBVIOUS
      <3>2. One(q, w) = One(e, w)
        BY <2>3 DEF One
      <3>3. Cardinality(RowsOf(t.history, w))
              <= Cardinality(RowsOf(s.history, w)) + One(e, w)
        BY <1>1, <2>4, <3>1, <3>2, RowsAdd
      <3>4. One(e, w) \in Nat
        BY DEF One
      <3>5. WaitingOf(t.pending, w) = WaitingOf(s.pending, w)
        BY <2>4
      <3>6. /\ Cardinality(RowsOf(t.history, w)) \in Nat
            /\ Cardinality(RowsOf(s.history, w)) \in Nat
            /\ Cardinality(WaitingOf(s.pending, w)) \in Nat
        BY <2>7, CountsType
      <3> QED BY <3>3, <3>4, <3>5, <3>6, NamedIs
    <2>9. \A h : Known(t, h) <=> Known(s, h)
      BY <2>1, <2>3, <2>4 DEF Known
    <2> QED BY <2>4, <2>7, <2>8, <2>9 DEF t
  <1> QED BY <1>2, <1>3

\* A height that is read is known if it pays the app, and nobody gains a name.
LEMMA ScanHeightKeeps ==
  ASSUME NEW s \in States, NEW height \in 1 .. Len(chain),
         chain \in Seq(Worker \cup {Other}), clock \in Nat
  PROVE  LET t == ScanHeight(s, height)
         IN  /\ t \in States
             /\ Marks(t) = Marks(s)
             /\ \A h : Known(s, h) => Known(t, h)
             /\ chain[height] \in Worker => Known(t, height)
             /\ \A h : Known(t, h) =>
                   Known(s, h) \/ (h = height /\ chain[h] \in Worker)
             /\ \A w \in Worker : Named(t, w) <= Named(s, w)
  <1> DEFINE t == ScanHeight(s, height)
             Goal == /\ t \in States
                     /\ Marks(t) = Marks(s)
                     /\ \A h : Known(s, h) => Known(t, h)
                     /\ chain[height] \in Worker => Known(t, height)
                     /\ \A h : Known(t, h) =>
                           Known(s, h) \/ (h = height /\ chain[h] \in Worker)
                     /\ \A w \in Worker : Named(t, w) <= Named(s, w)
  <1>1. /\ s \in State /\ s.history \in SUBSET Entry
        /\ s.pending \in Seq(Event)
        /\ IsFiniteSet(s.history)
        /\ \A r \in s.history : r.height \in 1 .. Len(chain)
        /\ \A q, r \in s.history : q.height = r.height => q = r
        /\ Len(chain) \in Nat /\ height \in Nat
    BY DEF States, State
  <1>2. CASE chain[height] = Other \/ Known(s, height)
    <2>1. t = s
      BY <1>2 DEF ScanHeight
    <2>2. \A w : Named(s, w) \in Nat
      BY CountsType
    <2> HIDE DEF t
    <2>3. Goal
      BY <1>2, <2>1, <2>2, NamesAssumption DEF Known
    <2> QED BY <2>3 DEF t
  <1>3. ASSUME chain[height] # Other, ~Known(s, height),
               NEW row \in Entry, row.height = height,
               NEW rest \in Seq(Event),
               t = [s EXCEPT !.pending = rest,
                             !.history = s.history \cup {row}],
               \A w \in Worker :
                  Cardinality(WaitingOf(rest, w)) + One(row, w)
                    <= Cardinality(WaitingOf(s.pending, w))
        PROVE  Goal
    <2> HIDE DEF t
    <2>1. /\ t \in State /\ t.history = s.history \cup {row}
          /\ t.pending = rest /\ Marks(t) = Marks(s)
      BY <1>1, <1>3 DEF State, Marks
    <2>2. IsFiniteSet(t.history)
      <3>1. IsFiniteSet(s.history \cup {row})
        BY <1>1, FS_AddElement
      <3> QED BY <2>1, <3>1
    <2>3. /\ \A x \in t.history : x.height \in 1 .. Len(chain)
          /\ \A x, y \in t.history : x.height = y.height => x = y
      BY <1>1, <1>3, <2>1 DEF Known
    <2>4. t \in States
      BY <2>1, <2>2, <2>3 DEF States
    <2>5. ASSUME NEW w \in Worker PROVE Named(t, w) <= Named(s, w)
      <3>1. s.history \in SUBSET s.history
        OBVIOUS
      <3>3. Cardinality(RowsOf(t.history, w))
              <= Cardinality(RowsOf(s.history, w)) + One(row, w)
        BY <1>1, <2>1, <3>1, RowsAdd
      <3>4. One(row, w) \in Nat
        BY DEF One
      <3>5. Cardinality(WaitingOf(t.pending, w)) + One(row, w)
              <= Cardinality(WaitingOf(s.pending, w))
        BY <1>3, <2>1
      <3> QED BY <2>4, <3>3, <3>4, <3>5, NamedIs, CountsType
    <2>6. /\ \A h : Known(s, h) => Known(t, h)
          /\ Known(t, height)
          /\ \A h : Known(t, h) => Known(s, h) \/ h = height
      BY <1>3, <2>1 DEF Known
    <2>7. chain[height] \in Worker
      BY <1>3
    <2> QED BY <2>1, <2>4, <2>5, <2>6, <2>7
  <1>4. CASE ~(chain[height] = Other \/ Known(s, height)) /\ s.pending = <<>>
    <2> DEFINE row == [height |-> height, worker |-> Anonymous,
                       found_at |-> clock]
    <2>1. /\ row \in Entry /\ row.height = height /\ row.worker = Anonymous
          /\ <<>> \in Seq(Event)
      BY <1>1 DEF Entry
    <2>2. t = [s EXCEPT !.history = s.history \cup {row}]
      BY <1>4 DEF ScanHeight
    <2>3. t = [s EXCEPT !.pending = <<>>, !.history = s.history \cup {row}]
      BY <1>1, <1>4, <2>2 DEF State
    <2> HIDE DEF row, t
    <2>4. ASSUME NEW w \in Worker
          PROVE  Cardinality(WaitingOf(<<>>, w)) + One(row, w)
                   <= Cardinality(WaitingOf(s.pending, w))
      <3>1. One(row, w) = 0
        BY <2>1, NamesAssumption DEF One
      <3>2. Cardinality(WaitingOf(s.pending, w)) \in Nat
        BY CountsType
      <3> QED BY <1>4, <3>1, <3>2
    <2>5. Goal
      BY <1>3, <1>4, <2>1, <2>3, <2>4
    <2> QED BY <2>5 DEF t
  <1>5. CASE ~(chain[height] = Other \/ Known(s, height)) /\ s.pending # <<>>
    <2> DEFINE row == [height |-> height, worker |-> Head(s.pending).worker,
                       found_at |-> Head(s.pending).found_at]
    <2>1. Head(s.pending) \in Event /\ Tail(s.pending) \in Seq(Event)
      BY <1>1, <1>5
    <2>2. /\ row \in Entry /\ row.height = height
          /\ row.worker = Head(s.pending).worker
      BY <1>1, <2>1 DEF Entry, Event
    <2>3. t = [s EXCEPT !.pending = Tail(s.pending),
                        !.history = s.history \cup {row}]
      BY <1>5 DEF ScanHeight
    <2> HIDE DEF row, t
    <2>4. ASSUME NEW w \in Worker
          PROVE  Cardinality(WaitingOf(Tail(s.pending), w)) + One(row, w)
                   <= Cardinality(WaitingOf(s.pending, w))
      <3>1. One(row, w) = One(Head(s.pending), w)
        BY <2>2 DEF One
      <3> QED BY <1>1, <1>5, <3>1, WaitsTail
    <2>5. Goal
      BY <1>3, <1>5, <2>1, <2>2, <2>3, <2>4
    <2> QED BY <2>5 DEF t
  <1> QED BY <1>2, <1>4, <1>5

-----------------------------------------------------------------------------
(* The scan, height by height.                                             *)

\* A read passes through states, from its start to what it returns.
LEMMA ReadPath ==
  ASSUME NEW s \in States, chain \in Seq(Worker \cup {Other}), clock \in Nat,
         ScanStart(s) \in Nat, ScanStart(s) >= 1,
         NEW last \in (ScanStart(s) - 1) .. Len(chain)
  PROVE  LET n == last - ScanStart(s) + 1
         IN  \E path \in [0 .. n -> States] :
                /\ path[0] = s /\ path[n] = Read(s, last)
                /\ \A i \in 1 .. n :
                      path[i] = ScanHeight(path[i - 1], ScanStart(s) + i - 1)
  <1> DEFINE start == ScanStart(s)
             n == last - start + 1
             seq == [i \in 1 .. n |-> start + i - 1]
             F == [i \in 1 .. n |-> [x \in States |-> ScanHeight(x, seq[i])]]
             It(h) == h = [t \in SUBSET DOMAIN seq |->
                             IF t = {} THEN s
                             ELSE ScanHeight(h[t \ {Max(t)}], seq[Max(t)])]
             it == CHOOSE h : It(h)
  <1>1. /\ Len(chain) \in Nat /\ n \in Nat
        /\ DOMAIN seq = 1 .. n
        /\ \A i \in 1 .. n : seq[i] = start + i - 1
                             /\ seq[i] \in 1 .. Len(chain)
    <2>1. Len(chain) \in Nat
      OBVIOUS
    <2> HIDE DEF start
    <2> QED BY <2>1 DEF start
  <1> HIDE DEF n, seq
  <1>2. F \in [1 .. n -> [States -> States]]
    <2>1. \A i \in 1 .. n, x \in States : ScanHeight(x, seq[i]) \in States
      BY <1>1, ScanHeightKeeps
    <2> QED BY <2>1
  <1>3. PICK g \in [SUBSET (1 .. n) -> States] : FoldsBy(g, n, s, F)
    <2> HIDE DEF F
    <2> QED BY <1>1, <1>2, FoldExists
  <1>4. It(g)
    <2>1. ASSUME NEW t \in SUBSET (1 .. n), t # {}
          PROVE  F[Max(t)][g[Rest(t)]] = ScanHeight(g[t \ {Max(t)}], seq[Max(t)])
      <3>1. Max(t) \in 1 .. n /\ Rest(t) \in SUBSET (1 .. n)
        BY <1>1, <2>1, RestUpTo
      <3> QED BY <1>3, <3>1 DEF Rest
    <2>2. g = [t \in SUBSET (1 .. n) |->
                 IF t = {} THEN s ELSE F[Max(t)][g[Rest(t)]]]
      BY <1>3 DEF FoldsBy
    <2> HIDE DEF F
    <2> QED BY <1>1, <2>1, <2>2
  <1>5. It(it)
    <2> HIDE DEF It
    <2> QED BY <1>4
  <1>6. Read(s, last) = it[1 .. n]
    <2>1. Read(s, last) = FoldLeft(ScanHeight, s, seq)
      BY DEF Read, seq, n
    <2>2. FoldLeft(ScanHeight, s, seq) = it[DOMAIN seq]
      BY DEF FoldLeft, MapThenFoldSet
    <2> QED BY <1>1, <2>1, <2>2
  <1> DEFINE path == [k \in 0 .. n |-> it[1 .. k]]
  <1> HIDE DEF it
  <1>7. path[0] = s
    <2>1. it[{}] = s
      BY <1>5
    <2> QED BY <1>1, <2>1
  <1>8. ASSUME NEW k \in 1 .. n
        PROVE  path[k] = ScanHeight(path[k - 1], start + k - 1)
    <2>1. /\ Max(1 .. k) = k /\ (1 .. k) \ {Max(1 .. k)} = 1 .. k - 1
          /\ 1 .. k # {}
      BY RestOfFirst DEF Rest
    <2>2. (1 .. k) \in SUBSET DOMAIN seq
      BY <1>1
    <2>3. it[1 .. k] = ScanHeight(it[1 .. k - 1], seq[k])
      BY <1>5, <2>1, <2>2
    <2>4. k - 1 \in 0 .. n /\ k \in 0 .. n
      BY <1>1
    <2> QED BY <1>1, <2>3, <2>4
  <1>9. \A k \in 0 .. n : path[k] \in States
    <2> DEFINE P == {k \in 0 .. n : path[k] \in States}
    <2>1. 0 \in P
      BY <1>1, <1>7
    <2>2. ASSUME NEW k \in 0 .. n - 1, k \in P PROVE k + 1 \in P
      <3>1. k + 1 \in 1 .. n /\ (k + 1) - 1 = k /\ k + 1 \in 0 .. n
        BY <1>1
      <3>2. path[k + 1] = ScanHeight(path[k], seq[k + 1])
        BY <1>1, <1>8, <3>1
      <3>3. path[k] \in States /\ seq[k + 1] \in 1 .. Len(chain)
        BY <1>1, <2>2, <3>1
      <3> HIDE DEF path
      <3> QED BY <3>1, <3>2, <3>3, ScanHeightKeeps
    <2> HIDE DEF P
    <2>3. \A k \in 0 .. n : k \in P
      BY <1>1, <2>1, <2>2, Climb
    <2> QED BY <2>3 DEF P
  <1>10. path \in [0 .. n -> States] /\ path[n] = Read(s, last)
    BY <1>1, <1>6, <1>9
  <1> HIDE DEF path
  <1>11. \E p \in [0 .. n -> States] :
            /\ p[0] = s /\ p[n] = Read(s, last)
            /\ \A i \in 1 .. n : p[i] = ScanHeight(p[i - 1], start + i - 1)
    BY <1>7, <1>8, <1>10
  <1> QED BY <1>11 DEF n

-----------------------------------------------------------------------------
(* The events of a poll, and what they change.                             *)

\* Counters that were read start again, or go on from what a state knows.
StartsAgain(s, c) ==
    s.runtime < 0 \/ c.runtime < s.runtime \/ c.lastupdate < s.lastupdate

\* The blocks of worker w that counters c have and a state has not.
Gain(s, c, w) ==
    LET d == c.blocks[w] - (IF StartsAgain(s, c) THEN 0 ELSE s.blocks[w])
    IN  IF d <= 0 THEN 0 ELSE d

LEMMA GainType ==
  ASSUME NEW s, NEW c, NEW w \in Worker, s.blocks \in Counts, c.blocks \in Counts
  PROVE  Gain(s, c, w) \in Nat
  <1>1. s.blocks[w] \in Nat /\ c.blocks[w] \in Nat
    BY DEF Counts
  <1> QED BY <1>1 DEF Gain

\* A worker's new blocks are events of its own.
LEMMA NewBlocksAre ==
  ASSUME NEW s \in State, status \in Status, NEW w \in Worker
  PROVE  /\ NewBlocks(s, w) \in Seq(Event)
         /\ Len(NewBlocks(s, w)) = Gain(s, status, w)
         /\ \A i \in 1 .. Len(NewBlocks(s, w)) : NewBlocks(s, w)[i].worker = w
  <1> DEFINE count == status.blocks[w]
                        - (IF Reset(s) THEN 0 ELSE s.blocks[w])
             e == [worker |-> w, found_at |-> status.lastupdate]
             q == [i \in 1 .. count |-> e]
  <1>1. /\ s.blocks[w] \in Nat /\ status.blocks[w] \in Nat
        /\ e \in Event /\ e.worker = w
    BY DEF State, Status, Counts, Event
  <1>2. count \in Int
    BY <1>1
  <1>3. Reset(s) <=> StartsAgain(s, status)
    BY DEF Reset, StartsAgain
  <1>4. Gain(s, status, w) = IF count <= 0 THEN 0 ELSE count
    BY <1>3 DEF Gain
  <1>5. NewBlocks(s, w) = IF count <= 0 THEN <<>> ELSE q
    BY DEF NewBlocks
  <1> HIDE DEF count, e
  <1>6. CASE count <= 0
    BY <1>4, <1>5, <1>6
  <1>7. CASE ~(count <= 0)
    <2>1. q \in Seq(Event) /\ Len(q) = count
          /\ \A i \in 1 .. Len(q) : q[i].worker = w
      BY <1>1, <1>2, <1>7
    <2> QED BY <1>4, <1>5, <1>7, <2>1
  <1> QED BY <1>6, <1>7

\* Events of one worker behind others.
LEMMA WaitsConcat ==
  ASSUME NEW q \in Seq(Event), NEW r \in Seq(Event), NEW v,
         \A i \in 1 .. Len(r) : r[i].worker = v, NEW w
  PROVE  Cardinality(WaitingOf(q \o r, w))
            <= Cardinality(WaitingOf(q, w)) + (IF v = w THEN Len(r) ELSE 0)
  <1> DEFINE behind == Len(q) + 1 .. Len(q) + Len(r)
             S == WaitingOf(q, w)
             T == WaitingOf(q \o r, w)
  <1>1. /\ Len(q) \in Nat /\ Len(r) \in Nat
        /\ DOMAIN q = 1 .. Len(q)
        /\ DOMAIN (q \o r) = 1 .. Len(q) + Len(r)
        /\ \A i \in 1 .. Len(q) : (q \o r)[i] = q[i]
        /\ \A i \in behind : /\ i - Len(q) \in 1 .. Len(r)
                             /\ (q \o r)[i] = r[i - Len(q)]
    OBVIOUS
  <1>2. IsFiniteSet(S) /\ Cardinality(S) \in Nat
    BY WaitingType
  <1>3. CASE v = w
    <2>1. T \in SUBSET (S \cup behind)
      BY <1>1 DEF WaitingOf
    <2>2. IsFiniteSet(behind) /\ Cardinality(behind) = Len(r)
      <3>1. \A a, b \in Int : IsFiniteSet(a .. b) /\
               Cardinality(a .. b) = IF a > b THEN 0 ELSE b - a + 1
        BY FS_Interval
      <3> DEFINE a == Len(q) + 1
                 b == Len(q) + Len(r)
      <3>2. /\ a \in Int /\ b \in Int
            /\ (IF a > b THEN 0 ELSE b - a + 1) = Len(r)
        BY <1>1
      <3> HIDE DEF a, b
      <3>3. IsFiniteSet(a .. b) /\ Cardinality(a .. b) = Len(r)
        BY <3>1, <3>2
      <3> QED BY <3>3 DEF a, b
    <2> HIDE DEF S, T, behind
    <2>3. /\ IsFiniteSet(S \cup behind)
          /\ Cardinality(S \cup behind)
               = Cardinality(S) + Len(r) - Cardinality(S \cap behind)
      BY <1>2, <2>2, FS_Union
    <2>4. Cardinality(S \cap behind) \in Nat
      BY <1>2, FS_Intersection, FS_CardinalityType
    <2>5. IsFiniteSet(T) /\ Cardinality(T) <= Cardinality(S \cup behind)
      BY <2>1, <2>3, FS_Subset
    <2>6. Cardinality(T) \in Nat
      BY <2>5, FS_CardinalityType
    <2>7. Cardinality(T) <= Cardinality(S) + Len(r)
      BY <1>1, <1>2, <2>3, <2>4, <2>5, <2>6
    <2> QED BY <1>3, <2>7 DEF S, T
  <1>4. CASE v # w
    <2>1. T = S
      BY <1>1, <1>4 DEF WaitingOf
    <2> HIDE DEF S, T
    <2>2. Cardinality(T) <= Cardinality(S) + 0
      BY <1>2, <2>1
    <2> QED BY <1>4, <2>2 DEF S, T
  <1> QED BY <1>3, <1>4

\* The workers in a row, each once.
LEMMA WorkersOnce ==
  /\ Cardinality(Worker) \in Nat
  /\ SetToSeq(Worker) \in [1 .. Cardinality(Worker) -> Worker]
  /\ \A i, j \in 1 .. Cardinality(Worker) :
        SetToSeq(Worker)[i] = SetToSeq(Worker)[j] => i = j
  <1>1. /\ Cardinality(Worker) \in Nat
        /\ ExistsBijection(1 .. Cardinality(Worker), Worker)
    BY NamesAssumption, FS_CardinalityType
  <1>2. \E f \in [1 .. Cardinality(Worker) -> Worker] : IsInjective(f)
    BY <1>1 DEF ExistsBijection, Bijection, Injection
  <1>3. /\ SetToSeq(Worker) \in [1 .. Cardinality(Worker) -> Worker]
        /\ IsInjective(SetToSeq(Worker))
    BY <1>2 DEF SetToSeq
  <1> QED BY <1>1, <1>3 DEF IsInjective

\* The events of a snapshot.
Events(s) ==
    FoldLeft(LAMBDA q, w : q \o NewBlocks(s, w), <<>>, SetToSeq(Worker))

\* No worker has more events than its counters gained.
LEMMA EventsGained ==
  ASSUME NEW s \in State, status \in Status
  PROVE  /\ Events(s) \in Seq(Event)
         /\ \A w \in Worker :
               Cardinality(WaitingOf(Events(s), w)) <= Gain(s, status, w)
  <1> DEFINE n == Cardinality(Worker)
             seq == SetToSeq(Worker)
             F == [i \in 1 .. n |->
                     [q \in Seq(Event) |-> q \o NewBlocks(s, seq[i])]]
             It(h) == h = [t \in SUBSET DOMAIN seq |->
                             IF t = {} THEN <<>>
                             ELSE h[t \ {Max(t)}] \o NewBlocks(s, seq[Max(t)])]
             it == CHOOSE h : It(h)
  <1>1. /\ n \in Nat /\ DOMAIN seq = 1 .. n
        /\ \A i \in 1 .. n : seq[i] \in Worker
        /\ \A i, j \in 1 .. n : seq[i] = seq[j] => i = j
    BY WorkersOnce
  <1>2. /\ s.blocks \in Counts /\ status.blocks \in Counts
    BY DEF State, Status
  <1>3. Events(s) = it[1 .. n]
    <2>1. Events(s) = it[DOMAIN seq]
      BY DEF Events, FoldLeft, MapThenFoldSet
    <2> QED BY <1>1, <2>1
  <1> HIDE DEF n, seq
  <1>4. F \in [1 .. n -> [Seq(Event) -> Seq(Event)]]
    <2>1. \A i \in 1 .. n, q \in Seq(Event) :
             q \o NewBlocks(s, seq[i]) \in Seq(Event)
      <3>1. \A i \in 1 .. n : NewBlocks(s, seq[i]) \in Seq(Event)
        BY <1>1, NewBlocksAre
      <3> QED BY <3>1
    <2> QED BY <2>1
  <1>5. PICK g \in [SUBSET (1 .. n) -> Seq(Event)] : FoldsBy(g, n, <<>>, F)
    <2> HIDE DEF F
    <2>1. <<>> \in Seq(Event)
      OBVIOUS
    <2> QED BY <1>1, <1>4, <2>1, FoldExists
  <1>6. It(g)
    <2>1. ASSUME NEW t \in SUBSET (1 .. n), t # {}
          PROVE  F[Max(t)][g[Rest(t)]]
                   = g[t \ {Max(t)}] \o NewBlocks(s, seq[Max(t)])
      <3>1. Max(t) \in 1 .. n /\ Rest(t) \in SUBSET (1 .. n)
        BY <1>1, <2>1, RestUpTo
      <3> QED BY <1>5, <3>1 DEF Rest
    <2>2. g = [t \in SUBSET (1 .. n) |->
                 IF t = {} THEN <<>> ELSE F[Max(t)][g[Rest(t)]]]
      BY <1>5 DEF FoldsBy
    <2> HIDE DEF F
    <2> QED BY <1>1, <2>1, <2>2
  <1>7. It(it)
    <2> HIDE DEF It
    <2> QED BY <1>6
  <1> HIDE DEF it
  <1> DEFINE path(k) == it[1 .. k]
             Before(w, k) == \E j \in 1 .. k : seq[j] = w
             Has(k) == \A w \in Worker :
                          Cardinality(WaitingOf(path(k), w))
                            <= IF Before(w, k) THEN Gain(s, status, w) ELSE 0
             P == {k \in 0 .. n : path(k) \in Seq(Event) /\ Has(k)}
  <1>8. 0 \in P
    <2>1. it[{}] = <<>> /\ 1 .. 0 = {}
      BY <1>7
    <2>2. path(0) = <<>>
      BY <2>1
    <2> HIDE DEF path
    <2>3. ASSUME NEW w \in Worker
          PROVE  Cardinality(WaitingOf(path(0), w)) = 0
      <3>1. WaitingOf(path(0), w) = {}
        BY <2>2 DEF WaitingOf
      <3> QED BY <3>1, FS_EmptySet
    <2>4. \A w \in Worker : Gain(s, status, w) \in Nat
      BY <1>2, GainType
    <2> HIDE DEF Before
    <2>5. Has(0)
      BY <2>3, <2>4
    <2>6. path(0) \in Seq(Event)
      <3>1. <<>> \in Seq(Event)
        OBVIOUS
      <3> QED BY <2>2, <3>1
    <2> HIDE DEF Has
    <2> QED BY <1>1, <2>5, <2>6
  <1>9. ASSUME NEW k \in 0 .. n - 1, k \in P PROVE k + 1 \in P
    <2> DEFINE v == seq[k + 1]
    <2>1. k \in Nat /\ k + 1 \in 1 .. n /\ (k + 1) - 1 = k
      BY <1>1
    <2>2. v \in Worker /\ \A j \in 1 .. k : seq[j] # v
      BY <1>1, <2>1
    <2>3. path(k + 1) = path(k) \o NewBlocks(s, v)
      <3>1. /\ Max(1 .. k + 1) = k + 1
            /\ (1 .. k + 1) \ {Max(1 .. k + 1)} = 1 .. k
            /\ 1 .. k + 1 # {}
        BY <2>1, RestOfFirst DEF Rest
      <3>2. (1 .. k + 1) \in SUBSET DOMAIN seq
        BY <1>1, <2>1
      <3> QED BY <1>7, <3>1, <3>2
    <2> HIDE DEF path, v
    <2>4. path(k) \in Seq(Event) /\ Has(k)
      BY <1>9
    <2>5. /\ NewBlocks(s, v) \in Seq(Event)
          /\ Len(NewBlocks(s, v)) = Gain(s, status, v)
          /\ \A i \in 1 .. Len(NewBlocks(s, v)) : NewBlocks(s, v)[i].worker = v
      BY <2>2, NewBlocksAre
    <2>6. path(k + 1) \in Seq(Event)
      <3>1. \A a, b \in Seq(Event) : a \o b \in Seq(Event)
        OBVIOUS
      <3> QED BY <2>3, <2>4, <2>5, <3>1
    <2>7. ASSUME NEW w \in Worker
          PROVE  Cardinality(WaitingOf(path(k + 1), w))
                   <= IF Before(w, k + 1) THEN Gain(s, status, w) ELSE 0
      <3>1. Cardinality(WaitingOf(path(k + 1), w))
              <= Cardinality(WaitingOf(path(k), w))
                   + (IF v = w THEN Gain(s, status, v) ELSE 0)
        BY <2>3, <2>4, <2>5, WaitsConcat
      <3>2. Gain(s, status, w) \in Nat
        BY <1>2, GainType
      <3>3. Before(w, k + 1) <=> (v = w \/ Before(w, k))
        BY <1>1, <2>1 DEF v
      <3>4. /\ Cardinality(WaitingOf(path(k), w)) \in Nat
            /\ Cardinality(WaitingOf(path(k + 1), w)) \in Nat
        <4>1. \A q \in Seq(Event) : Cardinality(WaitingOf(q, w)) \in Nat
          BY WaitingType
        <4> QED BY <2>4, <2>6, <4>1
      <3>5. v = w => ~Before(w, k)
        BY <2>2
      <3>6. Cardinality(WaitingOf(path(k), w))
              <= IF Before(w, k) THEN Gain(s, status, w) ELSE 0
        BY <2>4
      <3> HIDE DEF Before
      <3> QED BY <3>1, <3>2, <3>3, <3>4, <3>5, <3>6
    <2>8. Has(k + 1)
      BY <2>7
    <2> HIDE DEF Has
    <2> QED BY <2>1, <2>6, <2>8
  <1>10. n \in P
    <2> HIDE DEF P
    <2>1. \A k \in 0 .. n : k \in P
      BY <1>1, <1>8, <1>9, Climb
    <2> QED BY <1>1, <2>1
  <1>11. path(n) = Events(s)
    BY <1>3
  <1> HIDE DEF path
  <1>12. ASSUME NEW w \in Worker
         PROVE  Cardinality(WaitingOf(Events(s), w)) <= Gain(s, status, w)
    <2>1. Cardinality(WaitingOf(path(n), w))
            <= IF Before(w, n) THEN Gain(s, status, w) ELSE 0
      BY <1>10
    <2>2. Gain(s, status, w) \in Nat
      BY <1>2, GainType
    <2>3. Cardinality(WaitingOf(path(n), w)) \in Nat
      BY <1>10, WaitingType
    <2> HIDE DEF Before
    <2> QED BY <1>11, <2>1, <2>2, <2>3
  <1> QED BY <1>10, <1>11, <1>12

\* The first k events of worker w.
Upto(e, k, w) == {i \in 1 .. k : e[i].worker = w}

LEMMA UptoNext ==
  ASSUME NEW e, NEW k \in Nat, NEW w
  PROVE  /\ Cardinality(Upto(e, k, w)) \in Nat
         /\ Cardinality(Upto(e, k + 1, w))
              = Cardinality(Upto(e, k, w)) + One(e[k + 1], w)
  <1>1. IsFiniteSet(Upto(e, k, w)) /\ Cardinality(Upto(e, k, w)) \in Nat
    <2>1. Upto(e, k, w) \in SUBSET (1 .. k)
      BY DEF Upto
    <2>2. IsFiniteSet(1 .. k)
      BY FS_Interval
    <2> QED BY <2>1, <2>2, FS_Subset, FS_CardinalityType
  <1>2. CASE e[k + 1].worker = w
    <2>1. /\ Upto(e, k + 1, w) = Upto(e, k, w) \cup {k + 1}
          /\ k + 1 \notin Upto(e, k, w)
      BY <1>2 DEF Upto
    <2>2. Cardinality(Upto(e, k, w) \cup {k + 1})
             = Cardinality(Upto(e, k, w)) + 1
      BY <1>1, <2>1, FS_AddElement
    <2> QED BY <1>1, <1>2, <2>1, <2>2 DEF One
  <1>3. CASE e[k + 1].worker # w
    <2>1. Upto(e, k + 1, w) = Upto(e, k, w)
      BY <1>3 DEF Upto
    <2> QED BY <1>1, <1>3, <2>1 DEF One
  <1> QED BY <1>1, <1>2, <1>3

\* A worker is named for its new events and no others.
LEMMA AttributeAll ==
  ASSUME NEW s \in States, NEW e \in Seq(Event),
         chain \in Seq(Worker \cup {Other})
  PROVE  LET t == FoldLeft(Attribute, s, e)
         IN  /\ t \in States
             /\ Marks(t) = Marks(s)
             /\ \A h : Known(t, h) <=> Known(s, h)
             /\ \A w \in Worker :
                   Named(t, w) <= Named(s, w) + Cardinality(WaitingOf(e, w))
  <1> DEFINE n == Len(e)
             F == [i \in 1 .. n |-> [x \in States |-> Attribute(x, e[i])]]
             It(h) == h = [t \in SUBSET DOMAIN e |->
                             IF t = {} THEN s
                             ELSE Attribute(h[t \ {Max(t)}], e[Max(t)])]
             it == CHOOSE h : It(h)
  <1>1. n \in Nat /\ DOMAIN e = 1 .. n /\ \A i \in 1 .. n : e[i] \in Event
    OBVIOUS
  <1>2. FoldLeft(Attribute, s, e) = it[1 .. n]
    <2>1. FoldLeft(Attribute, s, e) = it[DOMAIN e]
      BY DEF FoldLeft, MapThenFoldSet
    <2> QED BY <1>1, <2>1
  <1> HIDE DEF n
  <1>3. F \in [1 .. n -> [States -> States]]
    <2>1. \A i \in 1 .. n, x \in States : Attribute(x, e[i]) \in States
      BY <1>1, AttributeKeeps
    <2> QED BY <2>1
  <1>4. PICK g \in [SUBSET (1 .. n) -> States] : FoldsBy(g, n, s, F)
    <2> HIDE DEF F
    <2> QED BY <1>1, <1>3, FoldExists
  <1>5. It(g)
    <2>1. ASSUME NEW t \in SUBSET (1 .. n), t # {}
          PROVE  F[Max(t)][g[Rest(t)]] = Attribute(g[t \ {Max(t)}], e[Max(t)])
      <3>1. Max(t) \in 1 .. n /\ Rest(t) \in SUBSET (1 .. n)
        BY <1>1, <2>1, RestUpTo
      <3> QED BY <1>4, <3>1 DEF Rest
    <2>2. g = [t \in SUBSET (1 .. n) |->
                 IF t = {} THEN s ELSE F[Max(t)][g[Rest(t)]]]
      BY <1>4 DEF FoldsBy
    <2> HIDE DEF F
    <2> QED BY <1>1, <2>1, <2>2
  <1>6. It(it)
    <2> HIDE DEF It
    <2> QED BY <1>5
  <1> HIDE DEF it
  <1> DEFINE path(k) == it[1 .. k]
             Credits(k) == \A w \in Worker :
                Named(path(k), w) <= Named(s, w) + Cardinality(Upto(e, k, w))
             Same(k) == /\ path(k) \in States
                        /\ Marks(path(k)) = Marks(s)
                        /\ \A h : Known(path(k), h) <=> Known(s, h)
             P == {k \in 0 .. n : Same(k) /\ Credits(k)}
  <1>7. 0 \in P
    <2>1. path(0) = s
      <3>1. it[{}] = s /\ 1 .. 0 = {}
        BY <1>6
      <3> QED BY <3>1
    <2> HIDE DEF path
    <2>2. ASSUME NEW w \in Worker
          PROVE  Named(path(0), w) <= Named(s, w) + Cardinality(Upto(e, 0, w))
      <3>1. Upto(e, 0, w) = {}
        BY DEF Upto
      <3>2. Cardinality(Upto(e, 0, w)) = 0
        BY <3>1, FS_EmptySet
      <3> QED BY <2>1, <3>2, CountsType
    <2> QED BY <1>1, <2>1, <2>2
  <1>8. ASSUME NEW k \in 0 .. n - 1, k \in P PROVE k + 1 \in P
    <2>1. k \in Nat /\ k + 1 \in 1 .. n /\ k + 1 \in 0 .. n /\ (k + 1) - 1 = k
      BY <1>1
    <2>2. path(k + 1) = Attribute(path(k), e[k + 1])
      <3>1. /\ Max(1 .. k + 1) = k + 1
            /\ (1 .. k + 1) \ {Max(1 .. k + 1)} = 1 .. k
            /\ 1 .. k + 1 # {}
        BY <2>1, RestOfFirst DEF Rest
      <3>2. (1 .. k + 1) \in SUBSET DOMAIN e
        BY <1>1, <2>1
      <3> QED BY <1>6, <3>1, <3>2
    <2> HIDE DEF path
    <2>3. Same(k) /\ Credits(k) /\ e[k + 1] \in Event
      BY <1>1, <1>8, <2>1
    <2>4. /\ path(k + 1) \in States
          /\ Marks(path(k + 1)) = Marks(path(k))
          /\ \A h : Known(path(k + 1), h) <=> Known(path(k), h)
          /\ \A w \in Worker :
                Named(path(k + 1), w) <= Named(path(k), w) + One(e[k + 1], w)
      BY <2>2, <2>3, AttributeKeeps
    <2>5. Same(k + 1)
      BY <2>3, <2>4
    <2>6. ASSUME NEW w \in Worker
          PROVE  Named(path(k + 1), w)
                   <= Named(s, w) + Cardinality(Upto(e, k + 1, w))
      <3>1. /\ Cardinality(Upto(e, k, w)) \in Nat
            /\ Cardinality(Upto(e, k + 1, w))
                 = Cardinality(Upto(e, k, w)) + One(e[k + 1], w)
        BY <2>1, UptoNext
      <3>2. /\ Named(path(k), w) \in Nat /\ Named(path(k + 1), w) \in Nat
            /\ Named(s, w) \in Nat /\ One(e[k + 1], w) \in Nat
        BY <2>3, <2>4, CountsType DEF One
      <3>3. /\ Named(path(k), w) <= Named(s, w) + Cardinality(Upto(e, k, w))
            /\ Named(path(k + 1), w) <= Named(path(k), w) + One(e[k + 1], w)
        BY <2>3, <2>4
      <3> QED BY <3>1, <3>2, <3>3
    <2>7. Credits(k + 1)
      BY <2>6
    <2> HIDE DEF Same, Credits
    <2> QED BY <2>1, <2>5, <2>7
  <1>9. n \in P
    <2> HIDE DEF P
    <2>1. \A k \in 0 .. n : k \in P
      BY <1>1, <1>7, <1>8, Climb
    <2> QED BY <1>1, <2>1
  <1>10. \A w : Upto(e, n, w) = WaitingOf(e, w)
    BY <1>1 DEF Upto, WaitingOf
  <1>11. path(n) = FoldLeft(Attribute, s, e)
    BY <1>2
  <1> HIDE DEF path
  <1> QED BY <1>9, <1>10, <1>11

\* What a snapshot does to a state.
LEMMA SnapshotKeeps ==
  ASSUME NEW s \in States, status \in Status,
         chain \in Seq(Worker \cup {Other})
  PROVE  LET t == Snapshot(s)
         IN  /\ t \in States
             /\ t.runtime = status.runtime /\ t.lastupdate = status.lastupdate
             /\ t.blocks = status.blocks /\ t.scanned = s.scanned
             /\ \A h : Known(t, h) <=> Known(s, h)
             /\ \A w \in Worker :
                   Named(t, w) <= Named(s, w) + Gain(s, status, w)
  <1> DEFINE e == Events(s)
             m == FoldLeft(Attribute, s, e)
             t == Snapshot(s)
  <1>1. t = [m EXCEPT !.runtime = status.runtime,
                      !.lastupdate = status.lastupdate,
                      !.blocks = status.blocks]
    BY DEF Snapshot, Events
  <1>2. s \in State /\ s.blocks \in Counts /\ status.blocks \in Counts
    BY DEF States, State, Status
  <1>3. /\ e \in Seq(Event)
        /\ \A w \in Worker :
              Cardinality(WaitingOf(e, w)) <= Gain(s, status, w)
    BY <1>2, EventsGained
  <1> HIDE DEF e
  <1>4. /\ m \in States /\ Marks(m) = Marks(s)
        /\ \A h : Known(m, h) <=> Known(s, h)
        /\ \A w \in Worker :
              Named(m, w) <= Named(s, w) + Cardinality(WaitingOf(e, w))
    BY <1>3, AttributeAll
  <1> HIDE DEF m, t
  <1>5. m \in State /\ m.scanned = s.scanned
    BY <1>4 DEF States, Marks
  <1>6. /\ t \in State /\ t.history = m.history /\ t.pending = m.pending
        /\ t.runtime = status.runtime /\ t.lastupdate = status.lastupdate
        /\ t.blocks = status.blocks /\ t.scanned = m.scanned
    BY <1>1, <1>5 DEF State, Status
  <1>7. t \in States
    BY <1>4, <1>6 DEF States
  <1>8. \A h : Known(t, h) <=> Known(s, h)
    BY <1>4, <1>6 DEF Known
  <1>9. ASSUME NEW w \in Worker
        PROVE  Named(t, w) <= Named(s, w) + Gain(s, status, w)
    <2>1. Named(t, w) = Named(m, w)
      BY <1>6 DEF Named
    <2>2. /\ Named(m, w) \in Nat /\ Named(s, w) \in Nat
          /\ Cardinality(WaitingOf(e, w)) \in Nat
          /\ Gain(s, status, w) \in Nat
      BY <1>2, <1>3, <1>4, CountsType, WaitingType, GainType
    <2>3. /\ Named(m, w) <= Named(s, w) + Cardinality(WaitingOf(e, w))
          /\ Cardinality(WaitingOf(e, w)) <= Gain(s, status, w)
      BY <1>3, <1>4
    <2> QED BY <2>1, <2>2, <2>3
  <1> QED BY <1>5, <1>6, <1>7, <1>8, <1>9 DEF t

-----------------------------------------------------------------------------
(* What a scan has covered.                                                *)

(***************************************************************************)
(* From some height on, where the first scan began, the rows up to the     *)
(* scanned height are those of the app's blocks, but for blocks replaced   *)
(* since; there is no other row.                                           *)
(***************************************************************************)
Covered(s) ==
    \/ s.scanned = -1 /\ \A h : ~Known(s, h)
    \/ \E start \in 1 .. Len(chain) + 1 :
         /\ s.scanned \in start - 1 .. Len(chain)
         /\ \A h : Known(s, h) => h \in start .. s.scanned
         /\ \A h \in (start .. s.scanned) \ replaced :
               chain[h] \in Worker <=> Known(s, h)
         /\ MaxTip <= ScanBack => start = 1

\* Where the rows and the scanned height are the same, so is what is covered.
LEMMA CoveredSame ==
  ASSUME NEW s, NEW t, Covered(s), t.scanned = s.scanned,
         \A h : Known(t, h) <=> Known(s, h)
  PROVE  Covered(t)
  BY DEF Covered

\* Reading heights keeps what is known and learns the heights it reads.
LEMMA ReadKeeps ==
  ASSUME NEW s \in States, chain \in Seq(Worker \cup {Other}), clock \in Nat,
         ScanStart(s) \in Nat, ScanStart(s) >= 1,
         NEW last \in (ScanStart(s) - 1) .. Len(chain)
  PROVE  LET t == Read(s, last)
         IN  /\ t \in States /\ Marks(t) = Marks(s)
             /\ \A h : Known(s, h) => Known(t, h)
             /\ \A h : Known(t, h) =>
                   \/ Known(s, h)
                   \/ h \in ScanStart(s) .. last /\ chain[h] \in Worker
             /\ \A h \in ScanStart(s) .. last :
                   chain[h] \in Worker => Known(t, h)
             /\ \A w \in Worker : Named(t, w) <= Named(s, w)
  <1> DEFINE start == ScanStart(s)
             n == last - start + 1
  <1>1. PICK path \in [0 .. n -> States] :
           /\ path[0] = s /\ path[n] = Read(s, last)
           /\ \A i \in 1 .. n : path[i] = ScanHeight(path[i - 1], start + i - 1)
    BY ReadPath
  <1>2. /\ Len(chain) \in Nat /\ n \in Nat /\ start \in Nat /\ start >= 1
        /\ last \in Nat /\ last <= Len(chain) /\ start + n - 1 = last
    <2>1. Len(chain) \in Nat
      OBVIOUS
    <2> HIDE DEF start
    <2> QED BY <2>1 DEF start
  <1> HIDE DEF start, n
  <1> DEFINE Learns(k) ==
                /\ Marks(path[k]) = Marks(s)
                /\ \A h : Known(s, h) => Known(path[k], h)
                /\ \A h : Known(path[k], h) =>
                      \/ Known(s, h)
                      \/ h \in start .. start + k - 1 /\ chain[h] \in Worker
                /\ \A h \in start .. start + k - 1 :
                      chain[h] \in Worker => Known(path[k], h)
                /\ \A w \in Worker : Named(path[k], w) <= Named(s, w)
             P == {k \in 0 .. n : Learns(k)}
  <1>3. 0 \in P
    <2>1. \A w : Named(s, w) \in Nat
      BY CountsType
    <2> QED BY <1>1, <1>2, <2>1
  <1>4. ASSUME NEW k \in 0 .. n - 1, k \in P PROVE k + 1 \in P
    <2> DEFINE x == path[k]
               y == path[k + 1]
               height == start + k
    <2>1. /\ k \in 0 .. n /\ k + 1 \in 1 .. n /\ (k + 1) - 1 = k
          /\ k + 1 \in 0 .. n
          /\ start + (k + 1) - 1 = height /\ height \in 1 .. Len(chain)
      BY <1>2
    <2>2. x \in States /\ y \in States /\ y = ScanHeight(x, height)
      BY <1>1, <2>1
    <2>3. Learns(k)
      BY <1>4
    <2> HIDE DEF x, y
    <2>4. /\ Marks(y) = Marks(x)
          /\ \A h : Known(x, h) => Known(y, h)
          /\ chain[height] \in Worker => Known(y, height)
          /\ \A h : Known(y, h) =>
                Known(x, h) \/ (h = height /\ chain[h] \in Worker)
          /\ \A w \in Worker : Named(y, w) <= Named(x, w)
      BY <2>1, <2>2, ScanHeightKeeps
    <2>5. /\ Marks(x) = Marks(s)
          /\ \A h : Known(s, h) => Known(x, h)
          /\ \A h : Known(x, h) =>
                \/ Known(s, h)
                \/ h \in start .. start + k - 1 /\ chain[h] \in Worker
          /\ \A h \in start .. start + k - 1 :
                chain[h] \in Worker => Known(x, h)
          /\ \A w \in Worker : Named(x, w) <= Named(s, w)
      BY <2>3 DEF x
    <2>6. height \in start .. height
          /\ \A h \in start .. start + k - 1 : h \in start .. height
      BY <1>2, <2>1
    <2>8. \A h : Known(y, h) =>
             \/ Known(s, h)
             \/ h \in start .. height /\ chain[h] \in Worker
      BY <2>4, <2>5, <2>6
    <2>9. ASSUME NEW h \in start .. height, chain[h] \in Worker
          PROVE  Known(y, h)
      <3>1. h = height \/ h \in start .. start + k - 1
        BY <1>2, <2>1, <2>9
      <3> QED BY <2>4, <2>5, <2>9, <3>1
    <2>10. ASSUME NEW w \in Worker PROVE Named(y, w) <= Named(s, w)
      <3>1. Named(y, w) <= Named(x, w) /\ Named(x, w) <= Named(s, w)
        BY <2>4, <2>5
      <3>2. Named(y, w) \in Nat /\ Named(x, w) \in Nat /\ Named(s, w) \in Nat
        BY <2>2, CountsType
      <3> QED BY <3>1, <3>2
    <2>11. Learns(k + 1)
      <3>1. Marks(y) = Marks(s) /\ \A h : Known(s, h) => Known(y, h)
        BY <2>4, <2>5
      <3> QED BY <2>1, <2>8, <2>9, <2>10, <3>1 DEF y
    <2> HIDE DEF Learns
    <2> QED BY <2>1, <2>11
  <1>5. Learns(n)
    <2> HIDE DEF Learns
    <2>1. \A k \in 0 .. n : k \in P
      <3> HIDE DEF P
      <3> QED BY <1>2, <1>3, <1>4, Climb
    <2> QED BY <1>2, <2>1
  <1>6. Read(s, last) \in States
    BY <1>1, <1>2
  <1> QED BY <1>1, <1>2, <1>5, <1>6 DEF start

\* Where a scan starts: behind the last one, or a window below the tip.
LEMMA StartIs ==
  ASSUME NEW s \in States, Covered(s), chain \in Seq(Worker \cup {Other}),
         Len(chain) <= MaxTip
  PROVE  /\ ScanStart(s) \in 1 .. Len(chain) + 1
         /\ s.scanned # -1 => ScanStart(s) = s.scanned + 1
         /\ s.scanned = -1 => (MaxTip <= ScanBack => ScanStart(s) = 1)
  <1>1. s.scanned \in Nat \cup {-1} /\ Len(chain) \in Nat
    BY DEF States, State
  <1>2. s.scanned # -1 => s.scanned <= Len(chain)
    BY <1>1 DEF Covered
  <1> QED BY <1>1, <1>2, BoundsAssumption DEF ScanStart

\* A scan covers what it read, and credits nobody unless it is cut short.
LEMMA ScanKeeps ==
  ASSUME NEW s \in States, Covered(s), chain \in Seq(Worker \cup {Other}),
         Len(chain) <= MaxTip, clock \in Nat,
         NEW last \in (ScanStart(s) - 1) .. Len(chain)
  PROVE  LET t == ScanTo(s, last)
         IN  /\ t \in States /\ Covered(t)
             /\ t.runtime = s.runtime /\ t.lastupdate = s.lastupdate
             /\ t.blocks = s.blocks
             /\ ~TakenUntil(s, last) =>
                   \A w \in Worker : Named(t, w) <= Named(s, w)
  <1> DEFINE t == ScanTo(s, last)
             m == Read(s, last)
             start == ScanStart(s)
  <1>1. /\ start \in 1 .. Len(chain) + 1 /\ Len(chain) \in Nat
        /\ start \in Nat /\ start >= 1
        /\ s.scanned # -1 => start = s.scanned + 1
        /\ s.scanned = -1 => (MaxTip <= ScanBack => start = 1)
        /\ last \in Nat /\ last >= start - 1 /\ last <= Len(chain)
    <2>1. Len(chain) \in Nat
      OBVIOUS
    <2>2. /\ start \in 1 .. Len(chain) + 1
          /\ s.scanned # -1 => start = s.scanned + 1
          /\ s.scanned = -1 => (MaxTip <= ScanBack => start = 1)
      BY StartIs
    <2> QED BY <2>1, <2>2
  <1>2. /\ m \in States /\ Marks(m) = Marks(s)
        /\ \A h : Known(s, h) => Known(m, h)
        /\ \A h : Known(m, h) =>
              Known(s, h) \/ (h \in start .. last /\ chain[h] \in Worker)
        /\ \A h \in start .. last : chain[h] \in Worker => Known(m, h)
        /\ \A w \in Worker : Named(m, w) <= Named(s, w)
    BY <1>1, ReadKeeps
  <1>3. s \in State /\ s.pending \in Seq(Event) /\ m \in State
    BY <1>2 DEF States, State
  <1>4. t = IF last = Len(chain) THEN [m EXCEPT !.scanned = last]
            ELSE [m EXCEPT !.scanned = StoppedAt(last + 1),
                           !.pending = s.pending]
    BY DEF ScanTo
  <1>5. TakenUntil(s, last) <=> last < Len(chain) /\ m.pending # s.pending
    BY DEF TakenUntil
  <1> HIDE DEF t, m
  <1>6. StoppedAt(last + 1) = last
    BY <1>1 DEF StoppedAt
  <1>7. /\ t \in State /\ t.history = m.history /\ t.scanned = last
        /\ t.runtime = m.runtime /\ t.lastupdate = m.lastupdate
        /\ t.blocks = m.blocks
        /\ ~TakenUntil(s, last) => t.pending = m.pending
    <2>1. CASE last = Len(chain)
      BY <1>1, <1>3, <1>4, <2>1 DEF State
    <2>2. CASE last # Len(chain)
      <3>1. t = [m EXCEPT !.scanned = last, !.pending = s.pending]
        BY <1>4, <1>6, <2>2
      <3>2. /\ t \in State /\ t.history = m.history /\ t.scanned = last
            /\ t.runtime = m.runtime /\ t.lastupdate = m.lastupdate
            /\ t.blocks = m.blocks /\ t.pending = s.pending
        BY <1>1, <1>3, <3>1 DEF State
      <3> QED BY <1>1, <1>5, <2>2, <3>2
    <2> QED BY <2>1, <2>2
  <1>8. t \in States
    BY <1>2, <1>7 DEF States
  <1>9. \A h : Known(t, h) <=> Known(m, h)
    BY <1>7 DEF Known
  <1>10. Covered(t)
    <2>1. CASE s.scanned = -1
      <3>1. \A h : ~Known(s, h)
        BY <1>1, <2>1 DEF Covered
      <3>2. /\ \A h : Known(t, h) => h \in start .. t.scanned
            /\ \A h \in (start .. t.scanned) \ replaced :
                  chain[h] \in Worker <=> Known(t, h)
        BY <1>2, <1>7, <1>9, <3>1
      <3>3. t.scanned \in start - 1 .. Len(chain)
        BY <1>1, <1>7
      <3> QED BY <1>1, <2>1, <3>2, <3>3 DEF Covered
    <2>2. CASE s.scanned # -1
      <3>1. PICK first \in 1 .. Len(chain) + 1 :
               /\ s.scanned \in first - 1 .. Len(chain)
               /\ \A h : Known(s, h) => h \in first .. s.scanned
               /\ \A h \in (first .. s.scanned) \ replaced :
                     chain[h] \in Worker <=> Known(s, h)
               /\ MaxTip <= ScanBack => first = 1
        BY <2>2 DEF Covered
      <3>2. /\ start = s.scanned + 1 /\ start >= first
            /\ t.scanned \in first - 1 .. Len(chain)
        BY <1>1, <1>7, <2>2, <3>1
      <3>3. ASSUME NEW h
            PROVE  /\ h \in first .. s.scanned => h \in first .. last
                   /\ h \in start .. last => h \in first .. last
                   /\ h \in first .. last =>
                         h \in first .. s.scanned \/ h \in start .. last
                   /\ ~(h \in first .. s.scanned /\ h \in start .. last)
        BY <1>1, <3>1, <3>2
      <3>4. ASSUME NEW h, Known(t, h) PROVE h \in first .. t.scanned
        BY <1>2, <1>7, <1>9, <3>1, <3>3, <3>4
      <3>5. ASSUME NEW h \in (first .. t.scanned) \ replaced
            PROVE  chain[h] \in Worker <=> Known(t, h)
        <4>1. CASE h \in first .. s.scanned
          BY <1>2, <1>9, <3>1, <3>3, <3>5, <4>1
        <4>2. CASE h \in start .. last
          BY <1>2, <1>9, <3>1, <3>3, <3>5, <4>2
        <4> QED BY <1>7, <3>3, <3>5, <4>1, <4>2
      <3> QED BY <3>1, <3>2, <3>4, <3>5 DEF Covered
    <2> QED BY <2>1, <2>2
  <1>11. ASSUME ~TakenUntil(s, last), NEW w \in Worker
         PROVE  Named(t, w) <= Named(s, w)
    <2>1. Named(t, w) = Named(m, w)
      BY <1>7, <1>11 DEF Named
    <2> QED BY <1>2, <2>1
  <1> QED BY <1>2, <1>7, <1>8, <1>10, <1>11 DEF t, Marks

-----------------------------------------------------------------------------
(* The invariant.                                                          *)

\* What CKPool would write to the status file now.
CountersNow ==
    [lastupdate |-> clock, runtime |-> clock - pool.started,
     blocks |-> pool.blocks]

(***************************************************************************)
(* A worker is named for no more than it found, with what the next status  *)
(* would add, and with what the present one and then the next would.       *)
(***************************************************************************)
AccountedFor(s, f, c, d) ==
    \A w \in Worker :
       /\ Named(s, w) + Gain(s, d, w) <= f[w]
       /\ Named(s, w) + Gain(s, c, w) + Gain(c, d, w) <= f[w]

Accounted(s) == AccountedFor(s, found, status, CountersNow)

\* The world around the poller.
World ==
    /\ clock \in Nat /\ faults \in Nat /\ replaced \in SUBSET Nat
    /\ chain \in Seq(Worker \cup {Other}) /\ Len(chain) <= MaxTip
    /\ found \in Counts /\ pool \in Pool /\ status \in Status
    /\ pool.started <= clock
    /\ cut \in BOOLEAN

Polled ==
    \A s \in {memory, disk} : s \in States /\ Covered(s)

Credits ==
    cut \/ \A s \in {memory, disk} : Accounted(s)

HistoryInv == World /\ Polled /\ Credits

\* The counters of now are counters.
LEMMA NowType ==
  ASSUME World
  PROVE  CountersNow \in Status
  BY DEF World, CountersNow, Pool, Status

LEMMA HistoryInit == Init => HistoryInv
  <1> SUFFICES ASSUME Init PROVE HistoryInv
    OBVIOUS
  <1>1. /\ NoBlocks \in Counts /\ \A w \in Worker : NoBlocks[w] = 0
        /\ clock = 0 /\ chain = <<>> /\ faults = 0 /\ replaced = {}
        /\ found = NoBlocks
        /\ pool = [started |-> 0, blocks |-> NoBlocks]
        /\ status = [lastupdate |-> 0, runtime |-> 0, blocks |-> NoBlocks]
        /\ memory = NewState /\ disk = NewState /\ cut = FALSE
    BY DEF Init, NoBlocks, Counts
  <1>2. World
    <2>1. chain \in Seq(Worker \cup {Other}) /\ Len(chain) = 0
      BY <1>1
    <2>2. pool \in Pool /\ pool.started = 0
      BY <1>1 DEF Pool
    <2>3. status \in Status
      BY <1>1 DEF Status
    <2>4. found \in Counts
      BY <1>1
    <2>5. /\ clock \in Nat /\ faults \in Nat /\ replaced \in SUBSET Nat
          /\ cut \in BOOLEAN
      BY <1>1
    <2>6. Len(chain) <= MaxTip /\ pool.started <= clock
      BY <1>1, <2>1, <2>2, BoundsAssumption
    <2> QED BY <2>1, <2>2, <2>3, <2>4, <2>5, <2>6 DEF World
  <1>3. /\ NewState \in State /\ NewState.history = {}
        /\ NewState.scanned = -1 /\ NewState.pending = <<>>
        /\ NewState.blocks = NoBlocks
    <2>1. <<>> \in Seq(Event)
      OBVIOUS
    <2> QED BY <1>1, <2>1 DEF NewState, State
  <1>4. Polled
    <2>1. NewState \in States
      BY <1>3, FS_EmptySet DEF States
    <2>2. Covered(NewState)
      BY <1>3 DEF Covered, Known
    <2> QED BY <1>1, <2>1, <2>2 DEF Polled
  <1>5. Accounted(NewState)
    <2> SUFFICES ASSUME NEW w \in Worker
                 PROVE  /\ Named(NewState, w) + Gain(NewState, CountersNow, w)
                             <= found[w]
                        /\ Named(NewState, w) + Gain(NewState, status, w)
                             + Gain(status, CountersNow, w) <= found[w]
      BY DEF Accounted, AccountedFor
    <2>1. Named(NewState, w) = 0
      <3>1. RowsOf(NewState.history, w) = {} /\ WaitingOf(NewState.pending, w) = {}
        BY <1>3 DEF RowsOf, WaitingOf
      <3> QED BY <3>1, NamedIs, FS_EmptySet
    <2>2. /\ CountersNow.blocks[w] = 0 /\ status.blocks[w] = 0
          /\ NewState.blocks[w] = 0 /\ found[w] = 0
      BY <1>1, <1>3 DEF CountersNow
    <2>3. /\ Gain(NewState, CountersNow, w) = 0 /\ Gain(NewState, status, w) = 0
          /\ Gain(status, CountersNow, w) = 0
      BY <2>2 DEF Gain
    <2> QED BY <2>1, <2>2, <2>3
  <1> QED BY <1>1, <1>2, <1>4, <1>5 DEF HistoryInv, Credits

\* The numbers of one worker.
LEMMA NumbersType ==
  ASSUME World, NEW s \in States, NEW w \in Worker
  PROVE  /\ Named(s, w) \in Nat /\ found[w] \in Nat
         /\ Gain(s, CountersNow, w) \in Nat /\ Gain(s, status, w) \in Nat
         /\ Gain(status, CountersNow, w) \in Nat
         /\ pool.blocks[w] \in Nat
  <1>1. /\ s.blocks \in Counts /\ status.blocks \in Counts
        /\ CountersNow.blocks \in Counts /\ pool.blocks \in Counts
    BY NowType DEF World, States, State, Status, Pool
  <1> QED BY <1>1, GainType, CountsType DEF World, Counts

-----------------------------------------------------------------------------
(* What the counters gain, step by step.                                   *)

\* Later, counters that started again may seem to have gone on.
LEMMA GainLater ==
  ASSUME NEW s, NEW c, NEW d, NEW w \in Worker,
         s.blocks \in Counts, c.blocks \in Counts, d.blocks = c.blocks,
         StartsAgain(s, d) => StartsAgain(s, c)
  PROVE  Gain(s, d, w) <= Gain(s, c, w)
  <1>1. s.blocks[w] \in Nat /\ c.blocks[w] \in Nat
    BY DEF Counts
  <1> QED BY <1>1 DEF Gain

\* A block more is one more at most.
LEMMA GainMore ==
  ASSUME NEW s, NEW c, NEW d, NEW w \in Worker, NEW k \in Nat,
         s.blocks \in Counts, c.blocks \in Counts,
         d.blocks[w] = c.blocks[w] + k,
         StartsAgain(s, d) <=> StartsAgain(s, c)
  PROVE  Gain(s, d, w) <= Gain(s, c, w) + k
  <1>1. s.blocks[w] \in Nat /\ c.blocks[w] \in Nat
    BY DEF Counts
  <1> QED BY <1>1 DEF Gain

\* Empty counters add nothing.
LEMMA GainNone ==
  ASSUME NEW s, NEW d, NEW w \in Worker, s.blocks \in Counts, d.blocks[w] = 0
  PROVE  Gain(s, d, w) = 0
  <1>1. s.blocks[w] \in Nat
    BY DEF Counts
  <1> QED BY <1>1 DEF Gain

\* Nor do the counters a state already knows.
LEMMA GainAgain ==
  ASSUME NEW s, NEW c \in Status, NEW w \in Worker,
         s.runtime = c.runtime, s.lastupdate = c.lastupdate, s.blocks = c.blocks
  PROVE  Gain(s, c, w) = 0 /\ \A d : Gain(s, d, w) = Gain(c, d, w)
  <1>1. c.runtime \in Nat /\ c.lastupdate \in Nat /\ c.blocks[w] \in Nat
    BY DEF Status, Counts
  <1>2. ~StartsAgain(s, c)
    BY <1>1 DEF StartsAgain
  <1> QED BY <1>1, <1>2 DEF Gain, StartsAgain

\* Less may be gained, more may be found.
LEMMA StillAccounted ==
  ASSUME World, NEW s \in States, Accounted(s), NEW f \in Counts, NEW d,
         d.blocks \in Counts, NEW g \in [Worker -> Nat],
         \A w \in Worker :
            /\ f[w] = found[w] + g[w]
            /\ Gain(s, d, w) <= Gain(s, CountersNow, w) + g[w]
            /\ Gain(status, d, w) <= Gain(status, CountersNow, w) + g[w]
  PROVE  AccountedFor(s, f, status, d)
  <1> SUFFICES ASSUME NEW w \in Worker
               PROVE  /\ Named(s, w) + Gain(s, d, w) <= f[w]
                      /\ Named(s, w) + Gain(s, status, w) + Gain(status, d, w)
                           <= f[w]
    BY DEF AccountedFor
  <1> DEFINE a == Named(s, w)
             b == Gain(s, CountersNow, w)
             c == Gain(s, status, w)
             e == Gain(status, CountersNow, w)
             x == Gain(s, d, w)
             y == Gain(status, d, w)
  <1>1. /\ a \in Nat /\ b \in Nat /\ c \in Nat /\ e \in Nat /\ found[w] \in Nat
    BY NumbersType
  <1>2. x \in Nat /\ y \in Nat
    <2>1. s.blocks \in Counts /\ status.blocks \in Counts
      BY DEF World, States, State, Status
    <2> QED BY <2>1, GainType
  <1>3. a + b <= found[w] /\ a + c + e <= found[w]
    BY DEF Accounted, AccountedFor
  <1>4. f[w] = found[w] + g[w] /\ x <= b + g[w] /\ y <= e + g[w] /\ g[w] \in Nat
    OBVIOUS
  <1> HIDE DEF a, b, c, e, x, y
  <1>5. a + x <= f[w] /\ a + c + y <= f[w]
    BY <1>1, <1>2, <1>3, <1>4
  <1> QED BY <1>5 DEF a, c, x, y

-----------------------------------------------------------------------------
(* The steps.                                                              *)

\* The chain only gets longer, and of the blocks a state has scanned only
\* replaced ones change.
Longer(s) ==
    /\ chain' \in Seq(Worker \cup {Other}) /\ Len(chain) <= Len(chain')
    /\ replaced \subseteq replaced'
    /\ \A h \in 1 .. Len(chain) :
          h <= s.scanned => chain'[h] = chain[h] \/ h \in replaced'

LEMMA StatesStay ==
  ASSUME NEW s \in States, chain \in Seq(Worker \cup {Other}), Longer(s)
  PROVE  s \in States'
  <1>1. Len(chain) \in Nat /\ Len(chain') \in Nat
    BY DEF Longer
  <1>2. 1 .. Len(chain) \subseteq 1 .. Len(chain')
    BY <1>1 DEF Longer
  <1> QED BY <1>2 DEF States

LEMMA CoveredStays ==
  ASSUME NEW s \in States, Covered(s), chain \in Seq(Worker \cup {Other}),
         Longer(s)
  PROVE  Covered(s)'
  <1>1. Len(chain) \in Nat /\ Len(chain') \in Nat /\ Len(chain) <= Len(chain')
    BY DEF Longer
  <1>2. CASE s.scanned = -1 /\ \A h : ~Known(s, h)
    BY <1>2 DEF Covered, Known
  <1>3. ASSUME NEW start \in 1 .. Len(chain) + 1,
               s.scanned \in start - 1 .. Len(chain),
               \A h : Known(s, h) => h \in start .. s.scanned,
               \A h \in (start .. s.scanned) \ replaced :
                  chain[h] \in Worker <=> Known(s, h),
               MaxTip <= ScanBack => start = 1
        PROVE  Covered(s)'
    <2>1. start \in 1 .. Len(chain') + 1 /\ s.scanned \in start - 1 .. Len(chain')
      BY <1>1, <1>3
    <2>2. ASSUME NEW h \in (start .. s.scanned) \ replaced'
          PROVE  chain'[h] \in Worker <=> Known(s, h)
      <3>1. h \in 1 .. Len(chain) /\ h <= s.scanned
        BY <1>1, <1>3, <2>2
      <3>2. chain'[h] = chain[h] /\ h \notin replaced
        BY <2>2, <3>1 DEF Longer
      <3> QED BY <1>3, <2>2, <3>2
    <2> QED BY <1>3, <2>1, <2>2 DEF Covered, Known
  <1> QED BY <1>2, <1>3 DEF Covered

\* The chain of now, or one block more.
LEMMA ChainGrows ==
  ASSUME NEW s, chain \in Seq(Worker \cup {Other}), replaced' = replaced,
         \/ chain' = chain
         \/ \E b \in Worker \cup {Other} : chain' = Append(chain, b)
  PROVE  Longer(s)
  <1>1. CASE chain' = chain
    BY <1>1 DEF Longer
  <1>2. CASE \E b \in Worker \cup {Other} : chain' = Append(chain, b)
    BY <1>2 DEF Longer
  <1> QED BY <1>1, <1>2

\* A step that leaves the poller alone.
LEMMA PollerUntouched ==
  ASSUME HistoryInv, World', \A s \in {memory, disk} : Longer(s),
         UNCHANGED <<memory, disk, cut>>,
         \A s \in States :
            Accounted(s) => AccountedFor(s, found', status', CountersNow')
  PROVE  HistoryInv'
  <1>1. chain \in Seq(Worker \cup {Other})
    BY DEF HistoryInv, World
  <1>2. Polled'
    <2> SUFFICES ASSUME NEW s \in {memory, disk}
                 PROVE  s \in States' /\ Covered(s)'
      BY DEF Polled
    <2>1. s \in States /\ Covered(s)
      BY DEF HistoryInv, Polled
    <2> QED BY <1>1, <2>1, StatesStay, CoveredStays
  <1>3. Credits'
    <2>1. \A s \in {memory, disk} : s \in States
      BY DEF HistoryInv, Polled
    <2>2. cut \/ \A s \in {memory, disk} :
                    AccountedFor(s, found', status', CountersNow')
      BY <2>1 DEF HistoryInv, Credits
    <2>3. cut' \/ \A s \in {memory', disk'} :
                    AccountedFor(s, found', status', CountersNow')
      BY <2>2
    <2> QED BY <2>3 DEF Credits, Accounted
  <1> QED BY <1>2, <1>3 DEF HistoryInv

LEMMA TickStep == HistoryInv /\ Tick => HistoryInv'
  <1> SUFFICES ASSUME HistoryInv, Tick PROVE HistoryInv'
    OBVIOUS
  <1> DEFINE now == CountersNow
             next == CountersNow'
             g == [w \in Worker |-> 0]
  <1>1. World
    BY DEF HistoryInv
  <1>2. /\ clock' = clock + 1 /\ chain' = chain
        /\ UNCHANGED <<found, pool, status, memory, disk, faults, replaced, cut>>
    BY DEF Tick
  <1>3. World'
    BY <1>1, <1>2 DEF World, Pool
  <1>4. \A s : Longer(s)
    BY <1>1, <1>2, ChainGrows DEF World
  <1>5. /\ next.blocks = now.blocks /\ now.blocks \in Counts
        /\ next.runtime = now.runtime + 1
        /\ next.lastupdate = now.lastupdate + 1
        /\ now.runtime \in Int /\ now.lastupdate \in Nat
    <2>1. pool.started \in Nat /\ pool.blocks \in Counts /\ clock \in Nat
      BY <1>1 DEF World, Pool
    <2> QED BY <1>2, <2>1 DEF CountersNow
  <1> HIDE DEF now, next
  <1>6. ASSUME NEW s, NEW w \in Worker, s.runtime \in Int, s.lastupdate \in Nat,
               s.blocks \in Counts
        PROVE  Gain(s, next, w) <= Gain(s, now, w)
    <2>1. StartsAgain(s, next) => StartsAgain(s, now)
      BY <1>5, <1>6 DEF StartsAgain
    <2> QED BY <1>5, <1>6, <2>1, GainLater
  <1>7. ASSUME NEW s \in States, Accounted(s)
        PROVE  AccountedFor(s, found', status', next)
    <2>1. g \in [Worker -> Nat] /\ \A w \in Worker : g[w] = 0
      OBVIOUS
    <2>2. ASSUME NEW w \in Worker
          PROVE  /\ found[w] = found[w] + g[w]
                 /\ Gain(s, next, w) <= Gain(s, CountersNow, w) + g[w]
                 /\ Gain(status, next, w) <= Gain(status, CountersNow, w) + g[w]
      <3>1. /\ s.runtime \in Int /\ s.lastupdate \in Nat /\ s.blocks \in Counts
            /\ status.runtime \in Int /\ status.lastupdate \in Nat
            /\ status.blocks \in Counts
        BY <1>1 DEF World, States, State, Status
      <3>2. /\ Gain(s, next, w) <= Gain(s, now, w)
            /\ Gain(status, next, w) <= Gain(status, now, w)
        BY <1>6, <3>1
      <3>3. /\ found[w] \in Nat /\ Gain(s, now, w) \in Nat
            /\ Gain(status, now, w) \in Nat
        BY <1>1, <1>7, NumbersType DEF now
      <3>4. Gain(s, next, w) \in Nat /\ Gain(status, next, w) \in Nat
        BY <1>5, <3>1, GainType
      <3> QED BY <2>1, <3>2, <3>3, <3>4 DEF now
    <2>3. found \in Counts /\ next.blocks \in Counts
      BY <1>1, <1>5 DEF World
    <2> HIDE DEF g
    <2>4. AccountedFor(s, found, status, next)
      BY <1>1, <1>7, <2>1, <2>2, <2>3, StillAccounted
    <2> QED BY <1>2, <2>4
  <1> QED BY <1>2, <1>3, <1>4, <1>7, PollerUntouched DEF next

\* A find of v's is one more that v may be credited.
LEMMA FindBlockStep ==
  ASSUME HistoryInv, NEW v \in Worker, FindBlock(v)
  PROVE  HistoryInv'
  <1> DEFINE now == CountersNow
             next == CountersNow'
             g == [w \in Worker |-> IF w = v THEN 1 ELSE 0]
  <1>1. World
    BY DEF HistoryInv
  <1>2. /\ found' = [found EXCEPT ![v] = @ + 1]
        /\ pool' = [pool EXCEPT !.blocks[v] = @ + 1]
        /\ \/ chain' = chain
           \/ Len(chain) < MaxTip /\ chain' = Append(chain, v)
        /\ UNCHANGED <<clock, status, memory, disk, faults, replaced, cut>>
    BY DEF FindBlock
  <1>3. \A s : Longer(s)
    BY <1>1, <1>2, ChainGrows DEF World
  <1>4. /\ found' \in Counts /\ pool' \in Pool
        /\ pool'.started = pool.started
        /\ \A w \in Worker : /\ found'[w] = found[w] + g[w]
                             /\ pool'.blocks[w] = pool.blocks[w] + g[w]
                             /\ g[w] \in Nat
    <2>1. found \in Counts /\ pool \in Pool /\ pool.blocks \in Counts
      BY <1>1 DEF World, Pool
    <2>2. found' \in Counts /\ \A w \in Worker : found'[w] = found[w] + g[w]
      BY <1>2, <2>1 DEF Counts
    <2>3. /\ pool'.started = pool.started
          /\ pool'.blocks = [pool.blocks EXCEPT ![v] = @ + 1]
          /\ pool' \in Pool
      <3> DEFINE b == [pool.blocks EXCEPT ![v] = @ + 1]
      <3>1. b \in Counts
        BY <2>1 DEF Counts
      <3>2. pool' = [pool EXCEPT !.blocks = b]
        BY <1>2
      <3> HIDE DEF b
      <3>3. pool'.started = pool.started /\ pool'.blocks = b /\ pool' \in Pool
        BY <2>1, <3>1, <3>2 DEF Pool
      <3> QED BY <3>3 DEF b
    <2> QED BY <2>1, <2>2, <2>3 DEF Counts
  <1>5. World'
    <2>1. Len(chain') <= MaxTip
      BY <1>1, <1>2, BoundsAssumption DEF World
    <2> QED BY <1>1, <1>2, <1>3, <1>4, <2>1 DEF World, Longer
  <1>6. /\ next.runtime = now.runtime /\ next.lastupdate = now.lastupdate
        /\ now.blocks \in Counts /\ next.blocks \in Counts
        /\ \A w \in Worker : next.blocks[w] = now.blocks[w] + g[w]
    <2>1. pool.blocks \in Counts /\ pool'.blocks \in Counts
      BY <1>1, <1>4 DEF World, Pool
    <2> QED BY <1>2, <1>4, <2>1 DEF CountersNow
  <1> HIDE DEF now, next
  <1>7. ASSUME NEW s, NEW w \in Worker, s.blocks \in Counts
        PROVE  Gain(s, next, w) <= Gain(s, now, w) + g[w]
    <2>1. StartsAgain(s, next) <=> StartsAgain(s, now)
      BY <1>6 DEF StartsAgain
    <2>2. g[w] \in Nat
      OBVIOUS
    <2> HIDE DEF g
    <2> QED BY <1>6, <1>7, <2>1, <2>2, GainMore
  <1>8. ASSUME NEW s \in States, Accounted(s)
        PROVE  AccountedFor(s, found', status', next)
    <2>1. g \in [Worker -> Nat]
      OBVIOUS
    <2>2. s.blocks \in Counts /\ status.blocks \in Counts
      BY <1>1 DEF World, States, State, Status
    <2> HIDE DEF g
    <2>3. AccountedFor(s, found', status, next)
      BY <1>1, <1>4, <1>6, <1>7, <1>8, <2>1, <2>2, StillAccounted DEF now
    <2> QED BY <1>2, <2>3
  <1> QED BY <1>2, <1>3, <1>5, <1>8, PollerUntouched DEF next

LEMMA OtherBlockStep == HistoryInv /\ OtherBlock => HistoryInv'
  <1> SUFFICES ASSUME HistoryInv, OtherBlock PROVE HistoryInv'
    OBVIOUS
  <1>1. World
    BY DEF HistoryInv
  <1>2. /\ Len(chain) < MaxTip /\ chain' = Append(chain, Other)
        /\ UNCHANGED <<clock, found, pool, status, memory, disk, faults, replaced, cut>>
    BY DEF OtherBlock
  <1>3. \A s : Longer(s)
    BY <1>1, <1>2, ChainGrows DEF World
  <1>4. World'
    <2>1. Len(chain') <= MaxTip
      BY <1>1, <1>2, BoundsAssumption DEF World
    <2> QED BY <1>1, <1>2, <1>3, <2>1 DEF World, Longer
  <1>5. CountersNow' = CountersNow
    BY <1>2 DEF CountersNow
  <1>6. \A s \in States :
           Accounted(s) => AccountedFor(s, found', status', CountersNow')
    BY <1>2, <1>5 DEF Accounted
  <1> QED BY <1>2, <1>3, <1>4, <1>6, PollerUntouched

\* A branch that takes blocks out says nothing about CKPool's counters.
LEMMA ReorganiseStep == HistoryInv /\ Reorganise => HistoryInv'
  <1> SUFFICES ASSUME HistoryInv, Reorganise PROVE HistoryInv'
    OBVIOUS
  <1>1. /\ World /\ chain \in Seq(Worker \cup {Other}) /\ Len(chain) \in Nat
        /\ replaced \in SUBSET Nat
    BY DEF HistoryInv, World
  <1>2. PICK fork \in 0 .. Len(chain) - 1 :
          \E branch \in [1 .. Len(chain) - fork + 1 -> Worker \cup {Other}] :
            /\ Len(chain) < MaxTip
            /\ chain' = SubSeq(chain, 1, fork) \o branch
    BY DEF Reorganise
  <1>3. PICK branch \in [1 .. Len(chain) - fork + 1 -> Worker \cup {Other}] :
            /\ Len(chain) < MaxTip
            /\ chain' = SubSeq(chain, 1, fork) \o branch
    BY <1>2
  <1>4. /\ chain' \in Seq(Worker \cup {Other}) /\ Len(chain') = Len(chain) + 1
        /\ Len(chain') <= MaxTip
    <2>1. fork \in Nat /\ Len(chain) - fork + 1 \in Nat /\ fork <= Len(chain)
      BY <1>1
    <2>2. /\ branch \in Seq(Worker \cup {Other})
          /\ Len(branch) = Len(chain) - fork + 1
      BY <2>1
    <2>3. /\ SubSeq(chain, 1, fork) \in Seq(Worker \cup {Other})
          /\ Len(SubSeq(chain, 1, fork)) = fork
      BY <1>1, <2>1
    <2>4. /\ chain' \in Seq(Worker \cup {Other})
          /\ Len(chain') = fork + (Len(chain) - fork + 1)
      BY <1>3, <2>2, <2>3
    <2> QED BY <1>1, <1>3, <2>1, <2>4, BoundsAssumption
  <1>5. /\ faults' = faults + 1
        /\ replaced' = replaced \cup
              {h \in 1 .. Len(chain) :
                  /\ chain'[h] # chain[h]
                  /\ \E s \in {memory, disk} : h <= s.scanned}
        /\ UNCHANGED <<clock, found, pool, status, memory, disk, cut>>
    BY DEF Reorganise
  <1>6. World'
    <2>1. replaced' \in SUBSET Nat
      <3>1. \A h \in 1 .. Len(chain) : h \in Nat
        BY <1>1
      <3> QED BY <1>1, <1>5, <3>1
    <2> QED BY <1>1, <1>4, <1>5, <2>1 DEF World
  <1>7. \A s \in {memory, disk} : Longer(s)
    BY <1>1, <1>4, <1>5 DEF Longer
  <1>8. CountersNow' = CountersNow
    BY <1>5 DEF CountersNow
  <1>9. \A s \in States :
           Accounted(s) => AccountedFor(s, found', status', CountersNow')
    BY <1>5, <1>8 DEF Accounted
  <1> QED BY <1>5, <1>6, <1>7, <1>9, PollerUntouched

\* What the status file has is no longer to come.
LEMMA WriteStatusStep == HistoryInv /\ WriteStatus => HistoryInv'
  <1> SUFFICES ASSUME HistoryInv, WriteStatus PROVE HistoryInv'
    OBVIOUS
  <1> DEFINE now == CountersNow
  <1>1. World
    BY DEF HistoryInv
  <1>2. /\ status' = now
        /\ UNCHANGED <<clock, chain, found, pool, memory, disk, faults, replaced, cut>>
    BY DEF WriteStatus, CountersNow
  <1>3. now \in Status /\ CountersNow' = now
    BY <1>1, <1>2, NowType DEF CountersNow
  <1>4. World' /\ \A s : Longer(s)
    BY <1>1, <1>2, <1>3, ChainGrows DEF World
  <1> HIDE DEF now
  <1>5. ASSUME NEW s \in States, Accounted(s)
        PROVE  AccountedFor(s, found, now, now)
    <2> SUFFICES ASSUME NEW w \in Worker
                 PROVE  /\ Named(s, w) + Gain(s, now, w) <= found[w]
                        /\ Named(s, w) + Gain(s, now, w) + Gain(now, now, w)
                             <= found[w]
      BY DEF AccountedFor
    <2>1. Named(s, w) \in Nat /\ Gain(s, now, w) \in Nat
      BY <1>1, NumbersType DEF now
    <2>2. Named(s, w) + Gain(s, now, w) <= found[w]
      BY <1>5 DEF Accounted, AccountedFor, now
    <2>3. Gain(now, now, w) = 0
      BY <1>3, GainAgain
    <2> QED BY <2>1, <2>2, <2>3
  <1>6. \A s \in States :
           Accounted(s) => AccountedFor(s, found', status', CountersNow')
    BY <1>2, <1>3, <1>5
  <1> QED BY <1>2, <1>4, <1>6, PollerUntouched

\* Counters that start again have nothing to come but what the file has.
LEMMA RestartPoolStep == HistoryInv /\ RestartPool => HistoryInv'
  <1> SUFFICES ASSUME HistoryInv, RestartPool PROVE HistoryInv'
    OBVIOUS
  <1> DEFINE next == CountersNow'
  <1>1. World
    BY DEF HistoryInv
  <1>2. /\ pool' = [started |-> clock, blocks |-> NoBlocks]
        /\ faults' = faults + 1
        /\ UNCHANGED <<clock, chain, found, status, memory, disk, replaced, cut>>
    BY DEF RestartPool
  <1>3. /\ pool' \in Pool /\ pool'.started = clock
        /\ \A w \in Worker : pool'.blocks[w] = 0
    BY <1>1, <1>2 DEF World, Pool, Counts, NoBlocks
  <1>4. World' /\ \A s : Longer(s)
    <2>1. \A s : Longer(s)
      BY <1>1, <1>2, ChainGrows DEF World
    <2> QED BY <1>1, <1>2, <1>3, <2>1 DEF World
  <1>5. \A w \in Worker : next.blocks[w] = 0
    BY <1>3 DEF CountersNow
  <1> HIDE DEF next
  <1>6. ASSUME NEW s \in States, Accounted(s)
        PROVE  AccountedFor(s, found, status, next)
    <2> SUFFICES ASSUME NEW w \in Worker
                 PROVE  /\ Named(s, w) + Gain(s, next, w) <= found[w]
                        /\ Named(s, w) + Gain(s, status, w)
                             + Gain(status, next, w) <= found[w]
      BY DEF AccountedFor
    <2>1. s.blocks \in Counts /\ status.blocks \in Counts
      BY <1>1 DEF World, States, State, Status
    <2>2. Gain(s, next, w) = 0 /\ Gain(status, next, w) = 0
      BY <1>5, <2>1, GainNone
    <2>3. /\ Named(s, w) \in Nat /\ Gain(s, status, w) \in Nat
          /\ Gain(status, CountersNow, w) \in Nat /\ found[w] \in Nat
      BY <1>1, NumbersType
    <2>4. Named(s, w) + Gain(s, status, w) + Gain(status, CountersNow, w)
             <= found[w]
      BY <1>6 DEF Accounted, AccountedFor
    <2> QED BY <2>2, <2>3, <2>4
  <1>7. \A s \in States :
           Accounted(s) => AccountedFor(s, found', status', CountersNow')
    BY <1>2, <1>6 DEF next
  <1> QED BY <1>2, <1>4, <1>7, PollerUntouched

-----------------------------------------------------------------------------
(* A poll.                                                                 *)

\* A state that took the status file's counters has only the rest to come.
LEMMA PolledAccounted ==
  ASSUME World, NEW s \in States, NEW t \in States, Accounted(s),
         t.runtime = status.runtime, t.lastupdate = status.lastupdate,
         t.blocks = status.blocks,
         \A w \in Worker : Named(t, w) <= Named(s, w) + Gain(s, status, w)
  PROVE  Accounted(t)
  <1> SUFFICES ASSUME NEW w \in Worker
               PROVE  /\ Named(t, w) + Gain(t, CountersNow, w) <= found[w]
                      /\ Named(t, w) + Gain(t, status, w)
                           + Gain(status, CountersNow, w) <= found[w]
    BY DEF Accounted, AccountedFor
  <1>1. status \in Status
    BY DEF World
  <1>2. /\ Gain(t, status, w) = 0
        /\ Gain(t, CountersNow, w) = Gain(status, CountersNow, w)
    BY <1>1, GainAgain
  <1>3. Named(s, w) + Gain(s, status, w) + Gain(status, CountersNow, w) <= found[w]
    BY DEF Accounted, AccountedFor
  <1>4. /\ Named(s, w) \in Nat /\ Named(t, w) \in Nat /\ found[w] \in Nat
        /\ Gain(s, status, w) \in Nat /\ Gain(status, CountersNow, w) \in Nat
    BY NumbersType
  <1>5. Named(t, w) <= Named(s, w) + Gain(s, status, w)
    OBVIOUS
  <1> QED BY <1>2, <1>3, <1>4, <1>5

\* What one turn of the poller leaves in memory.
LEMMA TurnKeeps ==
  ASSUME HistoryInv, Poll
  PROVE  /\ memory' \in States /\ Covered(memory')
         /\ cut' \in BOOLEAN
         /\ cut' \/ (~cut /\ Accounted(memory'))
  <1> DEFINE s == memory
             m == Snapshot(s)
  <1>1. /\ World /\ status \in Status /\ chain \in Seq(Worker \cup {Other})
        /\ Len(chain) <= MaxTip /\ clock \in Nat /\ cut \in BOOLEAN
        /\ s \in States /\ Covered(s)
        /\ cut \/ Accounted(s)
    BY DEF HistoryInv, World, Polled, Credits
  <1>2. /\ m \in States
        /\ m.runtime = status.runtime /\ m.lastupdate = status.lastupdate
        /\ m.blocks = status.blocks /\ m.scanned = s.scanned
        /\ \A h : Known(m, h) <=> Known(s, h)
        /\ \A w \in Worker : Named(m, w) <= Named(s, w) + Gain(s, status, w)
    BY <1>1, SnapshotKeeps DEF m
  <1>3. \/ memory' = m /\ cut' = cut
        \/ \E last \in (ScanStart(m) - 1) .. Len(chain) :
              memory' = ScanTo(m, last) /\ cut' = (cut \/ TakenUntil(m, last))
    BY DEF Poll
  <1> HIDE DEF m
  <1>4. Covered(m)
    BY <1>1, <1>2, CoveredSame
  <1>5. CASE memory' = m /\ cut' = cut
    <2>1. cut \/ Accounted(m)
      BY <1>1, <1>2, PolledAccounted
    <2> QED BY <1>1, <1>2, <1>4, <1>5, <2>1
  <1>6. ASSUME NEW last \in (ScanStart(m) - 1) .. Len(chain),
               memory' = ScanTo(m, last), cut' = (cut \/ TakenUntil(m, last))
        PROVE  /\ memory' \in States /\ Covered(memory')
               /\ cut' \in BOOLEAN
               /\ cut' \/ (~cut /\ Accounted(memory'))
    <2> DEFINE t == ScanTo(m, last)
    <2>1. /\ t \in States /\ Covered(t)
          /\ t.runtime = m.runtime /\ t.lastupdate = m.lastupdate
          /\ t.blocks = m.blocks
          /\ ~TakenUntil(m, last) =>
                \A w \in Worker : Named(t, w) <= Named(m, w)
      BY <1>1, <1>2, <1>4, ScanKeeps
    <2> HIDE DEF t
    <2>2. CASE ~cut /\ ~TakenUntil(m, last)
      <3>1. ASSUME NEW w \in Worker
            PROVE  Named(t, w) <= Named(s, w) + Gain(s, status, w)
        <4>1. Named(t, w) <= Named(m, w)
          BY <2>1, <2>2
        <4>2. Named(m, w) <= Named(s, w) + Gain(s, status, w)
          BY <1>2
        <4>3. /\ Named(t, w) \in Nat /\ Named(m, w) \in Nat
              /\ Named(s, w) \in Nat /\ Gain(s, status, w) \in Nat
          BY <1>1, <1>2, <2>1, NumbersType
        <4> QED BY <4>1, <4>2, <4>3
      <3>2. Accounted(t)
        BY <1>1, <1>2, <2>1, <2>2, <3>1, PolledAccounted
      <3> QED BY <1>6, <2>1, <2>2, <3>2 DEF t
    <2>3. CASE cut \/ TakenUntil(m, last)
      <3>1. cut'
        BY <1>6, <2>3
      <3>2. cut' \in BOOLEAN
        BY <1>6
      <3> QED BY <1>6, <2>1, <3>1, <3>2 DEF t
    <2> QED BY <2>2, <2>3
  <1> QED BY <1>3, <1>5, <1>6

LEMMA PollStep == HistoryInv /\ Poll => HistoryInv'
  <1> SUFFICES ASSUME HistoryInv, Poll PROVE HistoryInv'
    OBVIOUS
  <1>1. /\ World /\ disk \in States /\ Covered(disk)
        /\ cut \/ Accounted(disk)
    BY DEF HistoryInv, Polled, Credits
  <1>2. /\ \/ disk' = memory' /\ faults' = faults
           \/ disk' = disk /\ faults' = faults + 1
        /\ UNCHANGED <<clock, chain, found, pool, status, replaced>>
    BY DEF Poll
  <1>3. /\ memory' \in States /\ Covered(memory')
        /\ cut' \in BOOLEAN
        /\ cut' \/ (~cut /\ Accounted(memory'))
    BY TurnKeeps
  <1>4. World'
    BY <1>1, <1>2, <1>3 DEF World
  <1>5. (\A s : Longer(s)) /\ chain \in Seq(Worker \cup {Other})
    BY <1>1, <1>2, ChainGrows DEF World
  <1>6. disk' = memory' \/ disk' = disk
    BY <1>2
  <1>7. Polled'
    <2>1. \A s \in {memory', disk'} : s \in States /\ Covered(s)
      BY <1>1, <1>3, <1>6
    <2>2. \A s \in {memory', disk'} : s \in States' /\ Covered(s)'
      BY <1>5, <2>1, StatesStay, CoveredStays
    <2> QED BY <2>2 DEF Polled
  <1>8. Credits'
    <2>1. cut' \/ \A s \in {memory', disk'} : Accounted(s)
      BY <1>1, <1>3, <1>6
    <2>2. status' = status /\ found' = found /\ CountersNow' = CountersNow
      BY <1>2 DEF CountersNow
    <2> QED BY <2>1, <2>2 DEF Credits, Accounted
  <1> QED BY <1>4, <1>7, <1>8 DEF HistoryInv

LEMMA RestartPollerStep == HistoryInv /\ RestartPoller => HistoryInv'
  <1> SUFFICES ASSUME HistoryInv, RestartPoller PROVE HistoryInv'
    OBVIOUS
  <1>1. /\ memory' = disk /\ disk' = disk /\ faults' = faults + 1
        /\ UNCHANGED <<clock, chain, found, pool, status, replaced, cut>>
    BY DEF RestartPoller
  <1>2. World'
    BY <1>1 DEF HistoryInv, World
  <1>3. (\A s : Longer(s)) /\ chain \in Seq(Worker \cup {Other})
    BY <1>1, ChainGrows DEF HistoryInv, World
  <1>4. Polled'
    <2>1. disk \in States /\ Covered(disk)
      BY DEF HistoryInv, Polled
    <2>2. \A s \in {memory', disk'} : s \in States /\ Covered(s)
      BY <1>1, <2>1
    <2>3. \A s \in {memory', disk'} : s \in States' /\ Covered(s)'
      BY <1>3, <2>2, StatesStay, CoveredStays
    <2> QED BY <2>3 DEF Polled
  <1>5. Credits'
    <2>1. cut' \/ \A s \in {memory', disk'} : Accounted(s)
      BY <1>1 DEF HistoryInv, Credits
    <2>2. status' = status /\ found' = found /\ CountersNow' = CountersNow
      BY <1>1 DEF CountersNow
    <2> QED BY <2>1, <2>2 DEF Credits, Accounted
  <1> QED BY <1>2, <1>4, <1>5 DEF HistoryInv

LEMMA HistoryNext == HistoryInv /\ [Next]_vars => HistoryInv'
  <1> SUFFICES ASSUME HistoryInv, [Next]_vars PROVE HistoryInv'
    OBVIOUS
  <1>1. CASE Tick
    BY <1>1, TickStep
  <1>2. ASSUME NEW w \in Worker, FindBlock(w) PROVE HistoryInv'
    BY <1>2, FindBlockStep
  <1>3. CASE OtherBlock
    BY <1>3, OtherBlockStep
  <1>4. CASE WriteStatus
    BY <1>4, WriteStatusStep
  <1>5. CASE RestartPool
    BY <1>5, RestartPoolStep
  <1>6. CASE Poll
    BY <1>6, PollStep
  <1>7. CASE RestartPoller
    BY <1>7, RestartPollerStep
  <1>8. CASE Reorganise
    BY <1>8, ReorganiseStep
  <1>9. CASE UNCHANGED vars
    <2>1. UNCHANGED <<clock, chain, found, pool, status, memory, disk, faults, replaced, cut>>
      BY <1>9 DEF vars
    <2>2. World' /\ \A s : Longer(s)
      BY <2>1, ChainGrows DEF HistoryInv, World
    <2>3. CountersNow' = CountersNow
      BY <2>1 DEF CountersNow
    <2>4. \A s \in States :
             Accounted(s) => AccountedFor(s, found', status', CountersNow')
      BY <2>1, <2>3 DEF Accounted
    <2> QED BY <2>1, <2>2, <2>4, PollerUntouched
  <1> QED
    BY <1>1, <1>2, <1>3, <1>4, <1>5, <1>6, <1>7, <1>8, <1>9 DEF Next

LEMMA HistoryAlways == Spec => []HistoryInv
  <1> QED BY HistoryInit, HistoryNext, PTL DEF Spec

-----------------------------------------------------------------------------
(* What the invariant says of the history.                                 *)

(***************************************************************************)
(* The poller's state keeps its type in memory and in the file: rows stay  *)
(* rows of blocks, with one row per height, whatever snapshot and          *)
(* scan_qbit_blocks do to them and whichever state a restart loads.        *)
(***************************************************************************)
THEOREM TypeCorrect == Spec => []TypeOK
  <1>1. HistoryInv => TypeOK
    BY DEF HistoryInv, World, Polled, States, TypeOK
  <1> QED BY <1>1, HistoryAlways, PTL

(***************************************************************************)
(* For any workers, matching window and number of faults, no worker is     *)
(* named for more blocks than it found: snapshot's deltas and resets and   *)
(* scan_qbit_blocks' use of waiting events pay each find once, unless a    *)
(* scan was cut short after it had given events to blocks.                 *)
(***************************************************************************)
THEOREM OneFindOneCredit == Spec => []CreditedOnce
  <1>1. HistoryInv => CreditedOnce
    <2> SUFFICES ASSUME HistoryInv, ~cut, NEW s \in {memory, disk},
                        NEW w \in Worker
                 PROVE  Named(s, w) <= found[w]
      BY DEF CreditedOnce, NoCreditTwice
    <2>1. World /\ s \in States /\ Accounted(s)
      BY DEF HistoryInv, Polled, Credits
    <2>2. Named(s, w) + Gain(s, CountersNow, w) <= found[w]
      BY <2>1 DEF Accounted, AccountedFor
    <2>3. /\ Named(s, w) \in Nat /\ found[w] \in Nat
          /\ Gain(s, CountersNow, w) \in Nat
      BY <2>1, NumbersType
    <2> QED BY <2>2, <2>3
  <1> QED BY <1>1, HistoryAlways, PTL

(***************************************************************************)
(* Where the first scan reaches back to the first block, the rows up to    *)
(* the scanned height are those of the app's blocks, through failed calls, *)
(* failed writes and restarts (scan_qbit_blocks stores the height before   *)
(* the one it failed at), but for blocks a reorganisation took out later.  *)
(***************************************************************************)
THEOREM ScanComplete ==
  ASSUME MaxTip <= ScanBack
  PROVE  Spec => []ScannedRecorded
  <1>1. HistoryInv => ScannedRecorded
    <2> SUFFICES ASSUME HistoryInv, NEW s \in {memory, disk},
                        NEW h \in (1 .. s.scanned) \ replaced
                 PROVE  chain[h] \in Worker <=> Known(s, h)
      BY DEF ScannedRecorded
    <2>1. s \in States /\ Covered(s)
      BY DEF HistoryInv, Polled
    <2>2. s.scanned # -1
      <3>1. s.scanned \in Int
        BY <2>1 DEF States, State
      <3> QED BY <3>1
    <2>3. PICK start \in 1 .. Len(chain) + 1 :
             /\ s.scanned \in start - 1 .. Len(chain)
             /\ \A g : Known(s, g) => g \in start .. s.scanned
             /\ \A g \in (start .. s.scanned) \ replaced :
                   chain[g] \in Worker <=> Known(s, g)
             /\ MaxTip <= ScanBack => start = 1
      BY <2>1, <2>2 DEF Covered
    <2> QED BY <2>3
  <1> QED BY <1>1, HistoryAlways, PTL

\* No row is of another's block, and a block of the app's without a row is
\* older than every row.
GapFree ==
    \A s \in {memory, disk} : \A h \in (1 .. s.scanned) \ replaced :
        /\ Known(s, h) => chain[h] \in Worker
        /\ chain[h] \in Worker =>
              Known(s, h) \/ \A r \in s.history : h < r.height

(***************************************************************************)
(* However far the first scan reaches back, the history has no gap: only   *)
(* blocks older than all of its rows can be missing from it up to the      *)
(* scanned height, but for blocks a reorganisation brought in later.  A    *)
(* height that could not be read is read again by the next                 *)
(* scan_qbit_blocks before any later one.                                  *)
(***************************************************************************)
THEOREM NoGap == Spec => []GapFree
  <1>1. HistoryInv => GapFree
    <2> SUFFICES ASSUME HistoryInv, NEW s \in {memory, disk},
                        NEW h \in (1 .. s.scanned) \ replaced
                 PROVE  /\ Known(s, h) => chain[h] \in Worker
                        /\ chain[h] \in Worker =>
                              Known(s, h) \/ \A r \in s.history : h < r.height
      BY DEF GapFree
    <2>1. s \in States /\ Covered(s)
      BY DEF HistoryInv, Polled
    <2>2. /\ s.scanned \in Nat /\ h \in Nat /\ h <= s.scanned
          /\ \A r \in s.history : r.height \in Nat /\ Known(s, r.height)
      BY <2>1 DEF States, State, Entry, Known
    <2>3. PICK start \in 1 .. Len(chain) + 1 :
             /\ s.scanned \in start - 1 .. Len(chain)
             /\ \A g : Known(s, g) => g \in start .. s.scanned
             /\ \A g \in (start .. s.scanned) \ replaced :
                   chain[g] \in Worker <=> Known(s, g)
             /\ MaxTip <= ScanBack => start = 1
      <3>1. s.scanned # -1
        BY <2>2
      <3> QED BY <2>1, <3>1 DEF Covered
    <2>4. CASE h < start
      BY <2>2, <2>3, <2>4
    <2>5. CASE h >= start
      <3>1. h \in (start .. s.scanned) \ replaced
        BY <2>2, <2>5
      <3> QED BY <2>3, <3>1
    <2> QED BY <2>2, <2>4, <2>5
  <1> QED BY <1>1, HistoryAlways, PTL
=============================================================================
