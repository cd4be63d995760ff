---------------------------- MODULE GxTracked_proof ----------------------------
(***************************************************************************)
(* Proofs about the tracked buffers and the table that holds them, for any *)
(* addresses, ring length, table size and hash function.                   *)
(***************************************************************************)
EXTENDS GxTracked, FiniteSetTheorems, FunctionTheorems, WellFoundedInduction, TLAPS

------------------------------------------------------------------------------
(* What the two threads keep up between them. *)

\* The uploads of a queue for one buffer, by their places in it.
Uploads(q, a) == {k \in 1 .. Len(q) : q[k] = a}

\* A thread that is in a thunk is there with a buffer; the render thread is with the
\* upload at the head of the queue.
Busy == /\ mpc # "idle" => mbuf \in Addresses
        /\ rpc # "idle" => rbuf \in Addresses
        /\ rpc = "upload" => queue # <<>> /\ rbuf = Head(queue)

RefsInv == TypeOK /\ Busy /\ UploadsKeepAlive

\* The buffers whose lock was emulated.
Emulated == {a \in Addresses : open[a] = "emulated"}

\* The client locks only what it holds, and the thunks run only on that.
ClientHolds ==
    /\ \A a \in Addresses : open[a] # "no" => a \in owned
    /\ mpc \in {"track", "lock", "drain", "post"} => mbuf \in owned /\ open[mbuf] = "no"

\* The entry of a buffer that is gone is on its way out, and one that is to be
\* entered or uploaded is in the state that allows it.
EntriesFollow ==
    /\ mpc = "track" => table[mbuf] = "none"
    /\ mpc = "post" => table[mbuf] # "none"
    /\ mpc = "erase" => refs[mbuf] = 0
    /\ rpc = "erase" => refs[rbuf] = 0 /\ table[rbuf] # "none"
    /\ mpc = "erase" /\ rpc = "erase" => mbuf # rbuf
    /\ \A a \in Addresses : Uploads(queue, a) # {} => table[a] # "none"
    /\ \A a \in Addresses : refs[a] = 0 /\ table[a] # "none" =>
          (mpc = "erase" /\ a = mbuf) \/ (rpc = "erase" /\ a = rbuf)

LocksCounted ==
    /\ \A a \in Addresses : table[a] = "locked" <=> open[a] = "emulated"
    /\ IsFiniteSet(Emulated) /\ emulated = Cardinality(Emulated)

LocksInv == ClientHolds /\ EntriesFollow /\ LocksCounted

------------------------------------------------------------------------------
(* What a table of slots has to be. *)

Slots == 0 .. TableSize - 1

\* The slots a probe goes through from slot r until it is at slot s.
Away(r, s) == IF r <= s THEN s - r ELSE (s - r) + TableSize

\* Slot r is on the way of a probe from slot home to slot s.
OnWay(home, r, s) == Away(home, r) < Away(home, s)

\* The slots of S hold no key twice.
Once(t, S) == \A r, s \in S : t[r] = t[s] /\ t[r] # None => r = s

\* Whatever a slot of S holds is reached from its own slot over filled ones.
Reached(h, t, S) ==
    \A s \in S : t[s] # None => \A r \in Slots : OnWay(h[t[s]], r, s) => t[r] # None

\* Between operations.
Sound(h, t) == Once(t, Slots) /\ Reached(h, t, Slots)

\* In the loop of Erase: slot i is the hole, filled with what left it last, and
\* slot j is the last one looked at.  Of the entries whose way leads over the hole none
\* is between the two.
Shifting(h, t, k, i, j) ==
    /\ t[i] # None
    /\ Once(t, Slots \ {i}) /\ Reached(h, t, Slots \ {i})
    /\ \A s \in Slots \ {i} : t[s] # k
    /\ \A s \in Slots \ {i} : t[s] # None /\ OnWay(h[t[s]], i, s) => Away(i, j) < Away(i, s)
    /\ \A r \in Slots : Away(i, r) <= Away(i, j) => t[r] # None

\* The keys of some slots.
KeysIn(t, S) == {a \in Addresses : \E s \in S : t[s] = a}

Tracked == {a \in Addresses : table[a] # "none"}

TableInv ==
    /\ T!TypeOK
    /\ tpc = "idle" => Sound(hash, slots) /\ KeysIn(slots, Slots) = Tracked
    /\ tpc = "erase" => /\ Shifting(hash, slots, key, hole, probe)
                        /\ key \in Addresses
                        /\ KeysIn(slots, Slots \ {hole}) \cup {key} = Tracked

------------------------------------------------------------------------------
(* Slots and ways. *)

\* There is a slot.
LEMMA SizeType == TableSize \in Nat \ {0} /\ Slots \subseteq Int
  <1>1. Cardinality(Addresses) \in Nat
    BY TrackedAssumption, FS_CardinalityType
  <1> QED
    BY <1>1, TrackedAssumption DEF Slots

\* The remainder of a number less than two turns.
LEMMA TurnOnce ==
    ASSUME NEW x \in 0 .. 2 * TableSize - 1
    PROVE  x % TableSize = IF x < TableSize THEN x ELSE x - TableSize
  <1>1. ASSUME NEW r \in 0 .. TableSize - 1, NEW q \in Int, x = q * TableSize + r
        PROVE  x % TableSize = r
    BY <1>1, SizeType, SMT
  <1>2. CASE x < TableSize
    <2>1. x \in 0 .. TableSize - 1 /\ x = 0 * TableSize + x
      BY <1>2, SizeType
    <2> QED
      BY <1>1, <1>2, <2>1
  <1>3. CASE ~(x < TableSize)
    <2>1. x - TableSize \in 0 .. TableSize - 1 /\ x = 1 * TableSize + (x - TableSize)
      BY <1>3, SizeType
    <2> QED
      BY <1>1, <1>3, <2>1
  <1> QED
    BY <1>2, <1>3

\* The slot a number of steps after another.
LEMMA After ==
    ASSUME NEW r \in Slots, NEW n \in 0 .. TableSize
    PROVE  /\ (r + n) % TableSize \in Slots
           /\ (r + n) % TableSize = IF r + n < TableSize THEN r + n ELSE (r + n) - TableSize
  <1>1. r + n \in 0 .. 2 * TableSize - 1
    BY SizeType DEF Slots
  <1> QED
    BY <1>1, TurnOnce, SizeType DEF Slots

\* The n-th slot after another is n slots away, and every slot is some way off.
LEMMA AwayAfter ==
    ASSUME NEW r \in Slots
    PROVE  /\ \A n \in Slots : Away(r, (r + n) % TableSize) = n
           /\ \A s \in Slots : Away(r, s) \in Slots /\ (r + Away(r, s)) % TableSize = s
  <1>1. ASSUME NEW n \in Slots
        PROVE  Away(r, (r + n) % TableSize) = n
    <2>1. n \in 0 .. TableSize
      BY SizeType DEF Slots
    <2> DEFINE p == (r + n) % TableSize
    <2>2. p = IF r + n < TableSize THEN r + n ELSE (r + n) - TableSize
      BY <2>1, After
    <2> HIDE DEF p
    <2>3. Away(r, p) = n
      BY <2>2, SizeType DEF Away, Slots
    <2> QED
      BY <2>3 DEF p
  <1>2. ASSUME NEW s \in Slots
        PROVE  Away(r, s) \in Slots /\ (r + Away(r, s)) % TableSize = s
    <2>1. Away(r, s) \in 0 .. TableSize /\ Away(r, s) \in Slots
      BY SizeType DEF Slots, Away
    <2>2. r + Away(r, s) = s \/ r + Away(r, s) = s + TableSize
      BY SizeType DEF Slots, Away
    <2>3. (r + Away(r, s)) % TableSize =
             IF r + Away(r, s) < TableSize THEN r + Away(r, s) ELSE (r + Away(r, s)) - TableSize
      BY <2>1, After
    <2>4. s \in Int /\ 0 <= s /\ s < TableSize /\ TableSize \in Int
      BY SizeType DEF Slots
    <2> QED
      BY <2>1, <2>2, <2>3, <2>4
  <1> QED
    BY <1>1, <1>2

\* The slot after another one: it is a step further from any slot that is not it.
LEMMA AwayNext ==
    ASSUME NEW i \in Slots, NEW j \in Slots
    PROVE  /\ (j + 1) % TableSize \in Slots
           /\ (j + 1) % TableSize # i => Away(i, (j + 1) % TableSize) = Away(i, j) + 1
  <1>1. 1 \in 0 .. TableSize
    BY SizeType
  <1> DEFINE p == (j + 1) % TableSize
  <1>2. p \in Slots /\ p = IF j + 1 < TableSize THEN j + 1 ELSE (j + 1) - TableSize
    BY <1>1, After
  <1> HIDE DEF p
  <1>3. p # i => Away(i, p) = Away(i, j) + 1
    BY <1>2, SizeType DEF Away, Slots
  <1> QED
    BY <1>2, <1>3 DEF p

\* A way that leads over i and ends at s goes through every slot from i to s; and a
\* slot is on a way that goes on from a slot it is on.
LEMMA OnWayTurns ==
    ASSUME NEW home \in Slots, NEW i \in Slots, NEW s \in Slots, NEW r \in Slots
    PROVE  /\ OnWay(home, i, s) /\ Away(i, r) < Away(i, s) => OnWay(home, r, s)
           /\ OnWay(home, i, s) /\ OnWay(home, r, i) => OnWay(home, r, s)
           /\ OnWay(home, r, s) => r # s
           /\ s # i => Away(i, s) > 0
           /\ Away(s, r) <= 0 => r = s
           /\ Away(s, s) = 0
  BY SizeType DEF OnWay, Away, Slots

\* The test of Erase: the hole is on the entry's way.
LEMMA MovableIsOnWay ==
    ASSUME NEW home \in Slots, NEW i \in Slots, NEW s \in Slots, i # s
    PROVE  T!Movable(i, s, home) <=> OnWay(home, i, s)
  BY SizeType DEF OnWay, Away, Slots, T!Movable

------------------------------------------------------------------------------
(* The operations on the table of slots. *)

Tables == [Slots -> Addresses \cup {None}]
Hashes == [Addresses -> Slots]

\* A filled slot holds an address, which has a slot of its own.
LEMMA HomeType ==
    ASSUME NEW h \in Hashes, NEW t \in Tables, NEW s \in Slots, t[s] # None
    PROVE  t[s] \in Addresses /\ h[t[s]] \in Slots
  BY DEF Hashes, Tables

\* Erase finds the key of a sound table in one slot, its first hole.
LEMMA ErasingBegins ==
    ASSUME NEW h \in Hashes, NEW t \in Tables, NEW i \in Slots, Sound(h, t), t[i] # None
    PROVE  /\ Shifting(h, t, t[i], i, i)
           /\ KeysIn(t, Slots \ {i}) \cup {t[i]} = KeysIn(t, Slots)
  <1>1. Once(t, Slots \ {i}) /\ Reached(h, t, Slots \ {i})
    BY DEF Sound, Once, Reached
  <1>2. \A s \in Slots \ {i} : t[s] # t[i]
    BY DEF Sound, Once
  <1>3. \A s \in Slots \ {i} : t[s] # None /\ OnWay(h[t[s]], i, s) => Away(i, i) < Away(i, s)
    BY HomeType, OnWayTurns
  <1>4. \A r \in Slots : Away(i, r) <= Away(i, i) => t[r] # None
    BY OnWayTurns
  <1>5. t[i] \in Addresses
    BY HomeType
  <1> QED
    BY <1>1, <1>2, <1>3, <1>4, <1>5 DEF Shifting, KeysIn

\* An entry whose way does not lead over the hole stays, and the loop goes on.
LEMMA ErasingSkips ==
    ASSUME NEW h \in Hashes, NEW t \in Tables, NEW k, NEW i \in Slots, NEW j \in Slots,
           NEW s \in Slots, s = (j + 1) % TableSize,
           Shifting(h, t, k, i, j), t[s] # None, s # i => ~OnWay(h[t[s]], i, s)
    PROVE  Shifting(h, t, k, i, s)
  <1>1. CASE s = i
    <2>1. \A r \in Slots \ {i} : t[r] # None /\ OnWay(h[t[r]], i, r) => Away(i, s) < Away(i, r)
      BY <1>1, HomeType, OnWayTurns
    <2>2. \A r \in Slots : Away(i, r) <= Away(i, s) => t[r] # None
      BY <1>1, OnWayTurns DEF Shifting
    <2> QED
      BY <2>1, <2>2 DEF Shifting
  <1>2. CASE s # i
    <2>1. Away(i, s) = Away(i, j) + 1
      BY <1>2, AwayNext
    <2>2. ASSUME NEW r \in Slots \ {i}, t[r] # None, OnWay(h[t[r]], i, r)
          PROVE  Away(i, s) < Away(i, r)
      <3>1. Away(i, j) < Away(i, r) /\ r # s
        BY <1>2, <2>2 DEF Shifting
      <3>2. Away(i, r) # Away(i, s)
        BY <3>1, AwayAfter
      <3>3. Away(i, r) \in Int /\ Away(i, j) \in Int
        BY AwayAfter, SizeType
      <3> QED
        BY <2>1, <3>1, <3>2, <3>3
    <2>3. ASSUME NEW r \in Slots, Away(i, r) <= Away(i, s)
          PROVE  t[r] # None
      <3>1. CASE r = s
        BY <3>1
      <3>2. CASE r # s
        <4>1. Away(i, r) # Away(i, s)
          BY <3>2, AwayAfter
        <4>2. Away(i, r) \in Int /\ Away(i, j) \in Int
          BY AwayAfter, SizeType
        <4>3. Away(i, r) <= Away(i, j)
          BY <2>1, <2>3, <4>1, <4>2
        <4> QED
          BY <4>3 DEF Shifting
      <3> QED
        BY <3>1, <3>2
    <2> QED
      BY <2>2, <2>3 DEF Shifting
  <1> QED
    BY <1>1, <1>2

\* An entry whose way leads over the hole fills it, and leaves a hole.
LEMMA ErasingShifts ==
    ASSUME NEW h \in Hashes, NEW t \in Tables, NEW k, NEW i \in Slots, NEW j, NEW s \in Slots,
           Shifting(h, t, k, i, j), t[s] # None, s # i, OnWay(h[t[s]], i, s)
    PROVE  /\ Shifting(h, [t EXCEPT ![i] = t[s]], k, s, s)
           /\ KeysIn([t EXCEPT ![i] = t[s]], Slots \ {s}) = KeysIn(t, Slots \ {i})
  <1> DEFINE u == [t EXCEPT ![i] = t[s]]
  <1>1. u \in Tables
    BY DEF Tables
  <1>2. \A r \in Slots : u[r] = IF r = i THEN t[s] ELSE t[r]
    BY DEF Tables
  <1> HIDE DEF u
  <1>3. \A r \in Slots : t[r] # None => u[r] # None
    BY <1>2
  <1>4. u[s] # None
    BY <1>2
  <1>5. Once(u, Slots \ {s})
    BY <1>2 DEF Once, Shifting
  <1>6. ASSUME NEW q \in Slots \ {s}, u[q] # None, NEW r \in Slots, OnWay(h[u[q]], r, q)
        PROVE  u[r] # None
    <2>1. CASE q = i
      <3>1. u[q] = t[s] /\ h[t[s]] \in Slots
        BY <1>2, <2>1, HomeType
      <3>2. OnWay(h[t[s]], r, s)
        BY <1>6, <2>1, <3>1, OnWayTurns
      <3>3. t[r] # None
        BY <3>2 DEF Shifting, Reached
      <3> QED
        BY <1>3, <3>3
    <2>2. CASE q # i
      <3>1. t[q] = u[q]
        BY <1>2, <2>2
      <3>2. t[r] # None
        BY <1>6, <2>2, <3>1 DEF Shifting, Reached
      <3> QED
        BY <1>3, <3>2
    <2> QED
      BY <2>1, <2>2
  <1>7. \A r \in Slots \ {s} : u[r] # k
    BY <1>2 DEF Shifting
  <1>8. \A r \in Slots \ {s} : u[r] # None /\ OnWay(h[u[r]], s, r) => Away(s, s) < Away(s, r)
    BY <1>1, HomeType, OnWayTurns
  <1>9. \A r \in Slots : Away(s, r) <= Away(s, s) => u[r] # None
    BY <1>4, OnWayTurns
  <1>10. KeysIn(u, Slots \ {s}) = KeysIn(t, Slots \ {i})
    BY <1>2 DEF KeysIn
  <1>11. Reached(h, u, Slots \ {s})
    BY <1>6 DEF Reached
  <1>12. Shifting(h, u, k, s, s)
    BY <1>4, <1>5, <1>7, <1>8, <1>9, <1>11 DEF Shifting
  <1> QED
    BY <1>10, <1>12 DEF u

\* An empty slot ends the loop: no way leads over the hole.
LEMMA ErasingEnds ==
    ASSUME NEW h \in Hashes, NEW t \in Tables, NEW k, NEW i \in Slots, NEW j \in Slots,
           Shifting(h, t, k, i, j), t[(j + 1) % TableSize] = None
    PROVE  /\ Sound(h, [t EXCEPT ![i] = None])
           /\ KeysIn([t EXCEPT ![i] = None], Slots) = KeysIn(t, Slots \ {i})
  <1> DEFINE u == [t EXCEPT ![i] = None]
             e == (j + 1) % TableSize
  <1>1. \A r \in Slots : u[r] = IF r = i THEN None ELSE t[r]
    BY DEF Tables
  <1>2. t[e] = None /\ e \in Slots /\ e # i
    BY AwayNext DEF Shifting
  <1>3. Away(i, e) = Away(i, j) + 1
    BY <1>2, AwayNext
  <1> HIDE DEF u, e
  <1>4. Once(u, Slots)
    BY <1>1 DEF Once, Shifting
  <1>5. ASSUME NEW s \in Slots, u[s] # None, NEW r \in Slots, OnWay(h[u[s]], r, s)
        PROVE  u[r] # None
    <2>1. s # i /\ u[s] = t[s]
      BY <1>1, <1>5
    <2>2. t[s] \in Addresses /\ h[t[s]] \in Slots
      BY <1>5, <2>1, HomeType
    <2>3. t[r] # None
      BY <1>5, <2>1 DEF Shifting, Reached
    <2>4. ASSUME r = i
          PROVE  FALSE
      <3>1. OnWay(h[t[s]], i, s) /\ Away(i, j) < Away(i, s)
        BY <1>5, <2>1, <2>4 DEF Shifting
      <3>2. s # e
        BY <1>2, <1>5, <2>1
      <3>3. Away(i, e) # Away(i, s)
        BY <1>2, <3>2, AwayAfter
      <3>4. Away(i, s) \in Int /\ Away(i, j) \in Int
        BY AwayAfter, SizeType
      <3>5. Away(i, e) < Away(i, s)
        BY <1>3, <3>1, <3>3, <3>4
      <3>6. OnWay(h[t[s]], e, s)
        BY <1>2, <2>2, <3>1, <3>5, OnWayTurns
      <3> QED
        BY <1>2, <1>5, <2>1, <3>6 DEF Shifting, Reached
    <2> QED
      BY <1>1, <2>3, <2>4
  <1>6. KeysIn(u, Slots) = KeysIn(t, Slots \ {i})
    BY <1>1, BuffersAssumption DEF KeysIn
  <1> QED
    BY <1>4, <1>5, <1>6 DEF Sound, Reached, u

------------------------------------------------------------------------------
(* Find and Insert. *)

\* Of a set of natural numbers that is not empty one is the least, from the
\* well-foundedness of <.
LEMMA LeastNumber ==
    ASSUME NEW X \in SUBSET Nat, X # {}
    PROVE  \E n \in X : \A m \in X : n <= m
  <1> DEFINE Less == OpToRel(<, Nat)
  <1>1. IsWellFoundedOn(Less, Nat)
    BY NatLessThanWellFounded
  <1>2. \A m, n \in Nat : m < n => <<m, n>> \in Less
    BY Zenon DEF OpToRel
  <1> HIDE DEF Less
  <1>3. PICK n \in X : \A m \in X : ~(<<m, n>> \in Less)
    BY <1>1, WFMin
  <1>4. ASSUME NEW m \in X
        PROVE  n <= m
    <2>1. m \in Nat /\ n \in Nat
      OBVIOUS
    <2>2. ~(m < n)
      BY <1>2, <1>3, <2>1
    <2> QED
      BY <2>1, <2>2
  <1> QED
    BY <1>4

\* The slots a probe looks at.
LEMMA ProbeType ==
    ASSUME T!TypeOK, NEW a \in Addresses
    PROVE  /\ hash[a] \in Slots
           /\ \A n \in Slots : T!Probe(a, n) \in Slots /\ Away(hash[a], T!Probe(a, n)) = n
           /\ \A s \in Slots : /\ Away(hash[a], s) \in Slots
                               /\ T!Probe(a, Away(hash[a], s)) = s
  <1>1. hash[a] \in Slots
    BY DEF T!TypeOK, T!Slots, Slots
  <1>2. \A n \in Slots : n \in 0 .. TableSize
    BY SizeType DEF Slots
  <1>3. \A n \in Slots : (hash[a] + n) % TableSize \in Slots
    BY <1>1, <1>2, After
  <1> QED
    BY <1>1, <1>3, AwayAfter DEF T!Probe

\* A probe of a sound table stops at the key if the table holds it.
LEMMA StopsAtKey ==
    ASSUME T!TypeOK, Sound(hash, slots), NEW a \in Addresses, NEW s \in Slots, slots[s] = a
    PROVE  T!Stops(a, Away(hash[a], s)) /\ T!Probe(a, Away(hash[a], s)) = s
  <1> DEFINE n == Away(hash[a], s)
  <1>1. n \in Slots /\ n \in Int /\ T!Probe(a, n) = s /\ hash[a] \in Slots
    BY ProbeType, SizeType
  <1> HIDE DEF n
  <1>2. ASSUME NEW m \in 0 .. n - 1
        PROVE  slots[T!Probe(a, m)] \notin {a, None}
    <2>1. m \in Slots /\ m \in Int /\ m < n
      BY <1>1, SizeType DEF Slots
    <2>2. T!Probe(a, m) \in Slots /\ Away(hash[a], T!Probe(a, m)) = m
      BY <2>1, ProbeType
    <2>3. OnWay(hash[a], T!Probe(a, m), s)
      BY <2>1, <2>2 DEF OnWay, n
    <2>4. slots[T!Probe(a, m)] # None
      BY <2>2, <2>3, BuffersAssumption DEF Sound, Reached
    <2>5. T!Probe(a, m) # s
      BY <2>1, <2>2 DEF n
    <2>6. slots[T!Probe(a, m)] # a
      BY <2>2, <2>5, BuffersAssumption DEF Sound, Once
    <2> QED
      BY <2>4, <2>6
  <1> QED
    BY <1>1, <1>2 DEF T!Stops, n

\* Find: the keys found are those some slot holds, in one slot.
LEMMA FoundIsHeld ==
    ASSUME T!TypeOK, Sound(hash, slots)
    PROVE  /\ \A a \in Addresses : T!Found(a) <=> a \in KeysIn(slots, Slots)
           /\ T!Held = KeysIn(slots, Slots)
           /\ T!EveryKeyIsFound
  <1>1. T!Slots = Slots
    BY DEF T!Slots, Slots
  <1>2. ASSUME NEW a \in Addresses, NEW s \in Slots, slots[s] = a
        PROVE  T!Found(a)
    BY <1>1, <1>2, StopsAtKey, ProbeType DEF T!Found
  <1>3. ASSUME NEW a \in Addresses, T!Found(a)
        PROVE  \E s \in Slots : slots[s] = a
    BY <1>1, <1>3, ProbeType DEF T!Found
  <1>4. T!Held = KeysIn(slots, Slots)
    BY <1>1 DEF T!Held, KeysIn
  <1>5. T!EveryKeyIsFound
    BY <1>1, <1>2 DEF T!EveryKeyIsFound, T!Held, Sound, Once
  <1> QED
    BY <1>2, <1>3, <1>4, <1>5 DEF KeysIn

\* There is always an empty slot, for there are more slots than addresses.
LEMMA EmptySlot ==
    ASSUME NEW t \in Tables, Once(t, Slots)
    PROVE  \E s \in Slots : t[s] = None
  <1> SUFFICES ASSUME \A s \in Slots : t[s] # None
               PROVE  FALSE
    OBVIOUS
  <1>1. t \in [Slots -> Addresses]
    BY DEF Tables
  <1>2. t \in Injection(Slots, Addresses)
    BY <1>1, Fun_IsInj DEF Once
  <1>3. Cardinality(Slots) <= Cardinality(Addresses)
    BY <1>2, TrackedAssumption, FS_Injection
  <1>4. 0 \in Int /\ TableSize - 1 \in Int /\ TableSize > 0
    BY SizeType
  <1>5. Cardinality(Slots) = TableSize
    <2>1. Cardinality(0 .. TableSize - 1) =
             IF 0 > TableSize - 1 THEN 0 ELSE ((TableSize - 1) - 0) + 1
      BY <1>4, FS_Interval
    <2>2. TableSize \in Int
      BY SizeType
    <2> QED
      BY <1>4, <2>1, <2>2 DEF Slots
  <1>6. Cardinality(Addresses) \in Nat
    BY TrackedAssumption, FS_CardinalityType
  <1> QED
    BY <1>3, <1>4, <1>5, <1>6, TrackedAssumption

\* So a probe always stops.
LEMMA ProbeStops ==
    ASSUME T!TypeOK, Sound(hash, slots), NEW a \in Addresses
    PROVE  \E n \in Slots : T!Stops(a, n)
  <1> DEFINE X == {n \in Slots : slots[T!Probe(a, n)] \in {a, None}}
  <1>1. slots \in Tables
    BY DEF T!TypeOK, T!Slots, Slots, Tables
  <1>2. PICK e \in Slots : slots[e] = None
    BY <1>1, EmptySlot DEF Sound
  <1>3. Away(hash[a], e) \in X
    BY <1>2, ProbeType
  <1>4. X \in SUBSET Nat
    BY SizeType DEF Slots
  <1>5. PICK n \in X : \A m \in X : n <= m
    BY <1>3, <1>4, LeastNumber
  <1>6. ASSUME NEW m \in 0 .. n - 1
        PROVE  slots[T!Probe(a, m)] \notin {a, None}
    <2>1. m \in Slots /\ n \in Int /\ m \in Int /\ m < n
      BY <1>5, SizeType DEF Slots
    <2> QED
      BY <1>5, <2>1
  <1> QED
    BY <1>5, <1>6 DEF T!Stops

\* Insert keeps the table sound: where its probe stops, the key may be entered.
LEMMA Inserting ==
    ASSUME T!TypeOK, Sound(hash, slots), NEW a \in Addresses, NEW n \in Slots, T!Stops(a, n)
    PROVE  LET u == [slots EXCEPT ![T!Probe(a, n)] = a]
           IN  Sound(hash, u) /\ KeysIn(u, Slots) = KeysIn(slots, Slots) \cup {a}
  <1> DEFINE p == T!Probe(a, n)
             u == [slots EXCEPT ![p] = a]
  <1>1. slots \in Tables /\ hash \in Hashes
    BY DEF T!TypeOK, T!Slots, Slots, Tables, Hashes
  <1>2. p \in Slots /\ Away(hash[a], p) = n /\ hash[a] \in Slots
    BY ProbeType
  <1>3. slots[p] \in {a, None} /\ \A m \in 0 .. n - 1 : slots[T!Probe(a, m)] \notin {a, None}
    BY DEF T!Stops
  <1>4. \A s \in Slots : u[s] = IF s = p THEN a ELSE slots[s]
    BY <1>1 DEF Tables
  <1>5. a # None /\ u[p] = a
    BY <1>2, <1>4, BuffersAssumption
  <1> HIDE DEF u
  <1>6. ASSUME NEW s \in Slots, slots[s] = a
        PROVE  s = p
    <2>1. T!Stops(a, Away(hash[a], s)) /\ Away(hash[a], s) \in Slots
          /\ T!Probe(a, Away(hash[a], s)) = s
      BY <1>6, StopsAtKey, ProbeType
    <2> DEFINE m == Away(hash[a], s)
    <2>2. m \in Int /\ n \in Int /\ 0 <= m /\ 0 <= n
      BY <2>1, SizeType DEF Slots
    <2> HIDE DEF m
    <2>3. ~(m < n)
      BY <1>3, <1>6, <2>1, <2>2 DEF m
    <2>4. ~(n < m)
      <3>1. \A k \in 0 .. m - 1 : slots[T!Probe(a, k)] \notin {a, None}
        BY <2>1 DEF T!Stops, m
      <3> QED
        BY <1>3, <2>2, <3>1
    <2>5. m = n
      BY <2>2, <2>3, <2>4
    <2> QED
      BY <2>1, <2>5 DEF m
  <1>7. Once(u, Slots)
    <2>1. \A r \in Slots : u[r] = a => r = p
      BY <1>4, <1>6
    <2> QED
      BY <1>4, <2>1 DEF Once, Sound
  <1>8. \A r \in Slots : slots[r] # None => u[r] # None
    BY <1>4, <1>5
  <1>9. ASSUME NEW s \in Slots, u[s] # None, NEW r \in Slots, OnWay(hash[u[s]], r, s)
        PROVE  u[r] # None
    <2>1. CASE s = p
      <3>1. Away(hash[a], r) < n
        BY <1>2, <1>5, <1>9, <2>1 DEF OnWay
      <3>2. Away(hash[a], r) \in Slots /\ T!Probe(a, Away(hash[a], r)) = r
        BY ProbeType
      <3>3. Away(hash[a], r) \in 0 .. n - 1
        BY <3>1, <3>2, SizeType DEF Slots
      <3>4. slots[r] # None
        BY <1>3, <3>2, <3>3
      <3> QED
        BY <1>8, <3>4
    <2>2. CASE s # p
      <3>1. u[s] = slots[s]
        BY <1>4, <2>2
      <3>2. slots[r] # None
        BY <1>9, <3>1 DEF Sound, Reached
      <3> QED
        BY <1>8, <3>2
    <2> QED
      BY <2>1, <2>2
  <1>10. KeysIn(u, Slots) = KeysIn(slots, Slots) \cup {a}
    BY <1>2, <1>3, <1>4, <1>5, BuffersAssumption DEF KeysIn
  <1> QED
    BY <1>7, <1>9, <1>10 DEF Sound, Reached, u

------------------------------------------------------------------------------
(* Counting uploads. *)

\* There are no more uploads for a buffer than commands in the ring.
LEMMA UploadsType ==
    ASSUME NEW q \in Seq(Addresses), NEW a \in Addresses
    PROVE  IsFiniteSet(Uploads(q, a)) /\ Cardinality(Uploads(q, a)) \in 0 .. Len(q)
  <1>1. Len(q) \in Nat
    OBVIOUS
  <1>2. IsFiniteSet(1 .. Len(q)) /\ Cardinality(1 .. Len(q)) = Len(q)
    <2>1. Cardinality(1 .. Len(q)) = IF 1 > Len(q) THEN 0 ELSE (Len(q) - 1) + 1
      BY <1>1, FS_Interval
    <2> QED
      BY <1>1, <2>1, FS_Interval
  <1>3. Uploads(q, a) \in SUBSET (1 .. Len(q))
    BY DEF Uploads
  <1>4. IsFiniteSet(Uploads(q, a)) /\ Cardinality(Uploads(q, a)) <= Len(q)
    BY <1>2, <1>3, FS_Subset
  <1>5. Cardinality(Uploads(q, a)) \in Nat
    BY <1>4, FS_CardinalityType
  <1> QED
    BY <1>1, <1>4, <1>5

\* Post adds one upload, to its buffer.
LEMMA UploadsAppend ==
    ASSUME NEW q \in Seq(Addresses), NEW b \in Addresses, NEW a \in Addresses
    PROVE  Cardinality(Uploads(Append(q, b), a)) =
              Cardinality(Uploads(q, a)) + (IF a = b THEN 1 ELSE 0)
  <1> DEFINE n == Len(q) + 1
  <1>1. /\ Len(q) \in Nat /\ n \in Nat /\ Len(Append(q, b)) = n
        /\ \A k \in 1 .. n : Append(q, b)[k] = IF k = n THEN b ELSE q[k]
    OBVIOUS
  <1>2. Uploads(Append(q, b), a) = IF a = b THEN Uploads(q, a) \cup {n} ELSE Uploads(q, a)
    BY <1>1 DEF Uploads
  <1>3. n \notin Uploads(q, a) /\ IsFiniteSet(Uploads(q, a))
        /\ Cardinality(Uploads(q, a)) \in Nat
    BY <1>1, UploadsType DEF Uploads
  <1>4. Cardinality(Uploads(q, a) \cup {n}) = Cardinality(Uploads(q, a)) + 1
    BY <1>3, FS_AddElement
  <1> QED
    BY <1>2, <1>3, <1>4

\* The head taken off is one upload less, for its buffer.
LEMMA UploadsTail ==
    ASSUME NEW q \in Seq(Addresses), q # <<>>, NEW a \in Addresses
    PROVE  Cardinality(Uploads(Tail(q), a)) =
              Cardinality(Uploads(q, a)) - (IF a = Head(q) THEN 1 ELSE 0)
  <1> DEFINE f == [k \in Uploads(Tail(q), a) |-> k + 1]
             S == Uploads(Tail(q), a)
             R == Uploads(q, a) \ {1}
  <1>1. /\ Len(q) \in Nat \ {0} /\ Len(Tail(q)) = Len(q) - 1 /\ Tail(q) \in Seq(Addresses)
        /\ \A k \in 1 .. Len(q) - 1 : Tail(q)[k] = q[k + 1]
        /\ Head(q) = q[1]
    OBVIOUS
  <1>2. S \subseteq Int /\ R \subseteq Int
    BY DEF Uploads
  <1>3. f \in [S -> R]
    BY <1>1 DEF Uploads
  <1>4. \A r \in R : r - 1 \in S /\ f[r - 1] = r
    BY <1>1 DEF Uploads
  <1>5. \A r, s \in S : f[r] = f[s] => r = s
    BY <1>2
  <1>6. f \in Bijection(S, R)
    <2>1. \A r \in R : \E s \in S : f[s] = r
      BY <1>4
    <2> HIDE DEF f, S, R
    <2>2. f \in Injection(S, R)
      BY <1>3, <1>5, Fun_IsInj
    <2>3. f \in Surjection(S, R)
      BY <1>3, <2>1, Fun_IsSurj
    <2> QED
      BY <2>2, <2>3 DEF Bijection
  <1>7. ExistsBijection(S, R)
    BY <1>6 DEF ExistsBijection
  <1>8. IsFiniteSet(S) /\ IsFiniteSet(Uploads(q, a)) /\ Cardinality(Uploads(q, a)) \in Nat
    <2>1. Tail(q) \in Seq(Addresses)
      BY <1>1
    <2>2. IsFiniteSet(Uploads(Tail(q), a))
      BY <2>1, UploadsType
    <2>3. IsFiniteSet(Uploads(q, a)) /\ Cardinality(Uploads(q, a)) \in 0 .. Len(q)
      BY UploadsType
    <2> QED
      BY <1>1, <2>2, <2>3
  <1>9. Cardinality(R) = Cardinality(S)
    BY <1>7, <1>8, FS_Bijection
  <1>10. 1 \in Uploads(q, a) <=> a = Head(q)
    BY <1>1 DEF Uploads
  <1>11. Cardinality(R) =
            IF 1 \in Uploads(q, a) THEN Cardinality(Uploads(q, a)) - 1
            ELSE Cardinality(Uploads(q, a))
    BY <1>8, FS_RemoveElement
  <1> QED
    BY <1>8, <1>9, <1>10, <1>11

------------------------------------------------------------------------------
(* References. *)

\* A buffer has the references of its uploads and at most one of the client's.
LEMMA RefsBound ==
    ASSUME RefsInv, NEW a \in Addresses
    PROVE  /\ refs[a] \in 0 .. QueueMax + 1
           /\ (a \in owned \/ Uploads(queue, a) # {}) => refs[a] # 0
           /\ refs[a] = Cardinality(Uploads(queue, a)) + (IF a \in owned THEN 1 ELSE 0)
  <1>1. /\ IsFiniteSet(Uploads(queue, a)) /\ Cardinality(Uploads(queue, a)) \in 0 .. Len(queue)
        /\ Len(queue) \in Nat /\ Len(queue) <= QueueMax
    BY UploadsType DEF RefsInv, TypeOK
  <1>2. refs[a] = Cardinality(Uploads(queue, a)) + (IF a \in owned THEN 1 ELSE 0)
    BY DEF RefsInv, UploadsKeepAlive, Uploads
  <1>3. Cardinality(Uploads(queue, a)) = 0 <=> Uploads(queue, a) = {}
    BY <1>1, FS_EmptySet
  <1> QED
    BY <1>1, <1>2, <1>3, BuffersAssumption

\* The count that the references are to have, in the next state.
LEMMA RefsCounted ==
    ASSUME \A a \in Addresses :
              refs'[a] = Cardinality(Uploads(queue', a)) + (IF a \in owned' THEN 1 ELSE 0),
           queue' \in Seq(Addresses), Len(queue') <= QueueMax,
           DOMAIN refs' = Addresses, refs' = [a \in DOMAIN refs' |-> refs'[a]]
    PROVE  UploadsKeepAlive' /\ refs' \in [Addresses -> 0 .. QueueMax + 2]
  <1>1. ASSUME NEW a \in Addresses
        PROVE  refs'[a] \in 0 .. QueueMax + 2
    <2>1. Cardinality(Uploads(queue', a)) \in 0 .. Len(queue') /\ Len(queue') \in Nat
      BY UploadsType
    <2> QED
      BY <2>1, BuffersAssumption
  <1>2. UploadsKeepAlive'
    BY DEF UploadsKeepAlive, Uploads
  <1> QED
    BY <1>1, <1>2

\* The references stay counted over every step.
LEMMA RefsStep == RefsInv /\ [Next]_vars => RefsInv'
  <1> SUFFICES ASSUME RefsInv, [Next]_vars
               PROVE  RefsInv'
    OBVIOUS
  <1> USE BuffersAssumption
  <1>0. /\ TypeOK /\ Busy
        /\ \A a \in Addresses :
              refs[a] = Cardinality(Uploads(queue, a)) + (IF a \in owned THEN 1 ELSE 0)
    BY RefsBound DEF RefsInv
  <1>1. ASSUME refs' = refs, owned' = owned, queue' = queue
        PROVE  UploadsKeepAlive' /\ refs' \in [Addresses -> 0 .. QueueMax + 2]
    BY <1>0, <1>1 DEF RefsInv, UploadsKeepAlive, TypeOK
  <1>2. ASSUME NEW a \in Addresses, Create(a)
        PROVE  RefsInv'
    <2>1. a \notin owned /\ Cardinality(Uploads(queue, a)) = 0
      <3>1. refs[a] = 0 /\ Uploads(queue, a) = {}
        BY <1>2, RefsBound DEF Create
      <3> QED
        BY <1>2, <3>1, RefsBound, FS_EmptySet DEF Create
    <2>2. \A b \in Addresses : refs'[b] = IF b = a THEN 1 ELSE refs[b]
      BY <1>0, <1>2 DEF Create, TypeOK
    <2>3. UploadsKeepAlive' /\ refs' \in [Addresses -> 0 .. QueueMax + 2]
      <3>1. \A b \in Addresses :
               refs'[b] = Cardinality(Uploads(queue', b)) + (IF b \in owned' THEN 1 ELSE 0)
        BY <1>0, <1>2, <2>1, <2>2 DEF Create
      <3> QED
        BY <1>0, <1>2, <3>1, RefsCounted DEF Create, TypeOK
    <2> QED
      BY <1>0, <1>2, <2>3 DEF RefsInv, Create, TypeOK, Busy, render, Go
  <1>3. ASSUME NEW a \in Addresses, LockBegin(a)
        PROVE  RefsInv'
    BY <1>0, <1>1, <1>3 DEF RefsInv, LockBegin, TypeOK, Busy, render, Go
  <1>4. ASSUME NEW a \in Addresses, Unlock(a)
        PROVE  RefsInv'
    <2>1. /\ UNCHANGED <<refs, owned, queue, rpc, rbuf>>
          /\ (mpc' = "post" /\ mbuf' = a) \/ (mpc' = mpc /\ mbuf' = mbuf)
      BY <1>4 DEF Unlock, main, render, Go
    <2>2. /\ table' \in [Addresses -> {"none", "free", "locked"}] /\ emulated' \in Int
          /\ open' \in [Addresses -> {"no", "emulated", "real"}] /\ realLock' \subseteq Addresses
      <3>1. CASE table[a] = "locked"
        BY <1>0, <1>4, <3>1 DEF Unlock, Close, TypeOK
      <3>2. CASE table[a] # "locked"
        BY <1>0, <1>4, <3>2 DEF Unlock, TypeOK
      <3> QED
        BY <3>1, <3>2
    <2> QED
      BY <1>0, <1>1, <2>1, <2>2 DEF RefsInv, TypeOK, Busy
  <1>5. ASSUME NEW a \in Addresses, Release(a)
        PROVE  RefsInv'
    <2>1. \A b \in Addresses : refs'[b] = IF b = a THEN refs[b] - 1 ELSE refs[b]
      BY <1>0, <1>5 DEF Release, TypeOK
    <2>2. \A b \in Addresses : Cardinality(Uploads(queue, b)) \in Int
      BY <1>0, UploadsType DEF TypeOK
    <2>3. \A b \in Addresses :
             refs'[b] = Cardinality(Uploads(queue', b)) + (IF b \in owned' THEN 1 ELSE 0)
      BY <1>0, <1>5, <2>1, <2>2 DEF Release
    <2>4. UploadsKeepAlive' /\ refs' \in [Addresses -> 0 .. QueueMax + 2]
      BY <1>0, <1>5, <2>3, RefsCounted DEF Release, TypeOK
    <2> QED
      BY <1>0, <1>5, <2>4 DEF RefsInv, Release, TypeOK, Busy, render, main, Go
  <1>6. CASE Track
    BY <1>0, <1>1, <1>6 DEF RefsInv, Track, TypeOK, Busy, render, Idle, Go
  <1>7. CASE LockEnd
    <2>1. /\ table' \in [Addresses -> {"none", "free", "locked"}] /\ emulated' \in Int
          /\ open' \in [Addresses -> {"no", "emulated", "real"}]
      <3>1. CASE table[mbuf] = "none"
        BY <1>0, <1>7, <3>1 DEF LockEnd, TypeOK
      <3>2. CASE table[mbuf] # "none"
        <4>1. /\ table' = [table EXCEPT ![mbuf] = "locked"]
              /\ open' = [open EXCEPT ![mbuf] = "emulated"]
              /\ emulated' = emulated + 1
          BY <1>7, <3>2 DEF LockEnd
        <4>2. /\ table \in [Addresses -> {"none", "free", "locked"}] /\ emulated \in Int
              /\ open \in [Addresses -> {"no", "emulated", "real"}]
          BY <1>0 DEF TypeOK
        <4>3. table' \in [Addresses -> {"none", "free", "locked"}]
          BY <4>1, <4>2
        <4>4. open' \in [Addresses -> {"no", "emulated", "real"}]
          BY <4>1, <4>2
        <4> QED
          BY <4>1, <4>2, <4>3, <4>4
      <3> QED
        BY <3>1, <3>2
    <2>2. /\ UNCHANGED <<refs, owned, realLock, queue, rpc, rbuf>>
          /\ (mpc' = "drain" /\ mbuf' = mbuf) \/ (mpc' = "idle" /\ mbuf' = None)
      BY <1>7 DEF LockEnd, render, Idle, Go
    <2>3. mbuf \in Addresses
      BY <1>0, <1>7 DEF LockEnd, Busy
    <2> QED
      BY <1>0, <1>1, <2>1, <2>2, <2>3 DEF RefsInv, TypeOK, Busy
  <1>8. CASE LockReal
    BY <1>0, <1>1, <1>8 DEF RefsInv, LockReal, TypeOK, Busy, render, Idle, Go
  <1>9. CASE EraseMain
    BY <1>0, <1>1, <1>9 DEF RefsInv, EraseMain, TypeOK, Busy, render, Idle, Go
  <1>10. CASE Upload
    <2>1. Head(queue) \in Addresses
      BY <1>0, <1>10 DEF Upload, TypeOK
    <2> QED
      BY <1>0, <1>1, <1>10, <2>1 DEF RefsInv, Upload, TypeOK, Busy, main
  <1>11. CASE UploadRelease
    <2>1. queue # <<>> /\ rbuf = Head(queue) /\ rbuf \in Addresses /\ queue \in Seq(Addresses)
      BY <1>0, <1>11 DEF UploadRelease, Busy, TypeOK
    <2>2. \A b \in Addresses : refs'[b] = IF b = rbuf THEN refs[b] - 1 ELSE refs[b]
      BY <1>0, <1>11 DEF UploadRelease, TypeOK
    <2>3. \A b \in Addresses : Cardinality(Uploads(queue', b)) =
                                  Cardinality(Uploads(queue, b)) - (IF b = rbuf THEN 1 ELSE 0)
      BY <1>11, <2>1, UploadsTail DEF UploadRelease
    <2>4. \A b \in Addresses : Cardinality(Uploads(queue, b)) \in Int
      BY <2>1, UploadsType
    <2>5. \A b \in Addresses :
             refs'[b] = Cardinality(Uploads(queue', b)) + (IF b \in owned' THEN 1 ELSE 0)
      BY <1>0, <1>11, <2>2, <2>3, <2>4 DEF UploadRelease
    <2>6. queue' \in Seq(Addresses) /\ Len(queue') <= QueueMax
      BY <1>0, <1>11, <2>1 DEF UploadRelease, TypeOK
    <2>7. UploadsKeepAlive' /\ refs' \in [Addresses -> 0 .. QueueMax + 2]
      BY <1>0, <1>11, <2>5, <2>6, RefsCounted DEF UploadRelease, TypeOK
    <2> QED
      BY <1>0, <1>11, <2>1, <2>6, <2>7 DEF RefsInv, UploadRelease, TypeOK, Busy, main
  <1>12. CASE EraseRender
    BY <1>0, <1>1, <1>12 DEF RefsInv, EraseRender, TypeOK, Busy, main
  <1>13. CASE UNCHANGED vars
    BY <1>0, <1>1, <1>13 DEF RefsInv, vars, TypeOK, Busy
  <1>14. CASE PostPiece
    <2>1. /\ mbuf \in Addresses /\ queue \in Seq(Addresses) /\ Len(queue) < QueueMax
          /\ queue' = Append(queue, mbuf) /\ owned' = owned
          /\ UNCHANGED <<open, table, realLock, emulated, mpc, mbuf, rpc, rbuf>>
      BY <1>0, <1>14 DEF PostPiece, Post, TypeOK, Busy, main, render
    <2>2. \A b \in Addresses : refs'[b] = IF b = mbuf THEN refs[b] + 1 ELSE refs[b]
      BY <1>0, <1>14 DEF PostPiece, Post, TypeOK
    <2>3. \A b \in Addresses : Cardinality(Uploads(queue', b)) =
                                  Cardinality(Uploads(queue, b)) + (IF b = mbuf THEN 1 ELSE 0)
      BY <2>1, UploadsAppend
    <2>4. \A b \in Addresses : Cardinality(Uploads(queue, b)) \in Int
      BY <2>1, UploadsType
    <2>5. \A b \in Addresses :
             refs'[b] = Cardinality(Uploads(queue', b)) + (IF b \in owned' THEN 1 ELSE 0)
      BY <1>0, <2>1, <2>2, <2>3, <2>4
    <2>6. /\ queue' \in Seq(Addresses) /\ Len(queue') = Len(queue) + 1 /\ Len(queue) \in Nat
          /\ queue # <<>> => Head(queue') = Head(queue)
          /\ queue' # <<>>
      BY <2>1
    <2>7. Len(queue') <= QueueMax
      BY <2>1, <2>6
    <2>8. UploadsKeepAlive' /\ refs' \in [Addresses -> 0 .. QueueMax + 2]
      BY <1>0, <1>14, <2>5, <2>6, <2>7, RefsCounted DEF PostPiece, Post, TypeOK
    <2> QED
      BY <1>0, <2>1, <2>6, <2>7, <2>8 DEF RefsInv, TypeOK, Busy
  <1>15. CASE PostEnd
    BY <1>0, <1>1, <1>15 DEF RefsInv, PostEnd, TypeOK, Busy, render, Idle, Go
  <1> QED
    BY <1>2, <1>3, <1>4, <1>5, <1>6, <1>7, <1>8, <1>9, <1>10, <1>11, <1>12, <1>13, <1>14, <1>15 DEF Next

\* At the start nobody refers to anything.
LEMMA RefsInit == Init => RefsInv
  <1> SUFFICES ASSUME Init
               PROVE  RefsInv
    OBVIOUS
  <1>1. \A a \in Addresses : Uploads(<<>>, a) = {}
    BY DEF Uploads
  <1>2. UploadsKeepAlive
    BY <1>1, FS_EmptySet DEF Init, UploadsKeepAlive, Uploads
  <1> QED
    BY <1>2, BuffersAssumption DEF Init, RefsInv, TypeOK, Busy

------------------------------------------------------------------------------
(* Entries and lock counts. *)

\* What Append and Tail do to the buffers that have uploads.
LEMMA UploadsNamed ==
    ASSUME NEW q \in Seq(Addresses)
    PROVE  /\ \A a, b \in Addresses : Uploads(Append(q, b), a) # {} =>
                                         Uploads(q, a) # {} \/ a = b
           /\ q # <<>> => /\ \A a \in Addresses : Uploads(Tail(q), a) # {} => Uploads(q, a) # {}
                          /\ Uploads(q, Head(q)) # {}
  <1>1. ASSUME NEW a \in Addresses, NEW b \in Addresses, NEW k \in Uploads(Append(q, b), a)
        PROVE  Uploads(q, a) # {} \/ a = b
    <2>1. /\ k \in 1 .. Len(q) + 1 /\ Append(q, b)[k] = a /\ Len(q) \in Nat
          /\ Append(q, b)[k] = IF k = Len(q) + 1 THEN b ELSE q[k]
      BY DEF Uploads
    <2>2. k # Len(q) + 1 => k \in Uploads(q, a)
      BY <2>1 DEF Uploads
    <2> QED
      BY <2>1, <2>2
  <1>2. ASSUME q # <<>>, NEW a \in Addresses, NEW k \in Uploads(Tail(q), a)
        PROVE  k + 1 \in Uploads(q, a)
    BY <1>2 DEF Uploads
  <1>3. q # <<>> => 1 \in Uploads(q, Head(q))
    BY DEF Uploads
  <1> QED
    BY <1>1, <1>2, <1>3

\* The count of emulated locks goes with the buffers locked so.
LEMMA EmulatedCounted ==
    ASSUME RefsInv, LocksCounted, NEW a \in Addresses
    PROVE  /\ open' = open /\ emulated' = emulated =>
              IsFiniteSet(Emulated') /\ emulated' = Cardinality(Emulated')
           /\ open[a] # "emulated" /\ emulated' = emulated
              /\ (open' = [open EXCEPT ![a] = "no"] \/ open' = [open EXCEPT ![a] = "real"]) =>
              IsFiniteSet(Emulated') /\ emulated' = Cardinality(Emulated')
           /\ open[a] = "emulated" /\ emulated' = emulated - 1
              /\ open' = [open EXCEPT ![a] = "no"] =>
              IsFiniteSet(Emulated') /\ emulated' = Cardinality(Emulated')
           /\ open[a] = "no" /\ emulated' = emulated + 1
              /\ open' = [open EXCEPT ![a] = "emulated"] =>
              IsFiniteSet(Emulated') /\ emulated' = Cardinality(Emulated')
  <1>1. /\ open \in [Addresses -> {"no", "emulated", "real"}]
        /\ IsFiniteSet(Emulated) /\ emulated = Cardinality(Emulated)
        /\ Cardinality(Emulated) \in Nat
    BY FS_CardinalityType DEF RefsInv, TypeOK, LocksCounted
  <1>2. ASSUME open' = open
        PROVE  Emulated' = Emulated
    BY <1>2 DEF Emulated
  <1>3. ASSUME open[a] # "emulated",
               open' = [open EXCEPT ![a] = "no"] \/ open' = [open EXCEPT ![a] = "real"]
        PROVE  Emulated' = Emulated
    BY <1>1, <1>3 DEF Emulated
  <1>4. ASSUME open[a] = "emulated", open' = [open EXCEPT ![a] = "no"]
        PROVE  IsFiniteSet(Emulated') /\ Cardinality(Emulated') = Cardinality(Emulated) - 1
    <2>1. Emulated' = Emulated \ {a} /\ a \in Emulated
      BY <1>1, <1>4 DEF Emulated
    <2> QED
      BY <1>1, <2>1, FS_RemoveElement
  <1>5. ASSUME open[a] = "no", open' = [open EXCEPT ![a] = "emulated"]
        PROVE  IsFiniteSet(Emulated') /\ Cardinality(Emulated') = Cardinality(Emulated) + 1
    <2>1. Emulated' = Emulated \cup {a} /\ a \notin Emulated
      BY <1>1, <1>5 DEF Emulated
    <2> QED
      BY <1>1, <2>1, FS_AddElement
  <1> QED
    BY <1>1, <1>2, <1>3, <1>4, <1>5

\* The types the steps below need, and what the references say.
LEMMA LocksFacts ==
    ASSUME RefsInv
    PROVE  /\ refs \in [Addresses -> Int]
           /\ open \in [Addresses -> {"no", "emulated", "real"}]
           /\ table \in [Addresses -> {"none", "free", "locked"}]
           /\ mpc \in {"idle", "track", "lock", "drain", "post", "erase"}
           /\ rpc \in {"idle", "upload", "erase"}
           /\ mpc # "idle" => mbuf \in Addresses
           /\ rpc # "idle" => rbuf \in Addresses
           /\ \A a \in Addresses : a \in owned \/ Uploads(queue, a) # {} => refs[a] # 0
  BY RefsBound DEF RefsInv, TypeOK, Busy

\* Entries and locks agree over every step.
LEMMA LocksStep ==
    ASSUME ~ReuseEarly
    PROVE  RefsInv /\ LocksInv /\ [Next]_vars => LocksInv'
  <1> SUFFICES ASSUME RefsInv, LocksInv, [Next]_vars
               PROVE  LocksInv'
    OBVIOUS
  <1>0. /\ refs \in [Addresses -> Int]
        /\ open \in [Addresses -> {"no", "emulated", "real"}]
        /\ table \in [Addresses -> {"none", "free", "locked"}]
        /\ mpc \in {"idle", "track", "lock", "drain", "post", "erase"}
        /\ rpc \in {"idle", "upload", "erase"}
        /\ mpc # "idle" => mbuf \in Addresses
        /\ rpc # "idle" => rbuf \in Addresses
        /\ \A a \in Addresses : a \in owned \/ Uploads(queue, a) # {} => refs[a] # 0
    BY LocksFacts
  <1>1. ASSUME open' = open, table' = table, emulated' = emulated
        PROVE  LocksCounted'
    <2>1. IsFiniteSet(Emulated') /\ emulated' = Cardinality(Emulated')
      BY <1>1 DEF LocksInv, LocksCounted, Emulated
    <2> QED
      BY <1>1, <2>1 DEF LocksInv, LocksCounted
  <1>2. ASSUME NEW a \in Addresses, Create(a)
        PROVE  LocksInv'
    <2>1. LocksCounted'
      BY <1>1, <1>2 DEF Create
    <2>2. a \notin owned /\ table[a] = "none" /\ open[a] = "no"
      BY <1>0, <1>2 DEF Create, LocksInv, ClientHolds
    <2>3. ClientHolds'
      BY <1>0, <1>2, <2>2 DEF Create, Go, LocksInv, ClientHolds
    <2>4. EntriesFollow'
      BY <1>0, <1>2, <2>2 DEF Create, Go, render, LocksInv, EntriesFollow
    <2> QED
      BY <2>1, <2>3, <2>4 DEF LocksInv
  <1>3. ASSUME NEW a \in Addresses, LockBegin(a)
        PROVE  LocksInv'
    <2>1. LocksCounted'
      BY <1>1, <1>3 DEF LockBegin
    <2>2. ClientHolds'
      BY <1>0, <1>3 DEF LockBegin, Go, LocksInv, ClientHolds
    <2>3. EntriesFollow'
      BY <1>0, <1>3 DEF LockBegin, Go, render, LocksInv, EntriesFollow
    <2> QED
      BY <2>1, <2>2, <2>3 DEF LocksInv
  <1>4. ASSUME NEW a \in Addresses, Unlock(a)
        PROVE  LocksInv'
    <2>1. /\ open[a] # "no" /\ open' = [open EXCEPT ![a] = "no"] /\ mpc = "idle"
          /\ UNCHANGED <<refs, owned, queue, rpc, rbuf>> /\ a \in owned
      BY <1>4 DEF Unlock, render, LocksInv, ClientHolds
    <2>3. CASE table[a] = "locked"
      <3>1. /\ table' = [table EXCEPT ![a] = "free"] /\ emulated' = emulated - 1
            /\ mpc' = "post" /\ mbuf' = a
        BY <1>4, <2>3 DEF Unlock, Close, Go
      <3>2. LocksCounted'
        <4>1. open[a] = "emulated"
          BY <2>3 DEF LocksInv, LocksCounted
        <4>2. IsFiniteSet(Emulated') /\ emulated' = Cardinality(Emulated')
          BY <2>1, <3>1, <4>1, EmulatedCounted DEF LocksInv
        <4>3. \A b \in Addresses : table'[b] = "locked" <=> open'[b] = "emulated"
          BY <1>0, <2>1, <3>1 DEF LocksInv, LocksCounted
        <4> QED
          BY <4>2, <4>3 DEF LocksCounted
      <3>3. \A b \in Addresses : open'[b] = IF b = a THEN "no" ELSE open[b]
        BY <1>0, <2>1
      <3>4. ClientHolds'
        BY <2>1, <3>1, <3>3 DEF LocksInv, ClientHolds
      <3>5. \A b \in Addresses : table'[b] = IF b = a THEN "free" ELSE table[b]
        BY <1>0, <3>1
      <3>6. EntriesFollow'
        BY <1>0, <2>1, <2>3, <3>1, <3>5 DEF LocksInv, EntriesFollow
      <3> QED
        BY <3>2, <3>4, <3>6 DEF LocksInv
    <2>4. CASE table[a] # "locked"
      <3>1. UNCHANGED <<table, emulated, mpc, mbuf>>
        BY <1>4, <2>4 DEF Unlock, main
      <3>2. LocksCounted'
        <4>1. open[a] # "emulated"
          BY <2>4 DEF LocksInv, LocksCounted
        <4>2. IsFiniteSet(Emulated') /\ emulated' = Cardinality(Emulated')
          BY <2>1, <3>1, <4>1, EmulatedCounted DEF LocksInv
        <4>3. \A b \in Addresses : table'[b] = "locked" <=> open'[b] = "emulated"
          BY <1>0, <2>1, <3>1, <4>1 DEF LocksInv, LocksCounted
        <4> QED
          BY <4>2, <4>3 DEF LocksCounted
      <3>3. EntriesFollow'
        BY <2>1, <3>1 DEF LocksInv, EntriesFollow
      <3>4. ClientHolds'
        BY <1>0, <2>1, <3>1 DEF LocksInv, ClientHolds
      <3> QED
        BY <3>2, <3>3, <3>4 DEF LocksInv
    <2> QED
      BY <2>3, <2>4
  <1>5. ASSUME NEW a \in Addresses, Release(a)
        PROVE  LocksInv'
    <2>1. LocksCounted'
      BY <1>1, <1>5 DEF Release
    <2>2. ClientHolds'
      BY <1>0, <1>5 DEF Release, Go, main, LocksInv, ClientHolds
    <2>3. refs[a] # 0 /\ \A b \in Addresses : b # a => refs'[b] = refs[b]
      BY <1>0, <1>5 DEF Release
    <2>4. refs'[a] = 0 => mpc' = "erase" /\ mbuf' = a
      BY <1>5 DEF Release, Last, Go
    <2>5. mpc = "idle" /\ ((mpc' = "erase" /\ mbuf' = a /\ refs'[a] = 0) \/ mpc' = "idle")
      BY <1>5 DEF Release, Last, Go, main
    <2>6. UNCHANGED <<table, queue, rpc, rbuf>>
      BY <1>5 DEF Release, render
    <2>7. EntriesFollow'
      BY <1>0, <2>3, <2>4, <2>5, <2>6 DEF LocksInv, EntriesFollow
    <2> QED
      BY <2>1, <2>2, <2>7 DEF LocksInv
  <1>6. CASE Track
    <2>1. /\ mpc = "track" /\ mbuf \in Addresses /\ mbuf \in owned /\ open[mbuf] = "no"
          /\ table[mbuf] = "none" /\ refs[mbuf] # 0
          /\ mpc' = "idle" /\ UNCHANGED <<refs, owned, open, emulated, queue, rpc, rbuf>>
      BY <1>0, <1>6 DEF Track, Idle, Go, render, LocksInv, ClientHolds, EntriesFollow
    <2>2. \A b \in Addresses : b # mbuf => table'[b] = table[b]
      BY <1>0, <1>6 DEF Track
    <2>3. table'[mbuf] # "locked"
      BY <1>0, <1>6, <2>1 DEF Track
    <2>4. LocksCounted'
      <3>1. IsFiniteSet(Emulated') /\ emulated' = Cardinality(Emulated')
        BY <2>1 DEF Emulated, LocksInv, LocksCounted
      <3>2. \A b \in Addresses : table'[b] = "locked" <=> open'[b] = "emulated"
        BY <2>1, <2>2, <2>3 DEF LocksInv, LocksCounted
      <3> QED
        BY <3>1, <3>2 DEF LocksCounted
    <2>5. ClientHolds'
      BY <2>1 DEF LocksInv, ClientHolds
    <2>6. EntriesFollow'
      BY <1>0, <2>1, <2>2 DEF LocksInv, EntriesFollow
    <2> QED
      BY <2>4, <2>5, <2>6 DEF LocksInv
  <1>7. CASE LockEnd
    <2>1. /\ mpc = "lock" /\ mbuf \in Addresses /\ mbuf \in owned /\ open[mbuf] = "no"
          /\ UNCHANGED <<refs, owned, queue, rpc, rbuf>> /\ refs[mbuf] # 0
      BY <1>0, <1>7 DEF LockEnd, render, LocksInv, ClientHolds
    <2>2. CASE table[mbuf] = "none"
      <3>1. UNCHANGED <<open, table, emulated>> /\ mpc' = "drain" /\ mbuf' = mbuf
        BY <1>7, <2>2 DEF LockEnd, Go
      <3>2. LocksCounted'
        BY <1>1, <3>1
      <3>3. ClientHolds' /\ EntriesFollow'
        BY <1>0, <2>1, <3>1 DEF LocksInv, ClientHolds, EntriesFollow
      <3> QED
        BY <3>2, <3>3 DEF LocksInv
    <2>3. CASE table[mbuf] # "none"
      <3>1. /\ table' = [table EXCEPT ![mbuf] = "locked"] /\ emulated' = emulated + 1
            /\ open' = [open EXCEPT ![mbuf] = "emulated"] /\ mpc' = "idle"
        BY <1>7, <2>3 DEF LockEnd, Idle, Go
      <3>2. LocksCounted'
        <4>1. IsFiniteSet(Emulated') /\ emulated' = Cardinality(Emulated')
          BY <2>1, <3>1, EmulatedCounted DEF LocksInv
        <4>2. \A b \in Addresses : table'[b] = "locked" <=> open'[b] = "emulated"
          BY <1>0, <2>1, <3>1 DEF LocksInv, LocksCounted
        <4> QED
          BY <4>1, <4>2 DEF LocksCounted
      <3>3. \A b \in Addresses : table'[b] = IF b = mbuf THEN "locked" ELSE table[b]
        BY <1>0, <3>1
      <3>4. \A b \in Addresses : open'[b] = IF b = mbuf THEN "emulated" ELSE open[b]
        BY <1>0, <3>1
      <3>5. ClientHolds'
        BY <2>1, <3>1, <3>4 DEF LocksInv, ClientHolds
      <3>6. EntriesFollow'
        BY <1>0, <2>1, <2>3, <3>1, <3>3 DEF LocksInv, EntriesFollow
      <3> QED
        BY <3>2, <3>5, <3>6 DEF LocksInv
    <2> QED
      BY <2>2, <2>3
  <1>8. CASE LockReal
    <2>1. /\ mpc = "drain" /\ mbuf \in Addresses /\ mbuf \in owned /\ open[mbuf] = "no"
          /\ UNCHANGED <<refs, owned, table, emulated, queue, rpc, rbuf>>
          /\ open' = [open EXCEPT ![mbuf] = "real"] /\ mpc' = "idle"
      BY <1>0, <1>8 DEF LockReal, Idle, Go, render, LocksInv, ClientHolds
    <2>2. LocksCounted'
      <3>1. IsFiniteSet(Emulated') /\ emulated' = Cardinality(Emulated')
        BY <2>1, EmulatedCounted DEF LocksInv
      <3>2. \A b \in Addresses : table'[b] = "locked" <=> open'[b] = "emulated"
        BY <1>0, <2>1 DEF LocksInv, LocksCounted
      <3> QED
        BY <3>1, <3>2 DEF LocksCounted
    <2>3. ClientHolds'
      BY <1>0, <2>1 DEF LocksInv, ClientHolds
    <2>4. EntriesFollow'
      BY <2>1 DEF LocksInv, EntriesFollow
    <2> QED
      BY <2>2, <2>3, <2>4 DEF LocksInv
  <1>9. CASE EraseMain
    <2>1. /\ mpc = "erase" /\ mbuf \in Addresses /\ refs[mbuf] = 0
          /\ table' = [table EXCEPT ![mbuf] = "none"] /\ mpc' = "idle"
          /\ UNCHANGED <<refs, owned, open, emulated, queue, rpc, rbuf>>
      BY <1>0, <1>9 DEF EraseMain, Idle, Go, render, LocksInv, EntriesFollow
    <2>2. open[mbuf] = "no" /\ Uploads(queue, mbuf) = {}
      BY <1>0, <2>1 DEF LocksInv, ClientHolds
    <2>3. LocksCounted'
      <3>1. IsFiniteSet(Emulated') /\ emulated' = Cardinality(Emulated')
        BY <2>1 DEF Emulated, LocksInv, LocksCounted
      <3>2. \A b \in Addresses : table'[b] = "locked" <=> open'[b] = "emulated"
        BY <1>0, <2>1, <2>2 DEF LocksInv, LocksCounted
      <3> QED
        BY <3>1, <3>2 DEF LocksCounted
    <2>4. ClientHolds'
      BY <2>1 DEF LocksInv, ClientHolds
    <2>5. \A b \in Addresses : table'[b] = IF b = mbuf THEN "none" ELSE table[b]
      BY <1>0, <2>1
    <2>6. EntriesFollow'
      BY <1>0, <2>1, <2>2, <2>5 DEF LocksInv, EntriesFollow
    <2> QED
      BY <2>3, <2>4, <2>6 DEF LocksInv
  <1>10. CASE Upload
    <2>1. LocksCounted'
      BY <1>1, <1>10 DEF Upload
    <2>2. ClientHolds' /\ EntriesFollow'
      BY <1>10 DEF Upload, main, LocksInv, ClientHolds, EntriesFollow
    <2> QED
      BY <2>1, <2>2 DEF LocksInv
  <1>11. CASE UploadRelease
    <2>1. LocksCounted'
      BY <1>1, <1>11 DEF UploadRelease
    <2>2. ClientHolds'
      BY <1>11 DEF UploadRelease, main, LocksInv, ClientHolds
    <2>3. /\ rpc = "upload" /\ rbuf \in Addresses /\ queue \in Seq(Addresses)
          /\ queue # <<>> /\ rbuf = Head(queue)
      BY <1>0, <1>11 DEF UploadRelease, RefsInv, TypeOK, Busy
    <2>4. /\ \A b \in Addresses : Uploads(queue', b) # {} => Uploads(queue, b) # {}
          /\ Uploads(queue, rbuf) # {}
      BY <1>11, <2>3, UploadsNamed DEF UploadRelease
    <2>5. refs[rbuf] # 0 /\ table[rbuf] # "none"
      BY <1>0, <2>3, <2>4 DEF LocksInv, EntriesFollow
    <2>6. \A b \in Addresses : b # rbuf => refs'[b] = refs[b]
      BY <1>0, <1>11 DEF UploadRelease
    <2>7. /\ refs'[rbuf] = 0 => rpc' = "erase" /\ rbuf' = rbuf
          /\ refs'[rbuf] # 0 => rpc' = "idle"
          /\ UNCHANGED <<table, mpc, mbuf>>
      BY <1>11 DEF UploadRelease, Last, main
    <2>8. EntriesFollow'
      BY <1>0, <2>3, <2>4, <2>5, <2>6, <2>7 DEF LocksInv, EntriesFollow
    <2> QED
      BY <2>1, <2>2, <2>8 DEF LocksInv
  <1>12. CASE EraseRender
    <2>1. /\ rpc = "erase" /\ rbuf \in Addresses /\ refs[rbuf] = 0
          /\ table' = [table EXCEPT ![rbuf] = "none"] /\ rpc' = "idle"
          /\ UNCHANGED <<refs, owned, open, emulated, queue, mpc, mbuf>>
      BY <1>0, <1>12 DEF EraseRender, main, LocksInv, EntriesFollow
    <2>2. open[rbuf] = "no" /\ Uploads(queue, rbuf) = {}
      BY <1>0, <2>1 DEF LocksInv, ClientHolds
    <2>3. LocksCounted'
      <3>1. IsFiniteSet(Emulated') /\ emulated' = Cardinality(Emulated')
        BY <2>1 DEF Emulated, LocksInv, LocksCounted
      <3>2. \A b \in Addresses : table'[b] = "locked" <=> open'[b] = "emulated"
        BY <1>0, <2>1, <2>2 DEF LocksInv, LocksCounted
      <3> QED
        BY <3>1, <3>2 DEF LocksCounted
    <2>4. ClientHolds'
      BY <2>1 DEF LocksInv, ClientHolds
    <2>5. \A b \in Addresses : table'[b] = IF b = rbuf THEN "none" ELSE table[b]
      BY <1>0, <2>1
    <2>7. mpc = "post" => mbuf \in Addresses /\ mbuf # rbuf
      BY <1>0, <2>1 DEF LocksInv, ClientHolds
    <2>6. EntriesFollow'
      BY <1>0, <2>1, <2>2, <2>5, <2>7 DEF LocksInv, EntriesFollow
    <2> QED
      BY <2>3, <2>4, <2>6 DEF LocksInv
  <1>13. CASE UNCHANGED vars
    <2>1. LocksCounted'
      BY <1>1, <1>13 DEF vars
    <2>2. ClientHolds' /\ EntriesFollow'
      BY <1>13 DEF vars, LocksInv, ClientHolds, EntriesFollow
    <2> QED
      BY <2>1, <2>2 DEF LocksInv
  <1>14. CASE PostPiece
    <2>1. /\ mpc = "post" /\ mbuf \in Addresses /\ queue \in Seq(Addresses)
          /\ mbuf \in owned /\ table[mbuf] # "none" /\ refs[mbuf] # 0
          /\ queue' = Append(queue, mbuf)
          /\ UNCHANGED <<owned, open, table, emulated, mpc, mbuf, rpc, rbuf>>
      BY <1>0, <1>14 DEF PostPiece, Post, main, render, RefsInv, TypeOK, LocksInv, ClientHolds, EntriesFollow
    <2>2. \A b \in Addresses : refs'[b] = IF b = mbuf THEN refs[b] + 1 ELSE refs[b]
      BY <1>0, <1>14 DEF PostPiece, Post
    <2>3. \A b \in Addresses : Uploads(queue', b) # {} => Uploads(queue, b) # {} \/ b = mbuf
      BY <2>1, UploadsNamed
    <2>4. refs'[mbuf] # 0
      <3>1. refs[mbuf] >= 0
        BY <2>1, RefsBound, BuffersAssumption
      <3> QED
        BY <1>0, <2>1, <2>2, <3>1
    <2>5. LocksCounted'
      BY <1>1, <2>1
    <2>6. ClientHolds'
      BY <2>1 DEF LocksInv, ClientHolds
    <2>7. \A b \in Addresses : b # mbuf => refs'[b] = refs[b]
      BY <2>2
    <2>8. EntriesFollow'
      BY <1>0, <2>1, <2>3, <2>4, <2>7 DEF LocksInv, EntriesFollow
    <2> QED
      BY <2>5, <2>6, <2>8 DEF LocksInv
  <1>15. CASE PostEnd
    <2>1. /\ mpc = "post" /\ mpc' = "idle"
          /\ UNCHANGED <<refs, owned, open, table, emulated, queue, rpc, rbuf>>
      BY <1>15 DEF PostEnd, Idle, Go, render
    <2>2. LocksCounted'
      BY <1>1, <2>1
    <2>3. ClientHolds' /\ EntriesFollow'
      BY <2>1 DEF LocksInv, ClientHolds, EntriesFollow
    <2> QED
      BY <2>2, <2>3 DEF LocksInv
  <1> QED
    BY <1>2, <1>3, <1>4, <1>5, <1>6, <1>7, <1>8, <1>9, <1>10, <1>11, <1>12, <1>13, <1>14, <1>15 DEF Next

\* At the start there is no entry and no lock.
LEMMA LocksInit == Init => LocksInv
  <1> SUFFICES ASSUME Init
               PROVE  LocksInv
    OBVIOUS
  <1>1. Emulated = {}
    BY DEF Init, Emulated
  <1>2. LocksCounted
    BY <1>1, FS_EmptySet DEF Init, LocksCounted
  <1>3. \A a \in Addresses : Uploads(<<>>, a) = {}
    BY DEF Uploads
  <1> QED
    BY <1>2, <1>3 DEF Init, LocksInv, ClientHolds, EntriesFollow

LEMMA RefsInvHolds == Spec => []RefsInv
  BY RefsInit, RefsStep, PTL DEF Spec

LEMMA LocksInvHolds == ASSUME ~ReuseEarly PROVE Spec => []LocksInv
  <1>1. Init => RefsInv /\ LocksInv
    BY RefsInit, LocksInit
  <1>2. RefsInv /\ LocksInv /\ [Next]_vars => (RefsInv /\ LocksInv)'
    BY RefsStep, LocksStep
  <1> QED
    BY <1>1, <1>2, PTL DEF Spec

------------------------------------------------------------------------------
(* The table under the threads. *)

\* With the slots the buffers do what they do without.
LEMMA TrackedStep == [TrackedNext]_trackedVars => [Next]_vars
  <1> SUFFICES ASSUME [TrackedNext]_trackedVars
               PROVE  [Next]_vars
    OBVIOUS
  <1>1. CASE TblUnlocked /\ TrackInsert
    BY <1>1 DEF TrackInsert, Next
  <1>2. CASE TblUnlocked /\ Looking /\ UNCHANGED tableVars
    BY <1>2 DEF Looking, Next
  <1>3. CASE Apart /\ UNCHANGED tableVars
    BY <1>3 DEF Apart, Next
  <1>4. CASE EraseFind(mbuf, EraseMain)
    BY <1>4 DEF EraseFind, Next
  <1>5. CASE EraseFind(rbuf, EraseRender)
    BY <1>5 DEF EraseFind, Next
  <1>6. CASE EraseLoop
    BY <1>6 DEF EraseLoop, Next
  <1>7. CASE UNCHANGED trackedVars
    BY <1>7 DEF trackedVars
  <1> QED
    BY <1>1, <1>2, <1>3, <1>4, <1>5, <1>6, <1>7 DEF TrackedNext

LEMMA TrackedRefines == TrackedSpec => Spec
  BY TrackedStep, PTL DEF TrackedSpec, TrackedInit, Spec

\* What does not touch the table leaves it as it should be.
LEMMA TableCalm ==
    ASSUME TableInv, UNCHANGED tableVars, Tracked' = Tracked
    PROVE  TableInv'
  <1>1. /\ hash' = hash /\ slots' = slots /\ tpc' = tpc /\ key' = key /\ hole' = hole
        /\ probe' = probe
    BY DEF tableVars
  <1>2. T!TypeOK'
    BY <1>1 DEF TableInv, T!TypeOK, T!Slots
  <1> QED
    BY <1>1, <1>2 DEF TableInv

\* The types of the table.
LEMMA TableType ==
    ASSUME T!TypeOK
    PROVE  /\ hash \in Hashes /\ slots \in Tables /\ hole \in Slots /\ probe \in Slots
           /\ tpc \in {"idle", "erase"} /\ key \in Addresses \cup {None}
           /\ T!Slots = Slots
  BY DEF T!TypeOK, T!Slots, Slots, Tables, Hashes

\* A buffer is entered.
LEMMA InsertKeeps ==
    ASSUME RefsInv, TableInv, TblUnlocked, TrackInsert
    PROVE  TableInv'
  <1>1. /\ mbuf \in Addresses /\ table \in [Addresses -> {"none", "free", "locked"}]
        /\ T!TypeOK /\ Sound(hash, slots) /\ KeysIn(slots, Slots) = Tracked /\ tpc = "idle"
    BY LocksFacts DEF TrackInsert, Track, TableInv, TblUnlocked
  <1>2. CASE table' = table
    BY <1>2, TableCalm DEF TrackInsert, Tracked
  <1>3. CASE table' # table
    <2>1. T!Insert(mbuf) /\ table' = [table EXCEPT ![mbuf] = "free"]
      BY <1>3 DEF TrackInsert, Track
    <2>2. Tracked' = Tracked \cup {mbuf}
      BY <1>1, <2>1 DEF Tracked
    <2>3. PICK n \in Slots : T!Stops(mbuf, n) /\ slots' = [slots EXCEPT ![T!Probe(mbuf, n)] = mbuf]
      <3>1. \E n \in Slots : T!Stops(mbuf, n)
        BY <1>1, ProbeStops
      <3> QED
        BY <1>1, <2>1, <3>1, TableType DEF T!Insert
    <2>4. UNCHANGED <<hash, tpc, key, hole, probe>>
      BY <2>1 DEF T!Insert
    <2>5. Sound(hash, slots') /\ KeysIn(slots', Slots) = KeysIn(slots, Slots) \cup {mbuf}
      BY <1>1, <2>3, Inserting
    <2>6. T!TypeOK'
      <3>1. slots' \in Tables
        BY <1>1, <2>3, TableType DEF Tables
      <3> QED
        BY <1>1, <2>4, <3>1 DEF T!TypeOK, T!Slots, Slots, Tables
    <2> QED
      BY <1>1, <2>2, <2>4, <2>5, <2>6 DEF TableInv
  <1> QED
    BY <1>2, <1>3

\* Looking an entry up and changing its lock enters and erases none.
LEMMA LookingKeeps ==
    ASSUME RefsInv, TableInv, Looking, UNCHANGED tableVars
    PROVE  TableInv'
  <1>1. table \in [Addresses -> {"none", "free", "locked"}] /\ (mpc # "idle" => mbuf \in Addresses)
    BY LocksFacts
  <1>2. ASSUME NEW a \in Addresses, LockBegin(a)
        PROVE  Tracked' = Tracked
    BY <1>2 DEF LockBegin, Tracked
  <1>3. ASSUME NEW a \in Addresses, Unlock(a)
        PROVE  Tracked' = Tracked
    BY <1>1, <1>3 DEF Unlock, Close, Tracked
  <1>4. ASSUME LockEnd
        PROVE  Tracked' = Tracked
    BY <1>1, <1>4 DEF LockEnd, Tracked
  <1> QED
    BY <1>2, <1>3, <1>4, TableCalm DEF Looking

\* Neither does what needs no table.
LEMMA ApartKeeps ==
    ASSUME TableInv, Apart, UNCHANGED tableVars
    PROVE  TableInv'
  <1>1. table' = table
    BY DEF Apart, Create, Release, LockReal, PostPiece, PostEnd, Upload, UploadRelease
  <1> QED
    BY <1>1, TableCalm DEF Tracked

\* Erase begins, or finds no entry and the buffer has none.
LEMMA EraseFindKeeps ==
    ASSUME RefsInv, TableInv, NEW a \in Addresses, NEW GiveUp, EraseFind(a, GiveUp),
           GiveUp => table' = [table EXCEPT ![a] = "none"]
    PROVE  TableInv'
  <1>1. /\ T!TypeOK /\ Sound(hash, slots) /\ KeysIn(slots, Slots) = Tracked /\ tpc = "idle"
        /\ table \in [Addresses -> {"none", "free", "locked"}]
    BY LocksFacts DEF TableInv, EraseFind, TblUnlocked
  <1>2. CASE T!EraseBegin(a) /\ UNCHANGED vars
    <2>1. PICK n \in Slots : /\ slots[T!Probe(a, n)] = a
                             /\ hole' = T!Probe(a, n) /\ probe' = hole'
      BY <1>1, <1>2, TableType DEF T!EraseBegin
    <2>2. tpc' = "erase" /\ key' = a /\ hash' = hash /\ slots' = slots /\ table' = table
      BY <1>2 DEF T!EraseBegin, vars
    <2>3. hole' \in Slots /\ slots[hole'] = a /\ probe' = hole' /\ a # None
      BY <1>1, <2>1, ProbeType, BuffersAssumption
    <2>4. /\ Shifting(hash, slots, a, hole', hole')
          /\ KeysIn(slots, Slots \ {hole'}) \cup {a} = KeysIn(slots, Slots)
      BY <1>1, <2>3, ErasingBegins, TableType
    <2>5. T!TypeOK'
      BY <1>1, <2>2, <2>3 DEF T!TypeOK, T!Slots, Slots
    <2>6. Tracked' = Tracked
      BY <2>2 DEF Tracked
    <2> QED
      BY <1>1, <2>2, <2>3, <2>4, <2>5, <2>6 DEF TableInv
  <1>3. CASE ~T!Found(a) /\ GiveUp /\ UNCHANGED tableVars
    <2>1. a \notin Tracked
      BY <1>1, <1>3, FoundIsHeld
    <2>2. Tracked' = Tracked
      BY <1>1, <1>3, <2>1 DEF Tracked
    <2> QED
      BY <1>3, <2>2, TableCalm
  <1> QED
    BY <1>2, <1>3 DEF EraseFind

\* A turn of the loop of Erase.
LEMMA EraseLoopKeeps ==
    ASSUME RefsInv, TableInv, EraseLoop
    PROVE  TableInv'
  <1>1. /\ T!TypeOK /\ tpc = "erase" /\ Shifting(hash, slots, key, hole, probe)
        /\ key \in Addresses /\ KeysIn(slots, Slots \ {hole}) \cup {key} = Tracked
        /\ table \in [Addresses -> {"none", "free", "locked"}]
    BY LocksFacts DEF TableInv, EraseLoop, T!EraseStep
  <1>2. /\ hash \in Hashes /\ slots \in Tables /\ hole \in Slots /\ probe \in Slots
    BY <1>1, TableType
  <1>3. probe' = (probe + 1) % TableSize /\ probe' \in Slots /\ hash' = hash /\ key' = key
    BY <1>2, AwayNext DEF EraseLoop, T!EraseStep, T!NextSlot
  <1>4. CASE slots[probe'] = None
    <2>1. slots' = [slots EXCEPT ![hole] = None] /\ tpc' = "idle" /\ hole' = hole
      BY <1>4 DEF EraseLoop, T!EraseStep
    <2>2. table' = [table EXCEPT ![key] = "none"]
      BY <2>1 DEF EraseLoop, EraseMain, EraseRender
    <2>3. Sound(hash, slots') /\ KeysIn(slots', Slots) = KeysIn(slots, Slots \ {hole})
      BY <1>1, <1>2, <1>3, <1>4, <2>1, ErasingEnds
    <2>4. key \notin KeysIn(slots, Slots \ {hole})
      BY <1>1 DEF Shifting, KeysIn
    <2>5. Tracked' = Tracked \ {key}
      BY <1>1, <2>2 DEF Tracked
    <2>6. KeysIn(slots', Slots) = Tracked'
      BY <1>1, <2>3, <2>4, <2>5
    <2>7. slots' \in Tables
      BY <1>2, <2>1 DEF Tables
    <2>8. T!TypeOK'
      BY <1>1, <1>2, <1>3, <2>1, <2>7 DEF T!TypeOK, T!Slots, Slots, Tables
    <2> QED
      BY <1>3, <2>1, <2>3, <2>6, <2>8 DEF TableInv
  <1>5. CASE slots[probe'] # None
    <2>1. T!Shift(probe') /\ tpc' = tpc
      BY <1>5 DEF EraseLoop, T!EraseStep
    <2>2. UNCHANGED table
      BY <1>1, <2>1 DEF EraseLoop, vars
    <2>3. Tracked' = Tracked
      BY <2>2 DEF Tracked
    <2>4. slots[probe'] \in Addresses /\ hash[slots[probe']] \in Slots
      BY <1>2, <1>3, <1>5, HomeType
    <2>5. CASE probe' # hole /\ OnWay(hash[slots[probe']], hole, probe')
      <3>1. T!Movable(hole, probe', hash[slots[probe']])
        BY <1>2, <1>3, <2>4, <2>5, MovableIsOnWay
      <3>2. slots' = [slots EXCEPT ![hole] = slots[probe']] /\ hole' = probe'
        BY <2>1, <3>1 DEF T!Shift
      <3>3. /\ Shifting(hash, slots', key, probe', probe')
            /\ KeysIn(slots', Slots \ {probe'}) = KeysIn(slots, Slots \ {hole})
        <4>1. PICK s \in Slots : s = probe'
          BY <1>3
        <4>2. /\ Shifting(hash, [slots EXCEPT ![hole] = slots[s]], key, s, s)
              /\ KeysIn([slots EXCEPT ![hole] = slots[s]], Slots \ {s}) =
                    KeysIn(slots, Slots \ {hole})
          <5>1. slots[s] # None /\ s # hole /\ OnWay(hash[slots[s]], hole, s)
            BY <1>5, <2>5, <4>1
          <5> QED
            BY <1>1, <1>2, <5>1, ErasingShifts
        <4> QED
          BY <3>2, <4>1, <4>2
      <3>4. slots' \in Tables
        BY <1>2, <2>4, <3>2 DEF Tables
      <3>5. T!TypeOK'
        BY <1>1, <1>3, <2>1, <3>2, <3>4 DEF T!TypeOK, T!Slots, Slots, Tables
      <3> QED
        BY <1>1, <1>3, <2>1, <2>3, <3>2, <3>3, <3>5 DEF TableInv
    <2>6. CASE ~(probe' # hole /\ OnWay(hash[slots[probe']], hole, probe'))
      <3>1. ~T!Movable(hole, probe', hash[slots[probe']])
        <4>1. CASE probe' = hole
          BY <1>2, <2>4, <4>1, SizeType DEF T!Movable, Slots
        <4>2. CASE probe' # hole
          BY <1>2, <1>3, <2>4, <2>6, <4>2, MovableIsOnWay
        <4> QED
          BY <4>1, <4>2
      <3>2. slots' = slots /\ hole' = hole
        BY <2>1, <3>1 DEF T!Shift
      <3>3. Shifting(hash, slots, key, hole, probe')
        BY <1>1, <1>2, <1>3, <1>5, <2>6, ErasingSkips
      <3>4. T!TypeOK'
        BY <1>1, <1>3, <2>1, <3>2 DEF T!TypeOK, T!Slots, Slots
      <3> QED
        BY <1>1, <1>3, <2>1, <2>3, <3>2, <3>3, <3>4 DEF TableInv
    <2> QED
      BY <2>5, <2>6
  <1> QED
    BY <1>4, <1>5

LEMMA TableStep == RefsInv /\ TableInv /\ [TrackedNext]_trackedVars => TableInv'
  <1> SUFFICES ASSUME RefsInv, TableInv, [TrackedNext]_trackedVars
               PROVE  TableInv'
    OBVIOUS
  <1>1. CASE TblUnlocked /\ TrackInsert
    BY <1>1, InsertKeeps
  <1>2. CASE TblUnlocked /\ Looking /\ UNCHANGED tableVars
    BY <1>2, LookingKeeps
  <1>3. CASE Apart /\ UNCHANGED tableVars
    BY <1>3, ApartKeeps
  <1>4. CASE mpc = "erase" /\ EraseFind(mbuf, EraseMain)
    <2>1. mbuf \in Addresses
      BY <1>4, LocksFacts
    <2>2. EraseMain => table' = [table EXCEPT ![mbuf] = "none"]
      BY DEF EraseMain
    <2> QED
      BY <1>4, <2>1, <2>2, EraseFindKeeps
  <1>5. CASE rpc = "erase" /\ EraseFind(rbuf, EraseRender)
    <2>1. rbuf \in Addresses
      BY <1>5, LocksFacts
    <2>2. EraseRender => table' = [table EXCEPT ![rbuf] = "none"]
      BY DEF EraseRender
    <2> QED
      BY <1>5, <2>1, <2>2, EraseFindKeeps
  <1>6. CASE EraseLoop
    BY <1>6, EraseLoopKeeps
  <1>7. CASE UNCHANGED trackedVars
    <2>1. UNCHANGED tableVars /\ table' = table
      BY <1>7 DEF trackedVars, vars
    <2> QED
      BY <2>1, TableCalm DEF Tracked
  <1> QED
    BY <1>1, <1>2, <1>3, <1>4, <1>5, <1>6, <1>7 DEF TrackedNext

LEMMA TableInit == TrackedInit => TableInv
  <1> SUFFICES ASSUME TrackedInit
               PROVE  TableInv
    OBVIOUS
  <1>1. hash \in [Slots -> Slots] \/ hash \in Hashes
    BY DEF TrackedInit, T!Init, T!Slots, Slots, Hashes
  <1>2. \A s \in Slots : slots[s] = None
    BY DEF TrackedInit, T!Init, T!Slots, Slots
  <1>3. Sound(hash, slots)
    BY <1>2 DEF Sound, Once, Reached
  <1>4. KeysIn(slots, Slots) = {} /\ Tracked = {}
    BY <1>2, BuffersAssumption DEF TrackedInit, Init, KeysIn, Tracked
  <1>5. T!TypeOK
    BY SizeType DEF TrackedInit, T!Init, T!TypeOK, T!Slots
  <1> QED
    BY <1>3, <1>4, <1>5 DEF TableInv, TrackedInit, T!Init

LEMMA TableInvHolds == TrackedSpec => []TableInv
  <1>1. TrackedInit => TableInv
    BY TableInit
  <1>2. RefsInv /\ TableInv /\ [TrackedNext]_trackedVars => TableInv'
    BY TableStep
  <1> QED
    BY <1>1, <1>2, TrackedRefines, RefsInvHolds, PTL DEF TrackedSpec

------------------------------------------------------------------------------
(* The theorems. *)

\* Every variable of the buffers keeps its type, and no buffer has more references
\* than the ring has room for uploads, with the client's own.
THEOREM BuffersTypeCorrect == TrackedSpec => []TypeOK
  <1>1. RefsInv => TypeOK
    BY DEF RefsInv
  <1> QED
    BY <1>1, TrackedRefines, RefsInvHolds, PTL

\* An upload has the reference Post took until it has let go of it, whatever the
\* client and the render thread do in between: a buffer's references are its uploads
\* and the client's own, so none is destroyed that a command in the ring names (Post,
\* T_BufRelease).
THEOREM UploadsCorrect == TrackedSpec => []UploadsKeepAlive
  <1>1. RefsInv => UploadsKeepAlive
    BY DEF RefsInv
  <1> QED
    BY <1>1, TrackedRefines, RefsInvHolds, PTL

\* If no address comes back before its entry is erased, a lock answered from the
\* arena keeps its entry until the Unlock, and g_emulatedLocks counts those that are
\* open (T_BufLock, T_BufUnlock, T_BufRelease).
THEOREM LocksCorrect == ASSUME ~ReuseEarly PROVE TrackedSpec => []LockedStaysTracked
  <1>1. LocksInv => LockedStaysTracked
    BY DEF LocksInv, LocksCounted, LockedStaysTracked, Emulated
  <1> QED
    BY <1>1, TrackedRefines, LocksInvHolds, PTL

\* The slots hold the entries and nothing else: whatever the hash function and however
\* often the probe wraps round the table's end, Insert and the backward shift of Erase
\* leave every tracked buffer in one slot, where Find finds it (Find, Insert, Erase).
THEOREM SlotsCorrect ==
    TrackedSpec => [](TblUnlocked => /\ T!Held = {a \in Addresses : table[a] # "none"}
                                     /\ T!EveryKeyIsFound)
  <1>1. TableInv => (TblUnlocked => /\ T!Held = {a \in Addresses : table[a] # "none"}
                                    /\ T!EveryKeyIsFound)
    BY FoundIsHeld DEF TableInv, TblUnlocked, Tracked
  <1> QED
    BY <1>1, TableInvHolds, PTL

\* And no buffer that is gone leaves an entry to the next one at its address, once the
\* thunk that dropped its last reference is through, if the address does not come back
\* before (T_BufRelease).
THEOREM TableCorrect == ASSUME ~ReuseEarly PROVE TrackedSpec => []TableIsEntries
  <1>1. LocksInv => \A a \in Addresses : refs[a] = 0 /\ table[a] # "none" => a = mbuf \/ a = rbuf
    BY DEF LocksInv, EntriesFollow
  <1> QED
    BY <1>1, SlotsCorrect, TrackedRefines, LocksInvHolds, PTL DEF TableIsEntries
=============================================================================
