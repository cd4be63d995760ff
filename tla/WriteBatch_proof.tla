---------------------------- MODULE WriteBatch_proof ----------------------------
(***************************************************************************)
(* Where the client's own writes succeed, the write batcher keeps every    *)
(* file's writes in order, for any number of threads, files and writes and *)
(* any size of the buffer, and whichever flush falls short.                *)
(***************************************************************************)
EXTENDS WriteBatch, SequenceTheorems, TLAPS

\* A thread in a call has the file open, and but for a file the dead batcher took a
\* write of, the buffer holds nothing for it once TryAbsorb is through.  The file is
\* not even the buffer's once OnClosing is, and the size check is off while its
\* position may go back.
InCall ==
    \A t \in Threads : pc[t].at # "idle" =>
        /\ pc[t].file \in Files /\ user[pc[t].file] = t
        /\ owner = pc[t].file /\ pc[t].at \notin {"small", "large"} =>
              /\ pc[t].file \notin late => held = <<>>
              /\ pc[t].at \notin {"check", "close"}
              /\ verify => pc[t].at \notin {"read", "seek"}

\* The bytes of a buffer under the size check have reached its file since the last
\* seek, or are held, but for the write that is on its way.
Counted ==
    owner # None /\ verify /\ ~dead =>
        \/ ownerBytes <= since[owner] + Len(held)
        \/ /\ ownerBytes = since[owner] + Len(held) + 1
           /\ pc[user[owner]].at = "write" /\ pc[user[owner]].file = owner

\* What OnClosing took along is there, and nobody is blamed.
DueIsThere ==
    /\ \A t \in Threads : pc[t].at = "check" /\ due[t].verify => due[t].expect <= since[pc[t].file]
    /\ ~blamed

\* Only a flush that fell short stands the batcher down, and then nothing is held but
\* for a file a thread was just writing, which saw no flush of its own fail.
StoodDown ==
    /\ dead => lost # {}
    /\ dead /\ held # <<>> => owner \in late
    /\ dead /\ ~exited => \A t \in Threads : pc[t].at \in {"small", "large"} => \E u \in Threads : u # t

Accounts == InOrder /\ InCall /\ Counted /\ DueIsThere /\ StoodDown

\* The client's own writes succeed.
Clean == "clientfail" \notin Allowed

BatchInv == TypeOK /\ (Clean => Accounts)

------------------------------------------------------------------------------
(* What a flush does. *)

\* A flush moves n of the writes held to the file.
LEMMA FlushTypes ==
    ASSUME BufferTypes, FileTypes, NEW n \in Outcomes, FlushLocked(n)
    PROVE  /\ n \in 0 .. Len(held)
           /\ disk' \in [Files -> Seq(Nat)] /\ since' \in [Files -> Nat] /\ lost' \subseteq Files
  <1>1. n \in 0 .. Len(held)
    BY DEF BufferTypes, Outcomes
  <1>2. CASE owner = None \/ held = <<>>
    BY <1>1, <1>2 DEF FlushLocked, FileTypes
  <1>3. CASE ~(owner = None \/ held = <<>>)
    <2> DEFINE moved == SubSeq(held, 1, n)
    <2>1. owner \in Files /\ moved \in Seq(Nat)
      BY <1>1, <1>3 DEF BufferTypes
    <2>2. disk[owner] \o moved \in Seq(Nat) /\ since[owner] + n \in Nat
      BY <1>1, <2>1 DEF FileTypes
    <2>3. /\ disk' = [disk EXCEPT ![owner] = disk[owner] \o moved]
          /\ since' = [since EXCEPT ![owner] = since[owner] + n]
          /\ lost' \subseteq lost \cup {owner}
      BY <1>3 DEF FlushLocked
    <2> HIDE DEF moved
    <2>4. disk' \in [Files -> Seq(Nat)]
      BY <2>1, <2>2, <2>3 DEF FileTypes
    <2>5. since' \in [Files -> Nat] /\ lost' \subseteq Files
      BY <2>1, <2>2, <2>3 DEF FileTypes
    <2> QED
      BY <1>1, <2>4, <2>5
  <1> QED
    BY <1>2, <1>3

\* A flush concerns the file of the buffer alone; a complete one appends all the
\* buffer holds, and one that falls short is recorded.
LEMMA FlushEffect ==
    ASSUME BufferTypes, FileTypes, InOrder, NEW n \in Outcomes, FlushLocked(n)
    PROVE  /\ \A f \in Files : f # owner => disk'[f] = disk[f] /\ since'[f] = since[f]
           /\ owner # None => since'[owner] = since[owner] + n
           /\ Flushes(n) => lost' = lost
           /\ Flushes(n) /\ owner # None => disk'[owner] = disk[owner] \o held
           /\ ~Flushes(n) => owner # None /\ lost' = lost \cup {owner}
  <1>1. n \in 0 .. Len(held) /\ Len(held) \in Nat
    BY FlushTypes DEF BufferTypes
  <1>2. CASE held = <<>>
    <2>1. n = 0 /\ Len(held) = 0
      BY <1>1, <1>2
    <2>2. UNCHANGED <<disk, since, lost>>
      BY <1>2 DEF FlushLocked
    <2>3. owner # None => owner \in Files /\ disk[owner] \o held = disk[owner]
      BY <1>2, ConcatEmptySeq DEF BufferTypes, FileTypes
    <2>4. owner # None => since[owner] = since[owner] + n
      BY <2>1, <2>3 DEF FileTypes
    <2> QED
      BY <2>1, <2>2, <2>3, <2>4 DEF Flushes
  <1>3. CASE held # <<>>
    <2> DEFINE moved == SubSeq(held, 1, n)
    <2>1. owner # None /\ owner \in Files
      BY <1>3 DEF InOrder, BufferTypes
    <2>2. Flushes(n) => moved = held
      BY SubSeqFull DEF BufferTypes, Flushes
    <2>3. /\ disk' = [disk EXCEPT ![owner] = disk[owner] \o moved]
          /\ since' = [since EXCEPT ![owner] = since[owner] + n]
          /\ lost' = IF n < Len(held) THEN lost \cup {owner} ELSE lost
      BY <1>3, <2>1 DEF FlushLocked
    <2>4. Flushes(n) <=> ~(n < Len(held))
      BY <1>1 DEF Flushes
    <2> HIDE DEF moved
    <2> QED
      BY <2>1, <2>2, <2>3, <2>4 DEF FileTypes
  <1> QED
    BY <1>2, <1>3

------------------------------------------------------------------------------
(* TypeOK. *)

\* A thread goes from one call to another.
LEMMA PcType ==
    ASSUME ThreadTypes, NEW t \in Threads, NEW p \in Calls \cup {Idle}, pc' = [pc EXCEPT ![t] = p]
    PROVE  pc' \in [Threads -> Calls \cup {Idle}]
  BY DEF ThreadTypes

\* A thread in a call is there with a file.
LEMMA InFile ==
    ASSUME ThreadTypes, NEW t \in Threads, pc[t].at # "idle"
    PROVE  pc[t] \in Calls /\ pc[t].file \in Files /\ pc[t].id \in Nat
  <1>1. pc[t] \in Calls
    BY DEF ThreadTypes, Idle
  <1> QED
    BY <1>1 DEF Calls

\* The buffer keeps its types.
LEMMA NextBufferTypes ==
    ASSUME TypeOK, [Next]_vars
    PROVE  BufferTypes'
  <1> USE DEF BufferTypes
  <1>e. <<>> \in Seq(Nat)
    BY EmptySeq
  <1>1. ASSUME NEW t \in Threads, NEW f \in Files, Open(t, f)
        PROVE  BufferTypes'
    BY <1>1 DEF TypeOK, Open, batch
  <1>0. ASSUME NEW t \in Threads, NEW f \in Files, TryAbsorb(t, f)
        PROVE  BufferTypes'
    BY <1>0 DEF TypeOK, TryAbsorb, batch
  <1>2. ASSUME NEW t \in Threads, Absorb(t)
        PROVE  BufferTypes'
    <2> DEFINE id == pc[t].id
    <2>1. id \in Nat /\ pc[t].file \in Files /\ writes' \in Nat
      BY <1>2, InFile DEF TypeOK, Absorb, At
    <2>a. held' \in {Append(held, id), <<id>>, <<>>}
      BY <1>2 DEF Absorb
    <2>b. ownerBytes' \in {ownerBytes + 1, (IF owner = pc[t].file THEN ownerBytes ELSE 0) + 1, ownerBytes}
      BY <1>2 DEF Absorb
    <2>c. /\ dead' \in {dead, TRUE} /\ owner' \in {owner, pc[t].file}
          /\ verify' \in {verify, owner = pc[t].file => verify}
      BY <1>2 DEF Absorb, Take
    <2> HIDE DEF id
    <2>3. held' \in Seq(Nat)
      <3>1. Append(held, id) \in Seq(Nat) /\ <<id>> \in Seq(Nat)
        BY <2>1 DEF TypeOK
      <3> QED
        BY <1>e, <2>a, <3>1
    <2>4. ownerBytes' \in Nat
      BY <2>b DEF TypeOK
    <2>5. dead' \in BOOLEAN /\ owner' \in Files \cup {None} /\ verify' \in BOOLEAN
      BY <2>1, <2>c DEF TypeOK
    <2> QED
      BY <2>1, <2>3, <2>4, <2>5
  <1>3. ASSUME NEW t \in Threads, Pass(t)
        PROVE  BufferTypes'
    <2>1. held' \in Seq(Nat)
      BY <1>e, <1>3 DEF Pass, PassFlush, TypeOK
    <2>2. dead' \in BOOLEAN
      BY <1>3 DEF Pass, PassFlush, TypeOK
    <2>3. ownerBytes' \in Nat
      BY <1>3 DEF Pass, PassFlush, TypeOK
    <2> QED
      BY <1>3, <2>1, <2>2, <2>3 DEF Pass, TypeOK
  <1>4. ASSUME NEW t \in Threads, NEW f \in Files, OnClosing(t, f)
        PROVE  BufferTypes'
    <2>1. held' \in Seq(Nat)
      BY <1>e, <1>4 DEF OnClosing, ReleaseOwned, FlushOwner, TypeOK
    <2>2. dead' \in BOOLEAN
      BY <1>4 DEF OnClosing, ReleaseOwned, FlushOwner, TypeOK
    <2>3. ownerBytes' \in Nat /\ owner' \in Files \cup {None} /\ verify' \in BOOLEAN
      <3>1. \/ owner' = None /\ verify' = TRUE /\ ownerBytes' = 0
            \/ UNCHANGED <<owner, verify, ownerBytes>>
        BY <1>4 DEF OnClosing, ReleaseOwned, DropOwner
      <3>2. ownerBytes' \in Nat
        BY <3>1 DEF TypeOK
      <3>3. owner' \in Files \cup {None} /\ verify' \in BOOLEAN
        BY <3>1 DEF TypeOK
      <3> QED
        BY <3>2, <3>3
    <2> QED
      BY <1>4, <2>1, <2>2, <2>3 DEF OnClosing, TypeOK
  <1>5. ASSUME NEW t \in Threads, NEW f \in Files, NEW op \in {"read", "seek", "sync"},
               FlushHandle(t, f, op)
        PROVE  BufferTypes'
    <2>1. held' \in Seq(Nat) /\ dead' \in BOOLEAN /\ verify' \in BOOLEAN
      BY <1>e, <1>5 DEF FlushHandle, FlushOwner, Verified, TypeOK
    <2> QED
      BY <1>5, <2>1 DEF FlushHandle, TypeOK
  <1>6. ASSUME NEW t \in Threads, ClientWrite(t) \/ Operate(t) \/ Close(t)
        PROVE  BufferTypes'
    BY <1>6 DEF TypeOK, ClientWrite, Operate, Close, batch
  <1>7. ASSUME NEW t \in Threads, Check(t)
        PROVE  BufferTypes'
    BY <1>7 DEF TypeOK, Check
  <1>8. CASE Unload
    BY <1>8 DEF TypeOK, Unload, FlushOwner
  <1>9. CASE Exit \/ UNCHANGED vars
    BY <1>9 DEF TypeOK, Exit, vars, batch
  <1> QED
    BY <1>0, <1>1, <1>2, <1>3, <1>4, <1>5, <1>6, <1>7, <1>8, <1>9 DEF Next

\* The threads keep their types.
LEMMA NextThreadTypes ==
    ASSUME TypeOK, [Next]_vars
    PROVE  ThreadTypes'
  <1> USE DEF ThreadTypes
  <1>a. scenario' = scenario /\ Threads' = Threads
    BY DEF Next, vars, Open, TryAbsorb, Absorb, Take, Pass, OnClosing, FlushHandle, ClientWrite, Operate, Check,
           Close, Unload, Exit, Threads
  <1>1. ASSUME NEW t \in Threads, NEW f \in Files, Open(t, f)
        PROVE  ThreadTypes'
    BY <1>a, <1>1 DEF TypeOK, Open
  <1>0. ASSUME NEW t \in Threads, NEW f \in Files, TryAbsorb(t, f)
        PROVE  ThreadTypes'
    <2>1. UNCHANGED <<user, due>> /\ writes' \in Nat
      BY <1>0 DEF TryAbsorb, TypeOK, BufferTypes
    <2>2. PICK at \in {"write", "small", "large"} : pc' = [pc EXCEPT ![t] = [at |-> at, file |-> f, id |-> writes']]
      BY <1>0 DEF TryAbsorb, GoWrite
    <2>3. [at |-> at, file |-> f, id |-> writes'] \in Calls
      BY <2>1 DEF Ats, Calls
    <2> QED
      BY <1>a, <2>1, <2>2, <2>3, PcType DEF TypeOK
  <1>2. ASSUME NEW t \in Threads, Absorb(t) \/ Pass(t)
        PROVE  ThreadTypes'
    <2> DEFINE gone == [at |-> "write", file |-> pc[t].file, id |-> pc[t].id]
    <2>1. UNCHANGED <<user, due>>
      BY <1>2 DEF Absorb, Pass
    <2>2. PICK p \in {gone, Idle} : pc' = [pc EXCEPT ![t] = p]
      BY <1>2 DEF Absorb, Take, Pass, GoWrite
    <2>3. gone \in Calls
      BY <1>2, InFile DEF Absorb, Pass, At, Ats, Calls, TypeOK
    <2> HIDE DEF gone
    <2> QED
      BY <1>a, <2>1, <2>2, <2>3, PcType DEF TypeOK
  <1>3. ASSUME NEW t \in Threads, NEW f \in Files, OnClosing(t, f)
        PROVE  ThreadTypes'
    <2>1. PICK at \in {"check", "close"} : pc' = [pc EXCEPT ![t] = [at |-> at, file |-> f, id |-> 0]]
      BY <1>3 DEF OnClosing, Go
    <2>2. [at |-> at, file |-> f, id |-> 0] \in Calls
      BY DEF Ats, Calls
    <2>3. due' = due \/ due' = [due EXCEPT ![t] = [expect |-> ownerBytes, verify |-> verify /\ ~dead']]
      BY <1>3 DEF OnClosing, ReleaseOwned
    <2>4. due' \in [Threads -> [expect : Nat, verify : BOOLEAN]]
      <3>1. [expect |-> ownerBytes, verify |-> verify /\ ~dead'] \in [expect : Nat, verify : BOOLEAN]
        BY DEF TypeOK, BufferTypes
      <3> QED
        BY <2>3, <3>1 DEF TypeOK
    <2> QED
      BY <1>a, <1>3, <2>1, <2>2, <2>4, PcType DEF OnClosing, TypeOK
  <1>4. ASSUME NEW t \in Threads, NEW f \in Files, NEW op \in {"read", "seek", "sync"},
               FlushHandle(t, f, op)
        PROVE  ThreadTypes'
    <2>1. [at |-> op, file |-> f, id |-> 0] \in Calls
      BY DEF Ats, Calls
    <2> QED
      BY <1>a, <1>4, <2>1, PcType DEF FlushHandle, Go, TypeOK
  <1>5. ASSUME NEW t \in Threads, ClientWrite(t) \/ Operate(t) \/ Close(t)
        PROVE  ThreadTypes'
    <2>1. pc' = [pc EXCEPT ![t] = Idle] /\ UNCHANGED due
      BY <1>5 DEF ClientWrite, Operate, Close
    <2>3. user' \in [Files -> Threads \cup {None}]
      BY <1>5 DEF ClientWrite, Operate, Close, TypeOK
    <2> QED
      BY <1>a, <2>1, <2>3, PcType DEF TypeOK
  <1>6. ASSUME NEW t \in Threads, Check(t)
        PROVE  ThreadTypes'
    <2>1. pc' = [pc EXCEPT ![t] = [at |-> "close", file |-> pc[t].file, id |-> 0]]
      BY <1>6 DEF Check, Go
    <2>2. [at |-> "close", file |-> pc[t].file, id |-> 0]
            \in Calls
      BY <1>6, InFile DEF Check, At, Ats, Calls, TypeOK
    <2>3. due' \in [Threads -> [expect : Nat, verify : BOOLEAN]]
      BY <1>6 DEF Check, NoDue, TypeOK
    <2> QED
      BY <1>a, <1>6, <2>1, <2>2, <2>3, PcType DEF Check, TypeOK
  <1>7. CASE Unload \/ Exit \/ UNCHANGED vars
    BY <1>a, <1>7 DEF TypeOK, Unload, Exit, vars
  <1> QED
    BY <1>0, <1>1, <1>2, <1>3, <1>4, <1>5, <1>6, <1>7 DEF Next

\* The files keep their types.
LEMMA NextFileTypes ==
    ASSUME TypeOK, [Next]_vars
    PROVE  FileTypes'
  <1> USE DEF FileTypes
  <1>a. ASSUME NEW n \in Outcomes, FlushLocked(n), UNCHANGED <<handed, late>>
        PROVE  FileTypes'
    BY <1>a, FlushTypes DEF TypeOK
  <1>b. ASSUME NoFlush, UNCHANGED <<handed, late>>
        PROVE  FileTypes'
    BY <1>b DEF NoFlush, TypeOK
  <1>1. ASSUME NEW t \in Threads, NEW f \in Files, Open(t, f)
        PROVE  FileTypes'
    BY <1>1 DEF TypeOK, Open
  <1>0. ASSUME NEW t \in Threads, NEW f \in Files, TryAbsorb(t, f)
        PROVE  FileTypes'
    BY <1>0 DEF TypeOK, TryAbsorb, files
  <1>2. ASSUME NEW t \in Threads, Absorb(t)
        PROVE  FileTypes'
    <2> DEFINE f == pc[t].file
    <2>1. pc[t].id \in Nat /\ f \in Files
      BY <1>2, InFile DEF Absorb, At, TypeOK
    <2>2. Append(handed[f], pc[t].id) \in Seq(Nat)
      BY <2>1 DEF TypeOK
    <2>3. handed' \in {handed, [handed EXCEPT ![f] = Append(handed[f], pc[t].id)]}
      BY <1>2 DEF Absorb, Take
    <2>c. late' \in {late, late \cup {f}}
      BY <1>2 DEF Absorb, Take
    <2>4. handed' \in [Files -> Seq(Nat)]
      BY <2>2, <2>3 DEF TypeOK
    <2>5. NoFlush \/ \E n \in Outcomes : FlushLocked(n)
      BY <1>2 DEF Absorb
    <2>6. disk' \in [Files -> Seq(Nat)] /\ since' \in [Files -> Nat] /\ lost' \subseteq Files
      BY <2>5, FlushTypes DEF NoFlush, TypeOK
    <2>7. late' \subseteq Files
      BY <2>1, <2>c DEF TypeOK
    <2> QED
      BY <2>4, <2>6, <2>7
  <1>3. ASSUME NEW t \in Threads, Pass(t)
        PROVE  FileTypes'
    BY <1>a, <1>b, <1>3 DEF Pass, PassFlush
  <1>4. ASSUME NEW t \in Threads, NEW f \in Files, OnClosing(t, f)
        PROVE  FileTypes'
    BY <1>a, <1>b, <1>4 DEF OnClosing, ReleaseOwned, FlushOwner
  <1>5. ASSUME NEW t \in Threads, NEW f \in Files, NEW op \in {"read", "seek", "sync"},
               FlushHandle(t, f, op)
        PROVE  FileTypes'
    BY <1>a, <1>b, <1>5 DEF FlushHandle, FlushOwner
  <1>6. ASSUME NEW t \in Threads, ClientWrite(t)
        PROVE  FileTypes'
    <2> DEFINE f == pc[t].file
    <2>1. pc[t].id \in Nat
      BY <1>6, InFile DEF ClientWrite, At, TypeOK
    <2>2. CASE UNCHANGED files
      BY <1>6, <2>2 DEF ClientWrite, TypeOK, files
    <2>3. CASE /\ handed' = [handed EXCEPT ![f] = Append(@, pc[t].id)]
               /\ disk' = [disk EXCEPT ![f] = Append(@, pc[t].id)]
               /\ since' = [since EXCEPT ![f] = @ + 1]
      <3>1. handed' \in [Files -> Seq(Nat)]
        <4>1. f \in Files => Append(handed[f], pc[t].id) \in Seq(Nat)
          BY <2>1 DEF TypeOK
        <4> QED
          BY <2>3, <4>1 DEF TypeOK
      <3>2. disk' \in [Files -> Seq(Nat)]
        <4>1. f \in Files => Append(disk[f], pc[t].id) \in Seq(Nat)
          BY <2>1 DEF TypeOK
        <4> QED
          BY <2>3, <4>1 DEF TypeOK
      <3>3. since' \in [Files -> Nat]
        <4>1. f \in Files => since[f] + 1 \in Nat
          BY DEF TypeOK
        <4> HIDE DEF f
        <4> QED
          BY <2>3, <4>1 DEF TypeOK
      <3> QED
        BY <1>6, <3>1, <3>2, <3>3 DEF ClientWrite, TypeOK
    <2> QED
      BY <1>6, <2>2, <2>3 DEF ClientWrite
  <1>7. ASSUME NEW t \in Threads, Operate(t)
        PROVE  FileTypes'
    BY <1>7 DEF Operate, TypeOK
  <1>8. ASSUME NEW t \in Threads, Check(t) \/ Close(t)
        PROVE  FileTypes'
    BY <1>8 DEF Check, Close, files, TypeOK
  <1>9. CASE Unload
    BY <1>a, <1>9 DEF Unload, FlushOwner
  <1>10. CASE Exit \/ UNCHANGED vars
    BY <1>10 DEF TypeOK, Exit, vars, files
  <1> QED
    BY <1>0, <1>1, <1>2, <1>3, <1>4, <1>5, <1>6, <1>7, <1>8, <1>9, <1>10 DEF Next

\* The flags keep their types.
LEMMA NextFlagTypes ==
    ASSUME TypeOK, [Next]_vars
    PROVE  FlagTypes'
  <1>1. blamed' \in BOOLEAN
    <2>1. CASE UNCHANGED blamed
      BY <2>1 DEF TypeOK, FlagTypes
    <2>2. ASSUME NEW t \in Threads, Check(t)
          PROVE  blamed' \in BOOLEAN
      BY <2>2 DEF Check
    <2> QED
      BY <2>1, <2>2 DEF Next, vars, Open, TryAbsorb, Absorb, Take, Pass, OnClosing, FlushHandle, ClientWrite,
                        Operate, Close, Unload, Exit
  <1>2. exited' \in {exited, TRUE}
    BY DEF Next, vars, Open, TryAbsorb, Absorb, Take, Pass, OnClosing, FlushHandle, ClientWrite, Operate, Check,
           Close, Unload, Exit
  <1> QED
    BY <1>1, <1>2 DEF TypeOK, FlagTypes

------------------------------------------------------------------------------
(* The writes of a file. *)

\* An element goes to the end of the second of two sequences.
LEMMA AppendToConcat ==
    ASSUME NEW a \in Seq(Nat), NEW b \in Seq(Nat), NEW e \in Nat
    PROVE  Append(a \o b, e) = a \o Append(b, e)
  <1>1. a \o b \in Seq(Nat) /\ <<e>> \in Seq(Nat)
    OBVIOUS
  <1>2. Append(a \o b, e) = (a \o b) \o <<e>>
    BY <1>1, AppendIsConcat
  <1>3. Append(b, e) = b \o <<e>>
    BY AppendIsConcat
  <1> QED
    BY <1>1, <1>2, <1>3, ConcatAssociative

\* What is not the buffer's has all of its writes.
LEMMA OthersComplete ==
    ASSUME FileTypes, InOrder, NEW g \in Files, user[g] # None, g \notin lost \cup late,
           owner = g => held = <<>>
    PROVE  handed[g] = disk[g]
  <1>1. disk[g] \o <<>> = disk[g]
    BY ConcatEmptySeq DEF FileTypes
  <1> QED
    BY <1>1 DEF InOrder

\* After a complete flush every file has all of its writes.
LEMMA FlushCompletes ==
    ASSUME BufferTypes, FileTypes, InOrder, NEW n \in Outcomes, FlushLocked(n), Flushes(n),
           NEW g \in Files, user[g] # None, g \notin lost \cup late
    PROVE  handed[g] = disk'[g]
  <1>1. CASE g = owner
    BY <1>1, FlushEffect, BatchAssumption DEF InOrder
  <1>2. CASE g # owner
    BY <1>2, FlushEffect, OthersComplete
  <1> QED
    BY <1>1, <1>2

\* A flush that empties the buffer keeps the order, and one that falls short stands
\* the batcher down.
LEMMA FlushOrder ==
    ASSUME TypeOK, FileTypes', InOrder, NEW n \in Outcomes, FlushLocked(n),
           held' = <<>>, owner' \in {owner, None}, UNCHANGED <<scenario, user, handed, late>>,
           dead => dead', ~Flushes(n) => dead'
    PROVE  InOrder'
  <1> USE DEF TypeOK
  <1>1. ASSUME NEW g \in Files, g \notin lost' \cup late', user[g] # None
        PROVE  handed'[g] = disk'[g] \o (IF owner' = g THEN held' ELSE <<>>)
    <2>1. disk'[g] \o <<>> = disk'[g]
      BY ConcatEmptySeq DEF FileTypes
    <2>2. CASE Flushes(n)
      BY <1>1, <2>1, <2>2, FlushCompletes, FlushEffect
    <2>3. CASE ~Flushes(n)
      <3>1. g # owner /\ g \notin lost \cup late /\ disk'[g] = disk[g]
        BY <1>1, <2>3, FlushEffect
      <3> QED
        BY <1>1, <2>1, <3>1, OthersComplete
    <2> QED
      BY <2>2, <2>3
  <1>2. lost' # {} => dead'
    BY FlushEffect DEF InOrder
  <1>4. late' # {} => lost' # {} /\ \E t, u \in Threads' : t # u
    BY FlushEffect DEF InOrder, Threads
  <1>3. \A f \in Files : user[f] = None => owner' # f
    BY BatchAssumption DEF InOrder
  <1> QED
    BY <1>1, <1>2, <1>3, <1>4 DEF InOrder

\* A flush takes nothing back.
LEMMA SinceGrows ==
    ASSUME TypeOK, InOrder, NEW n \in Outcomes, FlushLocked(n), NEW g \in Files
    PROVE  since'[g] >= since[g]
  <1>1. n \in Nat /\ since[g] \in Nat
    BY FlushTypes DEF TypeOK, BufferTypes, FileTypes
  <1> QED
    BY <1>1, FlushEffect, BatchAssumption DEF TypeOK

\* A thread is in one call at a time, and a file in one thread's.
LEMMA NobodyElse ==
    ASSUME TypeOK, InCall, NEW t \in Threads, NEW f \in Files, Uses(t, f)
    PROVE  /\ user[f] = t /\ t # None /\ pc[t].at = "idle"
           /\ \A u \in Threads : pc[u].at # "idle" => pc[u].file # f /\ u # t
  <1>1. user[f] = t /\ pc[t].at = "idle"
    BY DEF Uses, Idle
  <1>2. t # None
    BY BatchAssumption DEF TypeOK, ThreadTypes, Threads
  <1> QED
    BY <1>1, <1>2 DEF InCall

\* A thread that is in a call has its file to itself.
LEMMA NobodyElseInCall ==
    ASSUME TypeOK, InCall, NEW t \in Threads, pc[t].at # "idle"
    PROVE  /\ pc[t].file \in Files /\ user[pc[t].file] = t /\ t # None
           /\ \A u \in Threads : pc[u].at # "idle" /\ u # t => pc[u].file # pc[t].file
  <1>1. pc[t].file \in Files /\ user[pc[t].file] = t
    BY DEF InCall
  <1>2. t # None
    BY BatchAssumption DEF TypeOK, ThreadTypes, Threads
  <1> QED
    BY <1>1, <1>2 DEF InCall

------------------------------------------------------------------------------
(* The steps that flush. *)

\* Where the buffer is emptied by a flush and nobody's call changes but that of a
\* thread that was idle, the accounts stay as they are.
LEMMA FlushOwnerKeeps ==
    ASSUME TypeOK, TypeOK', Accounts, NEW n \in Outcomes, FlushOwner(n),
           UNCHANGED <<scenario, owner, ownerBytes, user, handed, late, blamed, due>>,
           verify' => verify,
           exited' \/ \E w \in Threads : pc'[w].at \notin {"small", "large"},
           \A u \in Threads : pc[u].at # "idle" => pc'[u] = pc[u],
           \A u \in Threads : pc[u].at = "idle" /\ pc'[u].at # "idle" =>
              /\ pc'[u].file \in Files /\ user[pc'[u].file] = u
              /\ pc'[u].at \notin {"check", "close"}
              /\ pc'[u].file = owner /\ verify' => pc'[u].at \notin {"read", "seek"}
    PROVE  Accounts'
  <1> USE DEF TypeOK
  <1>1. FlushLocked(n) /\ held' = <<>> /\ dead' = (dead \/ ~Flushes(n)) /\ Threads' = Threads
    BY DEF FlushOwner, Threads
  <1>2. InOrder'
    BY <1>1, FlushOrder DEF Accounts
  <1>3. InCall'
    BY <1>1 DEF Accounts, InCall
  <1>4. Counted'
    <2> SUFFICES ASSUME owner # None, verify', ~dead'
                 PROVE  \/ ownerBytes <= since'[owner] + Len(held')
                        \/ /\ ownerBytes = since'[owner] + Len(held') + 1
                           /\ pc'[user[owner]].at = "write" /\ pc'[user[owner]].file = owner
      BY DEF Counted
    <2>1. n = Len(held) /\ Len(held') = 0 /\ ~dead /\ verify
      BY <1>1 DEF Flushes
    <2>2. since'[owner] = since[owner] + Len(held) /\ since[owner] \in Nat /\ Len(held) \in Nat
      BY <1>1, <2>1, FlushEffect DEF Accounts, BufferTypes, FileTypes
    <2>3. user[owner] \in Threads
      BY DEF Accounts, InOrder, BufferTypes, ThreadTypes
    <2>4. pc[user[owner]].at = "write" => pc'[user[owner]] = pc[user[owner]]
      BY <2>3
    <2> QED
      BY <2>1, <2>2, <2>4 DEF Accounts, Counted
  <1>5. DueIsThere'
    <2> SUFFICES ASSUME NEW u \in Threads, pc'[u].at = "check", due[u].verify
                 PROVE  due[u].expect <= since'[pc'[u].file]
      BY <1>1 DEF Accounts, DueIsThere
    <2>1. pc[u].at = "check" /\ pc'[u] = pc[u] /\ pc[u].file \in Files
      BY DEF Accounts, InCall
    <2>2. /\ since'[pc[u].file] >= since[pc[u].file] /\ due[u].expect <= since[pc[u].file]
          /\ since'[pc[u].file] \in Nat /\ since[pc[u].file] \in Nat /\ due[u].expect \in Nat
      BY <1>1, <2>1, SinceGrows DEF Accounts, DueIsThere, FileTypes, ThreadTypes
    <2> QED
      BY <2>1, <2>2
  <1>6. StoodDown'
    <2>1. dead' => lost' # {}
      BY <1>1, FlushEffect DEF Accounts, StoodDown
    <2> QED
      BY <1>1, <2>1 DEF StoodDown
  <1> QED
    BY <1>2, <1>3, <1>4, <1>5, <1>6 DEF Accounts

\* Where no byte moves, the accounts stay as they are.
LEMMA NoFlushKeeps ==
    ASSUME TypeOK, TypeOK', Accounts, NoFlush,
           UNCHANGED <<scenario, dead, held, owner, verify, ownerBytes, user, handed, late, blamed,
                       exited>>,
           \A u \in Threads : pc[u].at \in {"write", "check"} => pc'[u] = pc[u],
           \A u \in Threads : pc[u].at = "check" => due'[u] = due[u],
           \A u \in Threads : pc'[u] # pc[u] =>
              /\ pc'[u].file \in Files /\ user[pc'[u].file] = u /\ pc'[u].at # "check"
              /\ owner = pc'[u].file =>
                   \/ pc'[u].at \in {"small", "large"}
                   \/ pc'[u].at = "write" /\ (pc'[u].file \notin late => held = <<>>)
              /\ dead => pc'[u].at \notin {"small", "large"}
    PROVE  Accounts'
  <1> USE DEF TypeOK
  <1>1. Threads' = Threads /\ UNCHANGED <<disk, since, lost>>
    BY DEF Threads, NoFlush
  <1>2. InOrder'
    BY <1>1 DEF Accounts, InOrder
  <1>3. InCall'
    <2> SUFFICES ASSUME NEW u \in Threads, pc'[u].at # "idle"
                 PROVE  /\ pc'[u].file \in Files /\ user[pc'[u].file] = u
                        /\ owner = pc'[u].file /\ pc'[u].at \notin {"small", "large"} =>
                              /\ pc'[u].file \notin late => held = <<>>
                              /\ pc'[u].at \notin {"check", "close"}
                              /\ verify => pc'[u].at \notin {"read", "seek"}
      BY <1>1 DEF InCall
    <2>1. CASE pc'[u] = pc[u]
      BY <2>1 DEF Accounts, InCall
    <2>2. CASE pc'[u] # pc[u]
      BY <2>2
    <2> QED
      BY <2>1, <2>2
  <1>4. Counted'
    <2>1. owner # None => user[owner] \in Threads
      BY DEF Accounts, InOrder, BufferTypes, ThreadTypes
    <2> QED
      BY <1>1, <2>1 DEF Accounts, Counted
  <1>5. DueIsThere'
    BY <1>1 DEF Accounts, DueIsThere
  <1>6. StoodDown'
    <2>1. dead /\ ~exited => \A t \in Threads : pc'[t].at \in {"small", "large"}
                                => \E u \in Threads : u # t
      BY DEF Accounts, StoodDown
    <2> QED
      BY <1>1, <2>1 DEF Accounts, StoodDown
  <1> QED
    BY <1>2, <1>3, <1>4, <1>5, <1>6 DEF Accounts

\* A read, a seek or a FlushFileBuffers keeps the accounts.
LEMMA FlushHandleKeeps ==
    ASSUME TypeOK, TypeOK', Accounts, NEW t \in Threads, NEW f \in Files,
           NEW op \in {"read", "seek", "sync"}, FlushHandle(t, f, op)
    PROVE  Accounts'
  <1>1. user[f] = t /\ pc[t].at = "idle"
    BY NobodyElse DEF FlushHandle, Accounts
  <1>2. /\ pc'[t] = [at |-> op, file |-> f, id |-> 0]
        /\ \A u \in Threads : u # t => pc'[u] = pc[u]
    BY DEF FlushHandle, Go, TypeOK, ThreadTypes
  <1>3. UNCHANGED <<scenario, owner, ownerBytes, user, due, handed, late, blamed, exited>>
    BY DEF FlushHandle
  <1>4. CASE owner = f
    <2>1. PICK n \in Outcomes : FlushOwner(n) /\ verify' = Verified(op)
      BY <1>4 DEF FlushHandle
    <2>2. verify' => verify /\ op = "sync"
      BY <2>1 DEF Verified
    <2> QED
      BY <1>1, <1>2, <1>3, <2>1, <2>2, FlushOwnerKeeps
  <1>5. CASE owner # f
    <2>1. NoFlush /\ UNCHANGED <<dead, held, verify>>
      BY <1>5 DEF FlushHandle
    <2> QED
      BY <1>1, <1>2, <1>3, <1>5, <2>1, NoFlushKeeps
  <1> QED
    BY <1>4, <1>5

\* So does the last flush.
LEMMA UnloadKeeps ==
    ASSUME TypeOK, TypeOK', Accounts, Unload
    PROVE  Accounts'
  BY FlushOwnerKeeps DEF Unload

\* OnClosing takes along no more than is in the file.
LEMMA OnClosingKeeps ==
    ASSUME TypeOK, TypeOK', Accounts, NEW t \in Threads, NEW f \in Files, OnClosing(t, f)
    PROVE  Accounts'
  <1> USE DEF TypeOK
  <1>1. /\ user[f] = t /\ pc[t].at = "idle"
        /\ \A u \in Threads : pc[u].at # "idle" => pc[u].file # f /\ u # t
    BY NobodyElse DEF OnClosing, Accounts
  <1>2. UNCHANGED <<scenario, user, handed, late, blamed, exited>> /\ Threads' = Threads
    BY DEF OnClosing, Threads
  <1>3. CASE owner # f
    <2>1. NoFlush /\ Go(t, "close", f) /\ UNCHANGED <<dead, held, owner, verify, ownerBytes, due>>
      BY <1>3 DEF OnClosing
    <2>2. /\ pc'[t] = [at |-> "close", file |-> f, id |-> 0]
          /\ \A u \in Threads : u # t => pc'[u] = pc[u]
      BY <2>1 DEF Go, ThreadTypes
    <2> QED
      BY <1>1, <1>2, <1>3, <2>1, <2>2, NoFlushKeeps
  <1>4. CASE owner = f
    <2>1. PICK n \in Outcomes : ReleaseOwned(t, n) /\ Go(t, "check", f)
      BY <1>4 DEF OnClosing
    <2>2. /\ FlushLocked(n) /\ held' = <<>> /\ dead' = (dead \/ ~Flushes(n))
          /\ owner' = None
      BY <2>1 DEF ReleaseOwned, FlushOwner, DropOwner
    <2>3. /\ pc'[t] = [at |-> "check", file |-> f, id |-> 0]
          /\ \A u \in Threads : u # t => pc'[u] = pc[u] /\ due'[u] = due[u]
      BY <2>1 DEF Go, ReleaseOwned, ThreadTypes
    <2>b. due'[t] = [expect |-> ownerBytes, verify |-> verify /\ ~dead']
      BY <2>1 DEF ReleaseOwned, ThreadTypes
    <2>4. InOrder'
      BY <1>2, <2>2, FlushOrder DEF Accounts
    <2>5. InCall'
      BY <1>1, <1>2, <2>2, <2>3, BatchAssumption DEF Accounts, InCall
    <2>6. Counted' /\ StoodDown'
      <3>1. dead' => lost' # {}
        BY <2>2, FlushEffect DEF Accounts, StoodDown
      <3>2. \A u \in Threads : pc'[u].at \in {"small", "large"} => t # u
        BY <2>3
      <3> QED
        BY <1>2, <2>2, <3>1, <3>2 DEF Counted, StoodDown
    <2>7. ASSUME verify, ~dead'
          PROVE  ownerBytes <= since'[f]
      <3>1. n = Len(held) /\ ~dead
        BY <2>2, <2>7 DEF Flushes
      <3>2. ownerBytes <= since[f] + Len(held)
        BY <1>1, <1>4, <2>7, <3>1, BatchAssumption DEF Accounts, Counted
      <3>3. since'[f] = since[f] + n
        BY <1>4, <2>2, FlushEffect, BatchAssumption DEF Accounts
      <3> QED
        BY <3>1, <3>2, <3>3
    <2>8. ASSUME NEW u \in Threads, u # t, pc[u].at = "check", due[u].verify
          PROVE  due[u].expect <= since'[pc[u].file]
      <3>1. pc[u].file \in Files /\ pc[u].file # owner
        BY <2>8 DEF Accounts, InCall
      <3> QED
        BY <2>2, <2>8, <3>1, FlushEffect DEF Accounts, DueIsThere
    <2>9. DueIsThere'
      <3> SUFFICES ASSUME NEW u \in Threads, pc'[u].at = "check", due'[u].verify
                   PROVE  due'[u].expect <= since'[pc'[u].file]
        BY <1>2 DEF Accounts, DueIsThere
      <3>1. CASE u = t
        <4>1. due'[t].expect = ownerBytes /\ pc'[t].file = f
          BY <2>3, <2>b
        <4> DEFINE b == verify /\ ~dead'
        <4>2. due'[t].verify = b
          <5>1. due'[t] = [expect |-> ownerBytes, verify |-> b]
            BY <2>b
          <5> HIDE DEF b
          <5> QED
            BY <5>1
        <4> QED
          BY <2>7, <3>1, <4>1, <4>2
      <3>2. CASE u # t
        BY <2>3, <2>8, <3>2
      <3> QED
        BY <3>1, <3>2
    <2> QED
      BY <2>4, <2>5, <2>6, <2>9 DEF Accounts
  <1> QED
    BY <1>3, <1>4

\* The look at g_dead leaves the accounts as they are.
LEMMA TryAbsorbKeeps ==
    ASSUME TypeOK, TypeOK', Accounts, NEW t \in Threads, NEW f \in Files, TryAbsorb(t, f)
    PROVE  Accounts'
  <1> USE DEF TypeOK
  <1>1. user[f] = t /\ pc[t].at = "idle"
    BY NobodyElse DEF TryAbsorb, Accounts
  <1>2. PICK at \in IF dead THEN {"write"} ELSE {"small", "large"} :
          pc' = [pc EXCEPT ![t] = [at |-> at, file |-> f, id |-> writes']]
    BY DEF TryAbsorb, GoWrite
  <1>3. /\ pc'[t].at = at /\ pc'[t].file = f
        /\ \A u \in Threads : u # t => pc'[u] = pc[u]
    BY <1>2 DEF ThreadTypes
  <1>4. /\ UNCHANGED <<scenario, dead, held, owner, verify, ownerBytes, user, due, handed, late,
                       blamed, exited>>
        /\ NoFlush
    BY DEF TryAbsorb, batch, files, NoFlush
  <1>5. dead /\ owner = f /\ f \notin late => held = <<>>
    BY DEF Accounts, StoodDown
  <1>6. dead <=> at \notin {"small", "large"}
    BY <1>2
  <1>7. at # "check" /\ (dead => at = "write")
    BY <1>2
  <1> QED
    BY <1>1, <1>3, <1>4, <1>5, <1>6, <1>7, NoFlushKeeps

\* A large write is counted before it is there.
LEMMA PassKeeps ==
    ASSUME TypeOK, TypeOK', Accounts, NEW t \in Threads, Pass(t)
    PROVE  Accounts'
  <1> USE DEF TypeOK
  <1> DEFINE f == pc[t].file
  <1>1. /\ pc[t].at = "large" /\ ~exited /\ f \in Files /\ user[f] = t
        /\ \A u \in Threads : pc[u].at # "idle" /\ u # t => pc[u].file # f
    BY NobodyElseInCall DEF Pass, At, Accounts
  <1>2. /\ UNCHANGED <<scenario, owner, verify, user, due, handed, late, blamed, exited>>
        /\ Threads' = Threads
    BY DEF Pass, Threads
  <1>3. /\ pc'[t].at = "write" /\ pc'[t].file = f
        /\ \A u \in Threads : u # t => pc'[u] = pc[u]
    BY DEF Pass, GoWrite, ThreadTypes
  <1>c. owner # f => NoFlush /\ UNCHANGED <<dead, held, ownerBytes>>
    BY DEF Pass
  <1>d. owner = f => \E n \in Outcomes : PassFlush(n)
    BY DEF Pass
  <1> HIDE DEF f
  <1>4. CASE owner # f
    BY <1>1, <1>2, <1>3, <1>4, <1>c, NoFlushKeeps
  <1>5. CASE owner = f
    <2>1. PICK n \in Outcomes : PassFlush(n)
      BY <1>5, <1>d
    <2>2. /\ FlushLocked(n) /\ held' = <<>> /\ dead' = (dead \/ ~Flushes(n))
          /\ ownerBytes' = ownerBytes + 1
      BY <2>1 DEF PassFlush
    <2>3. InOrder'
      BY <1>2, <1>5, <2>2, FlushOrder DEF Accounts
    <2>4. InCall'
      BY <1>1, <1>2, <1>3, <2>2 DEF Accounts, InCall
    <2>5. ASSUME verify, ~dead'
          PROVE  ownerBytes' \in {since'[f], since'[f] + 1} \/ ownerBytes' <= since'[f]
      <3>b. n = Len(held)
        <4>1. Flushes(n)
          BY <2>2, <2>5
        <4> QED
          BY <4>1 DEF Flushes
      <3>1. n = Len(held) /\ since[f] \in Nat /\ Len(held) \in Nat
        BY <1>1, <3>b DEF FileTypes, BufferTypes
      <3>a. since'[f] = since[f] + n
        BY <1>1, <1>5, <2>2, FlushEffect, BatchAssumption DEF Accounts
      <3>2. ownerBytes <= since[f] + Len(held) /\ ownerBytes \in Nat
        BY <1>1, <1>5, <2>2, <2>5, BatchAssumption DEF Accounts, Counted, BufferTypes
      <3> QED
        BY <2>2, <3>a, <3>1, <3>2
    <2>6. Counted'
      <3>1. Len(held') = 0 /\ since'[f] \in Nat /\ ownerBytes' \in Nat
        BY <1>1, <2>2 DEF FileTypes, BufferTypes
      <3> QED
        BY <1>1, <1>2, <1>3, <1>5, <2>5, <3>1 DEF Counted
    <2>7. ASSUME NEW u \in Threads, pc[u].at = "check", due[u].verify
          PROVE  due[u].expect <= since'[pc[u].file]
      <3>1. pc[u].file \in Files /\ pc[u].file # owner
        BY <2>7 DEF Accounts, InCall
      <3> QED
        BY <2>2, <2>7, <3>1, FlushEffect DEF Accounts, DueIsThere
    <2>8. DueIsThere'
      BY <1>2, <1>3, <2>7 DEF Accounts, DueIsThere
    <2>9. StoodDown'
      <3>1. dead' => lost' # {}
        BY <2>2, FlushEffect DEF Accounts, StoodDown
      <3>2. \A u \in Threads : pc'[u].at \in {"small", "large"} => t # u
        BY <1>3
      <3> QED
        BY <1>2, <2>2, <3>1, <3>2 DEF StoodDown
    <2> QED
      BY <2>3, <2>4, <2>6, <2>8, <2>9 DEF Accounts
  <1> QED
    BY <1>4, <1>5

------------------------------------------------------------------------------
(* The steps that do not. *)

\* A write of the client's own goes to a file nothing is held for.
LEMMA ClientWriteKeeps ==
    ASSUME TypeOK, TypeOK', Accounts, Clean, NEW t \in Threads, ClientWrite(t)
    PROVE  Accounts'
  <1> USE DEF TypeOK
  <1> DEFINE f == pc[t].file
  <1>1. /\ f \in Files /\ user[f] = t /\ (owner = f /\ f \notin late => held = <<>>) /\ t # None
        /\ \A u \in Threads \ {t} : pc[u].at # "idle" => pc[u].file # f
    BY BatchAssumption DEF ClientWrite, At, Accounts, InCall, ThreadTypes, Threads
  <1>2. /\ UNCHANGED <<scenario, batch, user, due, writes, lost, late, blamed, exited>>
        /\ Threads' = Threads
    BY DEF ClientWrite, Threads
  <1>3. pc'[t].at = "idle" /\ \A u \in Threads : u # t => pc'[u] = pc[u]
    BY DEF ClientWrite, ThreadTypes, Idle
  <1>4. /\ handed' = [handed EXCEPT ![f] = Append(@, pc[t].id)]
        /\ disk' = [disk EXCEPT ![f] = Append(@, pc[t].id)]
        /\ since' = [since EXCEPT ![f] = @ + 1]
    BY DEF ClientWrite, Clean
  <1> HIDE DEF f
  <1>5. InOrder'
    <2>1. ASSUME NEW g \in Files, g \notin lost \cup late, user[g] # None
          PROVE  handed'[g] = disk'[g] \o (IF owner = g THEN held ELSE <<>>)
      <3>1. CASE g = f
        <4>1. handed[f] = disk[f]
          BY <1>1, <2>1, <3>1, OthersComplete DEF Accounts
        <4>2. handed'[f] = disk'[f] /\ disk'[f] \o <<>> = disk'[f]
          BY <1>1, <1>4, <4>1, ConcatEmptySeq DEF FileTypes
        <4> QED
          BY <1>1, <2>1, <3>1, <4>2
      <3>2. CASE g # f
        <4>1. handed'[g] = handed[g] /\ disk'[g] = disk[g]
          BY <1>4, <3>2 DEF FileTypes
        <4> QED
          BY <2>1, <4>1 DEF Accounts, InOrder
      <3> QED
        BY <3>1, <3>2
    <2> QED
      BY <1>2, <2>1 DEF Accounts, InOrder, batch
  <1>6. InCall'
    BY <1>2, <1>3 DEF Accounts, InCall, batch
  <1>7. \A g \in Files : since'[g] = IF g = f THEN since[g] + 1 ELSE since[g]
    BY <1>4 DEF FileTypes
  <1>8. Counted'
    <2> SUFFICES ASSUME owner # None, verify, ~dead
                 PROVE  \/ ownerBytes <= since'[owner] + Len(held)
                        \/ /\ ownerBytes = since'[owner] + Len(held) + 1
                           /\ pc'[user[owner]].at = "write" /\ pc'[user[owner]].file = owner
      BY <1>2 DEF Counted, batch
    <2>1. owner \in Files /\ user[owner] \in Threads /\ since[owner] \in Nat /\ Len(held) \in Nat
      BY DEF Accounts, InOrder, BufferTypes, FileTypes, ThreadTypes
    <2>2. \/ ownerBytes <= since[owner] + Len(held)
          \/ /\ ownerBytes = since[owner] + Len(held) + 1
             /\ pc[user[owner]].at = "write" /\ pc[user[owner]].file = owner
      BY DEF Accounts, Counted
    <2>3. CASE owner = f
      <3>1. since'[owner] = since[owner] + 1 /\ ownerBytes \in Nat
        BY <1>7, <2>1, <2>3 DEF BufferTypes
      <3> QED
        BY <2>1, <2>2, <3>1
    <2>4. CASE owner # f
      <3>1. since'[owner] = since[owner]
        BY <1>7, <2>1, <2>4
      <3>2. pc[user[owner]].file = owner => pc'[user[owner]] = pc[user[owner]]
        BY <1>3, <2>1, <2>4 DEF f
      <3> QED
        BY <2>2, <3>1, <3>2
    <2> QED
      BY <2>3, <2>4
  <1>9. DueIsThere'
    <2> SUFFICES ASSUME NEW u \in Threads, pc'[u].at = "check", due[u].verify
                 PROVE  due[u].expect <= since'[pc'[u].file]
      BY <1>2 DEF Accounts, DueIsThere
    <2>1. u # t /\ pc'[u] = pc[u] /\ pc[u].file \in Files /\ pc[u].file # f
      BY <1>1, <1>3 DEF Accounts, InCall
    <2> QED
      BY <1>7, <2>1 DEF Accounts, DueIsThere
  <1>10. StoodDown'
    BY <1>2, <1>3 DEF Accounts, StoodDown, batch
  <1> QED
    BY <1>5, <1>6, <1>8, <1>9, <1>10 DEF Accounts

\* Nothing of the buffer or of another thread is touched.
LEMMA OperateKeeps ==
    ASSUME TypeOK, TypeOK', Accounts, NEW t \in Threads, Operate(t)
    PROVE  Accounts'
  <1> USE DEF TypeOK
  <1> DEFINE f == pc[t].file
  <1>1. /\ f \in Files /\ user[f] = t
        /\ owner = f /\ verify => pc[t].at = "sync"
        /\ \A u \in Threads \ {t} : pc[u].at # "idle" => pc[u].file # f
    BY DEF Operate, At, Accounts, InCall, ThreadTypes
  <1>2. /\ UNCHANGED <<scenario, batch, user, due, writes, handed, disk, lost, late, blamed,
                       exited>>
        /\ Threads' = Threads
    BY DEF Operate, Threads
  <1>3. pc'[t].at = "idle" /\ \A u \in Threads : u # t => pc'[u] = pc[u]
    BY DEF Operate, ThreadTypes, Idle
  <1>4. /\ \A g \in Files : g # f => since'[g] = since[g]
        /\ pc[t].at = "sync" => since' = since
    BY DEF Operate, FileTypes
  <1>5. InOrder' /\ InCall' /\ StoodDown'
    BY <1>2, <1>3 DEF Accounts, InOrder, InCall, StoodDown, batch
  <1>6. Counted'
    <2> SUFFICES ASSUME owner # None, verify, ~dead
                 PROVE  \/ ownerBytes <= since'[owner] + Len(held)
                        \/ /\ ownerBytes = since'[owner] + Len(held) + 1
                           /\ pc'[user[owner]].at = "write" /\ pc'[user[owner]].file = owner
      BY <1>2 DEF Counted, batch
    <2>1. owner \in Files /\ user[owner] \in Threads
      BY DEF Accounts, InOrder, BufferTypes, ThreadTypes
    <2>2. since'[owner] = since[owner]
      BY <1>1, <1>4, <2>1
    <2>3. pc[user[owner]].at = "write" => pc'[user[owner]] = pc[user[owner]]
      BY <1>3, <2>1 DEF Operate, At
    <2> QED
      BY <2>2, <2>3 DEF Accounts, Counted
  <1>7. DueIsThere'
    <2> SUFFICES ASSUME NEW u \in Threads, pc'[u].at = "check", due[u].verify
                 PROVE  due[u].expect <= since'[pc'[u].file]
      BY <1>2 DEF Accounts, DueIsThere
    <2>1. u # t /\ pc'[u] = pc[u] /\ pc[u].file \in Files /\ pc[u].file # f
      BY <1>1, <1>3 DEF Accounts, InCall
    <2> QED
      BY <1>4, <2>1 DEF Accounts, DueIsThere
  <1> QED
    BY <1>5, <1>6, <1>7 DEF Accounts

\* The size check finds what was taken along.
LEMMA CheckKeeps ==
    ASSUME TypeOK, TypeOK', Accounts, NEW t \in Threads, Check(t)
    PROVE  Accounts'
  <1> USE DEF TypeOK
  <1>1. /\ pc[t].at = "check" /\ pc[t].file \in Files /\ user[pc[t].file] = t
        /\ owner # pc[t].file
    BY DEF Check, At, Accounts, InCall
  <1>2. /\ UNCHANGED <<scenario, owner, verify, ownerBytes, held, user, writes, files, lost, late,
                       exited>>
        /\ Threads' = Threads
    BY DEF Check, Threads
  <1>3. /\ pc'[t] = [at |-> "close", file |-> pc[t].file, id |-> 0]
        /\ \A u \in Threads : u # t => pc'[u] = pc[u] /\ due'[u] = due[u]
    BY DEF Check, Go, ThreadTypes
  <1>4. dead' = dead /\ ~blamed'
    <2> DEFINE s == since[pc[t].file]
               missing(size) == due[t].verify /\ size < due[t].expect
    <2>1. PICK size \in {s, s + 1} :
            dead' = (dead \/ missing(size)) /\ blamed' = (blamed \/ missing(size))
      BY DEF Check
    <2>2. s \in Nat /\ due[t].expect \in Nat /\ (due[t].verify => due[t].expect <= s)
      BY <1>1 DEF Accounts, DueIsThere, FileTypes, ThreadTypes
    <2> HIDE DEF s
    <2>3. ~missing(size)
      BY <2>2
    <2>4. ~blamed /\ dead \in BOOLEAN
      BY DEF Accounts, DueIsThere, BufferTypes
    <2> HIDE DEF missing
    <2> QED
      BY <2>1, <2>3, <2>4, Zenon
  <1>5. InOrder' /\ StoodDown'
    <2>1. InOrder'
      BY <1>2, <1>4 DEF Accounts, InOrder, files
    <2>2. \A u \in Threads : pc'[u].at \in {"small", "large"} => pc'[u] = pc[u]
      BY <1>3
    <2> QED
      BY <1>2, <1>4, <2>1, <2>2 DEF Accounts, StoodDown
  <1>6. InCall'
    BY <1>1, <1>2, <1>3 DEF Accounts, InCall
  <1>7. Counted'
    <2>1. owner # None => user[owner] \in Threads
      BY DEF Accounts, InOrder, BufferTypes, ThreadTypes
    <2> QED
      BY <1>1, <1>2, <1>3, <1>4, <2>1 DEF Accounts, Counted, files
  <1>8. DueIsThere'
    <2> SUFFICES ASSUME NEW u \in Threads, pc'[u].at = "check", due'[u].verify
                 PROVE  due'[u].expect <= since'[pc'[u].file]
      BY <1>2, <1>4 DEF Accounts, DueIsThere
    <2> QED
      BY <1>2, <1>3 DEF Accounts, DueIsThere, files
  <1> QED
    BY <1>5, <1>6, <1>7, <1>8 DEF Accounts

\* A file is closed once it is no longer the buffer's.
LEMMA CloseKeeps ==
    ASSUME TypeOK, TypeOK', Accounts, NEW t \in Threads, Close(t)
    PROVE  Accounts'
  <1> USE DEF TypeOK
  <1> DEFINE f == pc[t].file
  <1>1. /\ f \in Files /\ user[f] = t /\ owner # f
        /\ \A u \in Threads \ {t} : pc[u].at # "idle" => pc[u].file # f
    BY DEF Close, At, Accounts, InCall, ThreadTypes
  <1>2. /\ UNCHANGED <<scenario, batch, due, writes, files, lost, late, blamed, exited>>
        /\ Threads' = Threads
    BY DEF Close, Threads
  <1>3. /\ pc'[t].at = "idle" /\ \A u \in Threads : u # t => pc'[u] = pc[u]
        /\ user'[f] = None /\ \A g \in Files : g # f => user'[g] = user[g]
    BY <1>1 DEF Close, ThreadTypes, Idle
  <1> HIDE DEF f
  <1>4. InOrder' /\ StoodDown'
    BY <1>1, <1>2, <1>3 DEF Accounts, InOrder, StoodDown, batch, files
  <1>5. InCall'
    BY <1>1, <1>2, <1>3 DEF Accounts, InCall, batch
  <1>6. Counted'
    <2> SUFFICES ASSUME owner # None, verify, ~dead
                 PROVE  \/ ownerBytes <= since[owner] + Len(held)
                        \/ /\ ownerBytes = since[owner] + Len(held) + 1
                           /\ pc'[user'[owner]].at = "write" /\ pc'[user'[owner]].file = owner
      BY <1>2 DEF Counted, batch, files
    <2>1. owner \in Files /\ user[owner] \in Threads /\ user'[owner] = user[owner]
      BY <1>1, <1>3 DEF Accounts, InOrder, BufferTypes, ThreadTypes
    <2>2. pc[user[owner]].at = "write" => pc'[user[owner]] = pc[user[owner]]
      BY <1>3, <2>1 DEF Close, At
    <2> QED
      BY <2>1, <2>2 DEF Accounts, Counted
  <1>7. DueIsThere'
    BY <1>2, <1>3 DEF Accounts, DueIsThere, files
  <1> QED
    BY <1>4, <1>5, <1>6, <1>7 DEF Accounts

\* A file that was closed is opened empty.
LEMMA OpenKeeps ==
    ASSUME TypeOK, TypeOK', Accounts, NEW t \in Threads, NEW f \in Files, Open(t, f)
    PROVE  Accounts'
  <1> USE DEF TypeOK
  <1>1. /\ owner # f /\ user[f] = None
        /\ \A u \in Threads : pc[u].at # "idle" => pc[u].file # f
    BY BatchAssumption DEF Open, Accounts, InCall, InOrder, ThreadTypes, Threads
  <1>2. /\ UNCHANGED <<scenario, batch, pc, due, writes, lost, blamed, exited>> /\ late' = late \ {f}
        /\ Threads' = Threads
    BY DEF Open, Threads
  <1>3. /\ user'[f] = t /\ handed'[f] = <<>> /\ disk'[f] = <<>>
        /\ \A g \in Files : g # f => /\ user'[g] = user[g] /\ handed'[g] = handed[g]
                                     /\ disk'[g] = disk[g] /\ since'[g] = since[g]
    BY DEF Open, ThreadTypes, FileTypes
  <1>4. t # None
    BY BatchAssumption DEF ThreadTypes, Threads
  <1>5. InOrder' /\ StoodDown'
    <2>1. handed'[f] = disk'[f] \o <<>>
      BY <1>3, ConcatEmptySeq DEF FileTypes
    <2> QED
      BY <1>1, <1>2, <1>3, <1>4, <2>1 DEF Accounts, InOrder, StoodDown, batch
  <1>6. InCall'
    BY <1>1, <1>2, <1>3 DEF Accounts, InCall, batch
  <1>7. Counted'
    <2>1. owner # None => user'[owner] = user[owner] /\ since'[owner] = since[owner]
      BY <1>1, <1>3 DEF BufferTypes
    <2> QED
      BY <1>2, <2>1 DEF Accounts, Counted, batch
  <1>8. DueIsThere'
    <2>1. \A u \in Threads : pc[u].at = "check" => since'[pc[u].file] = since[pc[u].file]
      BY <1>1, <1>3 DEF Accounts, InCall
    <2> QED
      BY <1>2, <2>1 DEF Accounts, DueIsThere
  <1> QED
    BY <1>5, <1>6, <1>7, <1>8 DEF Accounts

------------------------------------------------------------------------------
(* A small write. *)

\* The thread of a write that is to be absorbed.  If the batcher has died since the
\* look at g_dead, another thread's flush fell short.
LEMMA Absorber ==
    ASSUME TypeOK, Accounts, NEW t \in Threads, pc[t].at = "small", ~exited
    PROVE  /\ pc[t].file \in Files /\ user[pc[t].file] = t /\ t # None
           /\ \A u \in Threads : pc[u].at # "idle" /\ u # t => pc[u].file # pc[t].file
           /\ dead => lost # {} /\ \E u \in Threads : u # t
           /\ pc[t].id \in Nat
  <1>1. pc[t].id \in Nat
    BY InFile DEF TypeOK
  <1> QED
    BY <1>1, NobodyElseInCall DEF Accounts, StoodDown

\* The write of a thread is taken.
Taken(t, f) ==
    /\ handed' = [handed EXCEPT ![f] = Append(@, pc[t].id)]
    /\ late' = IF dead THEN late \cup {f} ELSE late
    /\ pc'[t].at = "idle" /\ \A u \in Threads : u # t => pc'[u] = pc[u]
    /\ dead' = dead

\* The three ways of a small write: the buffer takes it, it is flushed first, and the
\* flush falls short.
LEMMA AbsorbWays ==
    ASSUME TypeOK, NEW t \in Threads, Absorb(t)
    PROVE  \/ /\ owner = pc[t].file /\ Taken(t, pc[t].file)
              /\ held' = Append(held, pc[t].id) /\ ownerBytes' = ownerBytes + 1
              /\ NoFlush
              /\ UNCHANGED <<owner, verify>>
           \/ \E n \in Outcomes :
                /\ FlushLocked(n) /\ Flushes(n) /\ Taken(t, pc[t].file)
                /\ held' = <<pc[t].id>> /\ owner' = pc[t].file
                /\ verify' = (owner = pc[t].file => verify)
                /\ ownerBytes' = (IF owner = pc[t].file THEN ownerBytes ELSE 0) + 1
           \/ \E n \in Outcomes :
                /\ FlushLocked(n) /\ ~Flushes(n)
                /\ dead' = TRUE /\ held' = <<>>
                /\ GoWrite(t, "write", pc[t].file, pc[t].id)
                /\ UNCHANGED <<owner, verify, ownerBytes, handed, late>>
  <1>1. Take(t) => Taken(t, pc[t].file)
    BY DEF Take, Taken, TypeOK, ThreadTypes, Idle
  <1> QED
    BY <1>1 DEF Absorb

\* What is out of order is late, and late writes are another thread's doing.
LEMMA TakenLate ==
    ASSUME TypeOK, Accounts, NEW t \in Threads, NEW f \in Files, pc[t].at = "small", ~exited,
           lost' = lost, Threads' = Threads, Taken(t, f)
    PROVE  /\ late' # {} => lost' # {} /\ \E a, b \in Threads' : a # b
           /\ dead => f \in late'
           /\ late \subseteq late'
           /\ dead' = dead
           /\ dead' => lost' # {}
           /\ dead' => \A u \in Threads : pc'[u].at \in {"small", "large"} => \E w \in Threads : w # u
  <1>1. dead => lost # {} /\ \E u \in Threads : u # t
    BY DEF Accounts, StoodDown
  <1>2. late # {} => lost # {} /\ \E a, b \in Threads : a # b
    BY DEF Accounts, InOrder
  <1>3. dead => \A u \in Threads : pc[u].at \in {"small", "large"} => \E w \in Threads : w # u
    BY DEF Accounts, StoodDown
  <1>4. \A u \in Threads : pc'[u].at \in {"small", "large"} => pc'[u] = pc[u]
    BY DEF Taken
  <1> QED
    BY <1>1, <1>2, <1>3, <1>4 DEF Taken

\* The buffer takes it.
LEMMA TakenKeeps ==
    ASSUME TypeOK, TypeOK', Accounts, NEW t \in Threads, NEW f \in Files, f = pc[t].file, Absorb(t),
           Taken(t, f), owner = f,
           held' = Append(held, pc[t].id), ownerBytes' = ownerBytes + 1,
           NoFlush,
           UNCHANGED <<owner, verify>>
    PROVE  Accounts'
  <1> USE DEF TypeOK
  <1>1. /\ user[f] = t /\ t # None /\ pc[t].at = "small" /\ ~exited /\ pc[t].id \in Nat
        /\ \A u \in Threads : pc[u].at # "idle" /\ u # t => pc[u].file # f
    BY Absorber DEF Absorb, At
  <1>2. /\ UNCHANGED <<scenario, user, due, blamed, disk, since, lost, exited>>
        /\ Threads' = Threads
    BY DEF Absorb, Threads, NoFlush
  <1>3. /\ handed' = [handed EXCEPT ![f] = Append(@, pc[t].id)]
        /\ pc'[t].at = "idle" /\ \A u \in Threads : u # t => pc'[u] = pc[u]
    BY DEF Taken
  <1>4. InOrder'
    <2>1. ASSUME f \notin lost \cup late'
          PROVE  handed'[f] = disk[f] \o held'
      <3>1. handed[f] = disk[f] \o held
        BY <1>1, <1>2, <2>1, TakenLate DEF Accounts, InOrder
      <3>2. handed'[f] = Append(handed[f], pc[t].id)
        BY <1>3 DEF FileTypes
      <3>3. disk[f] \in Seq(Nat) /\ held \in Seq(Nat)
        BY DEF FileTypes, BufferTypes
      <3>4. Append(disk[f] \o held, pc[t].id) = disk[f] \o Append(held, pc[t].id)
        BY <1>1, <3>3, AppendToConcat
      <3> QED
        BY <3>1, <3>2, <3>4
    <2>2. \A g \in Files : g # f => handed'[g] = handed[g]
      BY <1>3 DEF FileTypes
    <2>3. ASSUME NEW g \in Files, g \notin lost \cup late', user[g] # None
          PROVE  handed'[g] = disk[g] \o (IF owner = g THEN held' ELSE <<>>)
      <3>1. CASE g = f
        BY <2>1, <2>3, <3>1
      <3>2. CASE g # f
        BY <1>1, <1>2, <2>2, <2>3, <3>2, TakenLate DEF Accounts, InOrder
      <3> QED
        BY <3>1, <3>2
    <2>4. owner # None
      BY BatchAssumption
    <2>5. (late' # {} => lost' # {} /\ \E a, b \in Threads' : a # b) /\ dead' = dead
      BY <1>1, <1>2, TakenLate
    <2> QED
      BY <1>2, <2>3, <2>4, <2>5 DEF Accounts, InOrder
  <1>5. InCall'
    BY <1>1, <1>2, <1>3 DEF Accounts, InCall
  <1>6. DueIsThere'
    BY <1>2, <1>3 DEF Accounts, DueIsThere
  <1>7. StoodDown'
    BY <1>1, <1>2, TakenLate DEF StoodDown
  <1>8. Counted'
    <2>1. /\ Len(held') = Len(held) + 1 /\ Len(held) \in Nat /\ since[f] \in Nat
          /\ ownerBytes \in Nat
      BY <1>1 DEF BufferTypes, FileTypes
    <2>2. verify /\ ~dead => ownerBytes <= since[f] + Len(held)
      BY <1>1, BatchAssumption DEF Accounts, Counted
    <2>3. dead' = dead
      BY DEF Taken
    <2> QED
      BY <1>2, <2>1, <2>2, <2>3 DEF Counted
  <1> QED
    BY <1>4, <1>5, <1>6, <1>7, <1>8 DEF Accounts

\* The buffer is flushed and takes it.
LEMMA FlushedAndTakenKeeps ==
    ASSUME TypeOK, TypeOK', Accounts, NEW t \in Threads, NEW f \in Files, f = pc[t].file, Absorb(t),
           Taken(t, f),
           NEW n \in Outcomes, FlushLocked(n), Flushes(n),
           held' = <<pc[t].id>>, owner' = f,
           verify' = (owner = f => verify),
           ownerBytes' = (IF owner = f THEN ownerBytes ELSE 0) + 1
    PROVE  Accounts'
  <1> USE DEF TypeOK
  <1>1. /\ user[f] = t /\ t # None /\ pc[t].at = "small" /\ ~exited /\ pc[t].id \in Nat
        /\ \A u \in Threads : pc[u].at # "idle" /\ u # t => pc[u].file # f
    BY Absorber DEF Absorb, At
  <1>2. /\ UNCHANGED <<scenario, user, due, blamed, exited>> /\ Threads' = Threads
    BY DEF Absorb, Threads
  <1>3. /\ handed' = [handed EXCEPT ![f] = Append(@, pc[t].id)]
        /\ pc'[t].at = "idle" /\ \A u \in Threads : u # t => pc'[u] = pc[u]
        /\ dead' = dead
    BY DEF Taken
  <1>4. lost' = lost
    BY FlushEffect DEF Accounts
  <1>5. InOrder'
    <2>1. ASSUME NEW g \in Files, user[g] # None, g \notin lost \cup late
          PROVE  handed[g] = disk'[g] /\ disk'[g] \in Seq(Nat)
      BY <2>1, FlushCompletes DEF Accounts, FileTypes
    <2>2. f \notin lost \cup late => handed'[f] = disk'[f] \o held'
      <3>1. f \notin lost \cup late => handed'[f] = Append(disk'[f], pc[t].id)
        BY <1>1, <1>3, <2>1 DEF FileTypes
      <3> QED
        BY <1>1, <1>2, <2>1, <3>1, AppendIsConcat
    <2>3. ASSUME NEW g \in Files, g # f, user[g] # None, g \notin lost \cup late
          PROVE  handed'[g] = disk'[g] \o <<>>
      <3>1. handed'[g] = handed[g]
        BY <1>3, <2>3 DEF FileTypes
      <3> QED
        BY <2>1, <2>3, <3>1, ConcatEmptySeq
    <2>4. owner' # None /\ user[f] # None
      BY <1>1, BatchAssumption
    <2>5. /\ late' # {} => lost' # {} /\ \E a, b \in Threads' : a # b
          /\ late \subseteq late'
      BY <1>1, <1>2, <1>4, TakenLate
    <2>6. lost' # {} => dead'
      BY <1>3, <1>4 DEF Accounts, InOrder
    <2>7. ASSUME NEW g \in Files, g \notin lost' \cup late', user'[g] # None
          PROVE  handed'[g] = disk'[g] \o (IF owner' = g THEN held' ELSE <<>>)
      BY <1>2, <1>4, <2>2, <2>3, <2>5, <2>7
    <2> QED
      BY <1>2, <2>4, <2>5, <2>6, <2>7 DEF InOrder
  <1>6. InCall'
    BY <1>1, <1>2, <1>3 DEF Accounts, InCall
  <1>7. StoodDown'
    BY <1>1, <1>2, <1>4, TakenLate DEF StoodDown
  <1>8. Counted'
    <2> SUFFICES ASSUME verify', ~dead'
                 PROVE  ownerBytes' <= since'[f] + Len(held')
      BY DEF Counted
    <2>1. /\ Len(held') = 1 /\ Len(held) \in Nat /\ since[f] \in Nat /\ since'[f] \in Nat
          /\ ownerBytes \in Nat
      BY DEF BufferTypes, FileTypes
    <2>2. CASE owner = f
      <3>1. ownerBytes <= since[f] + Len(held)
        BY <1>1, <1>3, <2>2, BatchAssumption DEF Accounts, Counted
      <3>2. since'[f] = since[f] + Len(held)
        BY <2>2, FlushEffect, BatchAssumption DEF Accounts, Flushes
      <3> QED
        BY <2>1, <2>2, <3>1, <3>2
    <2>3. CASE owner # f
      BY <2>1, <2>3
    <2> QED
      BY <2>2, <2>3
  <1>9. DueIsThere'
    <2>1. ASSUME NEW u \in Threads, pc[u].at = "check", due[u].verify
          PROVE  due[u].expect <= since'[pc[u].file]
      <3>1. pc[u].file \in Files /\ pc[u].file # owner
        BY <2>1 DEF Accounts, InCall
      <3> QED
        BY <2>1, <3>1, FlushEffect DEF Accounts, DueIsThere
    <2> QED
      BY <1>2, <1>3, <2>1 DEF Accounts, DueIsThere
  <1> QED
    BY <1>5, <1>6, <1>7, <1>8, <1>9 DEF Accounts

\* The flush falls short, and the write goes past a buffer that is empty.
LEMMA StandDownKeeps ==
    ASSUME TypeOK, TypeOK', Accounts, NEW t \in Threads, NEW f \in Files, f = pc[t].file, Absorb(t),
           NEW n \in Outcomes, FlushLocked(n), ~Flushes(n),
           dead' = TRUE, held' = <<>>,
           GoWrite(t, "write", f, pc[t].id),
           UNCHANGED <<owner, verify, ownerBytes, handed, late>>
    PROVE  Accounts'
  <1> USE DEF TypeOK
  <1>1. user[f] = t /\ pc[t].at = "small" /\ ~exited
    BY Absorber DEF Absorb, At
  <1>2. UNCHANGED <<scenario, user, due, blamed, exited>> /\ Threads' = Threads
    BY DEF Absorb, Threads
  <1>3. /\ pc'[t].at = "write" /\ pc'[t].file = f
        /\ \A u \in Threads : u # t => pc'[u] = pc[u]
    BY DEF GoWrite, ThreadTypes
  <1>4. InOrder'
    BY <1>2, FlushOrder DEF Accounts
  <1>5. InCall' /\ Counted'
    BY <1>1, <1>2, <1>3 DEF Accounts, InCall, Counted
  <1>6. StoodDown'
    <2>1. lost' # {}
      BY FlushEffect DEF Accounts
    <2>2. \A u \in Threads : pc'[u].at \in {"small", "large"} => t # u
      BY <1>3
    <2> QED
      BY <1>2, <2>1, <2>2 DEF StoodDown
  <1>7. DueIsThere'
    <2>1. ASSUME NEW u \in Threads, pc[u].at = "check", due[u].verify
          PROVE  due[u].expect <= since'[pc[u].file]
      <3>1. pc[u].file \in Files /\ pc[u].file # owner
        BY <2>1 DEF Accounts, InCall
      <3> QED
        BY <2>1, <3>1, FlushEffect DEF Accounts, DueIsThere
    <2> QED
      BY <1>2, <1>3, <2>1 DEF Accounts, DueIsThere
  <1> QED
    BY <1>4, <1>5, <1>6, <1>7 DEF Accounts

\* So a small write keeps the accounts in each of the three ways.
LEMMA AbsorbKeeps ==
    ASSUME TypeOK, TypeOK', Accounts, NEW t \in Threads, Absorb(t)
    PROVE  Accounts'
  <1> DEFINE f == pc[t].file
  <1>1. f \in Files
    BY Absorber DEF Absorb, At
  <1>2. \/ /\ owner = f /\ Taken(t, f)
           /\ held' = Append(held, pc[t].id) /\ ownerBytes' = ownerBytes + 1
           /\ NoFlush
           /\ UNCHANGED <<owner, verify>>
        \/ \E n \in Outcomes :
             /\ FlushLocked(n) /\ Flushes(n) /\ Taken(t, f)
             /\ held' = <<pc[t].id>> /\ owner' = f
             /\ verify' = (owner = f => verify)
             /\ ownerBytes' = (IF owner = f THEN ownerBytes ELSE 0) + 1
        \/ \E n \in Outcomes :
             /\ FlushLocked(n) /\ ~Flushes(n)
             /\ dead' = TRUE /\ held' = <<>>
             /\ GoWrite(t, "write", f, pc[t].id)
             /\ UNCHANGED <<owner, verify, ownerBytes, handed, late>>
    BY AbsorbWays
  <1>3. f = pc[t].file
    OBVIOUS
  <1> HIDE DEF f
  <1> QED
    BY <1>1, <1>2, <1>3, TakenKeeps, FlushedAndTakenKeeps, StandDownKeeps

------------------------------------------------------------------------------
(* The theorems. *)

\* The initial states satisfy BatchInv.
LEMMA InitBatchInv == Init => BatchInv
  <1> SUFFICES ASSUME Init
               PROVE  BatchInv
    OBVIOUS
  <1>e. <<>> \in Seq(Nat) /\ <<>> \o <<>> = <<>>
    BY EmptySeq, ConcatEmptySeq
  <1>1. BufferTypes /\ FileTypes
    BY <1>e DEF Init, BufferTypes, FileTypes
  <1>2. ThreadTypes
    BY DEF Init, ThreadTypes, Idle, NoDue, Ats
  <1>f. FlagTypes
    BY DEF Init, FlagTypes
  <1>3. InOrder
    BY <1>e, BatchAssumption DEF Init, InOrder
  <1>4. InCall /\ Counted /\ DueIsThere /\ StoodDown
    BY DEF Init, InCall, Counted, DueIsThere, StoodDown, Idle
  <1> QED
    BY <1>1, <1>2, <1>f, <1>3, <1>4 DEF BatchInv, TypeOK, Accounts

\* Every step keeps BatchInv.
LEMMA NextBatchInv == BatchInv /\ [Next]_vars => BatchInv'
  <1> SUFFICES ASSUME BatchInv, [Next]_vars
               PROVE  BatchInv'
    OBVIOUS
  <1>1. TypeOK /\ TypeOK'
    BY NextBufferTypes, NextThreadTypes, NextFileTypes, NextFlagTypes DEF BatchInv, TypeOK
  <1>2. scenario' = scenario
    BY DEF Next, vars, Open, TryAbsorb, Absorb, Take, Pass, OnClosing, FlushHandle, ClientWrite, Operate, Check,
           Close, Unload, Exit
  <1> SUFFICES ASSUME Clean
               PROVE  Accounts'
    BY <1>1, <1>2 DEF BatchInv, Clean, Allowed
  <1>3. Accounts
    BY DEF BatchInv
  <1>4. ASSUME NEW t \in Threads, NEW f \in Files, Open(t, f) \/ TryAbsorb(t, f) \/ OnClosing(t, f)
        PROVE  Accounts'
    BY <1>1, <1>3, <1>4, OpenKeeps, TryAbsorbKeeps, OnClosingKeeps
  <1>5. ASSUME NEW t \in Threads, Absorb(t) \/ Pass(t)
        PROVE  Accounts'
    BY <1>1, <1>3, <1>5, AbsorbKeeps, PassKeeps
  <1>6. ASSUME NEW t \in Threads, NEW f \in Files, NEW op \in {"read", "seek", "sync"},
               FlushHandle(t, f, op)
        PROVE  Accounts'
    BY <1>1, <1>3, <1>6, FlushHandleKeeps
  <1>7. ASSUME NEW t \in Threads, ClientWrite(t) \/ Operate(t) \/ Check(t) \/ Close(t)
        PROVE  Accounts'
    BY <1>1, <1>3, <1>7, ClientWriteKeeps, OperateKeeps, CheckKeeps, CloseKeeps
  <1>8. CASE Unload
    BY <1>1, <1>3, <1>8, UnloadKeeps
  <1>9. CASE Exit \/ UNCHANGED vars
    <2>1. UNCHANGED <<scenario, dead, owner, verify, ownerBytes, held, user, pc, due, handed,
                      disk, since, lost, late, blamed>>
      BY <1>9 DEF Exit, vars, batch, files
    <2>a. exited => exited'
      BY <1>9 DEF Exit, vars
    <2>b. Threads' = Threads
      BY <2>1 DEF Threads
    <2>2. InOrder' /\ StoodDown'
      BY <1>3, <2>1, <2>a, <2>b DEF Accounts, InOrder, StoodDown
    <2>3. InCall' /\ DueIsThere'
      BY <1>3, <2>1 DEF Accounts, InCall, DueIsThere, Threads
    <2>4. Counted'
      BY <1>3, <2>1 DEF Accounts, Counted
    <2> QED
      BY <2>2, <2>3, <2>4 DEF Accounts
  <1> QED
    BY <1>4, <1>5, <1>6, <1>7, <1>8, <1>9 DEF Next

\* Every variable keeps its type, also where the client's own writes fail.
THEOREM BatchTypeCorrect == Spec => []TypeOK
  <1>1. BatchInv => TypeOK
    BY DEF BatchInv
  <1> QED
    BY <1>1, InitBatchInv, NextBatchInv, PTL DEF Spec

\* Where the client's own writes succeed, a file is given the client's writes in the
\* order the client made them, whichever flush falls short and however the threads
\* take turns (TryAbsorb, FlushLocked, OnClosing).
THEOREM OrderCorrect == Spec => [](Clean => InOrder)
  <1>1. BatchInv => (Clean => InOrder)
    BY DEF BatchInv, Accounts
  <1> QED
    BY <1>1, InitBatchInv, NextBatchInv, PTL DEF Spec

\* There, a read, a seek and a FlushFileBuffers find every earlier write in the file
\* (FlushHandle).
THEOREM ReadsCorrect == Spec => [](Clean => CallsSeeWrites)
  <1>1. BatchInv => (Clean => CallsSeeWrites)
    <2> SUFFICES ASSUME TypeOK, Accounts, NEW t \in Threads, pc[t].at # "idle",
                        pc[t].at \notin {"small", "large"}, pc[t].file \notin lost \cup late
                 PROVE  disk[pc[t].file] = handed[pc[t].file]
      BY DEF BatchInv, CallsSeeWrites
    <2>1. /\ pc[t].file \in Files /\ user[pc[t].file] # None
          /\ owner = pc[t].file => held = <<>>
      BY BatchAssumption DEF Accounts, InCall, TypeOK, ThreadTypes, Threads
    <2> QED
      BY <2>1, OthersComplete DEF Accounts, TypeOK
  <1> QED
    BY <1>1, InitBatchInv, NextBatchInv, PTL DEF Spec

\* The batcher retires itself for lost bytes only where there were some, whatever
\* seeks, reads and other files came in between (OnClosing).
THEOREM BlameCorrect == Spec => []BlamesItselfRightly
  <1>1. BatchInv => BlamesItselfRightly
    BY DEF BatchInv, Accounts, DueIsThere, BlamesItselfRightly, Clean
  <1> QED
    BY <1>1, InitBatchInv, NextBatchInv, PTL DEF Spec
=============================================================================
