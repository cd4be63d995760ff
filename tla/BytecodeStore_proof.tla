-------------------------- MODULE BytecodeStore_proof --------------------------
(* What the index of the bytecode store names is in the blob file, whole and  *)
(* by this build, for every number and size of chunks, any builds and limits, *)
(* whichever calls fail and wherever the session is killed or the power lost. *)
EXTENDS BytecodeStore, LuaSwap, FiniteSetTheorems, TLAPS

\* The dump of entry e, by build n, is where e says.
Named(e, n) == \A i \in 1..Size[e.chunk] : bin.cells[e.at + i] = <<e.chunk, n, i>>

\* A session that starts has nothing in memory, nor in a file made anew.
Fresh ==
  /\ pc \in {"off", "headBin", "cutIdx", "headIdx"} => index = {} /\ appendAt = 0 /\ ~luaKnown
  /\ pc \in {"headBin", "cutIdx", "headIdx"} => bin.cells = <<>>
  /\ pc = "headBin" => bin.head.build = NoBuild

\* What the session has captured or loaded is in the file, below the end it
\* knows; it has a header as soon as it has a dump.
InMemory ==
  /\ appendAt <= Len(bin.cells)
  /\ index # {} => luaKnown
  /\ \A e \in index : e.at + Size[e.chunk] <= appendAt /\ Named(e, build)

\* Two files that pass for a pair.
Pair ==
  /\ idx.head.build \in Builds /\ bin.head = idx.head
  /\ idx.valid <= Len(bin.cells)

\* What the index of a pair vouches for is in the blob file, and flushed.
OnDisk ==
  /\ idx.head.build \in Builds => idx.head.lua \/ idx.recs = {}
  /\ Pair => \A e \in idx.recs : e.at + Size[e.chunk] <= idx.valid =>
               e.at + Size[e.chunk] < binFlushed /\ Named(e, idx.head.build)

\* The index has no header while it is written, and the blob file is flushed;
\* between two saves the file ends behind what the index vouches for.
Saving ==
  /\ pc \in {"cut", "recs", "head"} => binFlushed = Len(bin.cells) + 1
  /\ pc \in {"recs", "head", "headIdx"} => idx.head.build = NoBuild
  /\ pc = "headIdx" => idx.recs = {}
  /\ pc \in {"head", "sync"} => idx.recs \subseteq index
  /\ pc \in {"run", "sync"} => \/ idx.recs = {} \/ idx.head.build = NoBuild
                               \/ idx.valid <= appendAt /\ luaKnown

StoreInv == TypeOK /\ Fresh /\ InMemory /\ OnDisk /\ Saving

------------------------------------------------------------------------------
\* Writing at or before the end of the file keeps what is before the place.
LEMMA WriteAtFacts ==
  ASSUME NEW cells \in Seq(Cells), NEW at \in Nat, at <= Len(cells), NEW blob \in Seq(Cells)
  PROVE  /\ WriteAt(cells, at, blob) \in Seq(Cells)
         /\ Len(WriteAt(cells, at, blob)) >= Len(cells)
         /\ Len(WriteAt(cells, at, blob)) >= at + Len(blob)
         /\ \A i \in 1..at : WriteAt(cells, at, blob)[i] = cells[i]
         /\ \A i \in 1..Len(blob) : WriteAt(cells, at, blob)[at + i] = blob[i]
  <1> DEFINE end == at + Len(blob)
             new == IF end > Len(cells) THEN end ELSE Len(cells)
             w   == WriteAt(cells, at, blob)
  <1>1. new \in Nat /\ new >= Len(cells) /\ new >= end /\ end \in Nat /\ Len(cells) \in Nat
    OBVIOUS
  <1>2. w = [i \in 1..new |-> IF i \in (at + 1)..end THEN blob[i - at] ELSE cells[i]]
    BY DEF WriteAt
  <1>3. \A i \in 1..new : w[i] \in Cells
    <2> SUFFICES ASSUME NEW i \in 1..new PROVE w[i] \in Cells
      OBVIOUS
    <2>1. CASE i \in (at + 1)..end
      <3>1. i - at \in 1..Len(blob)
        BY <1>1, <2>1
      <3> QED BY <1>2, <2>1, <3>1
    <2>2. CASE i \notin (at + 1)..end
      <3>1. i \in 1..Len(cells)
        BY <1>1, <2>2
      <3> QED BY <1>2, <2>2, <3>1
    <2> QED BY <2>1, <2>2
  <1>4. w \in Seq(Cells) /\ Len(w) = new
    <2> HIDE DEF new, w
    <2>1. DOMAIN w = 1..new
      BY <1>2
    <2>2. w \in [1..new -> Cells]
      BY <1>2, <1>3, <2>1
    <2> QED BY <1>1, <2>2
  <1>5. \A i \in 1..at : w[i] = cells[i]
    BY <1>1, <1>2
  <1>6. \A i \in 1..Len(blob) : w[at + i] = blob[i]
    BY <1>1, <1>2
  <1> HIDE DEF new, w
  <1>7. w \in Seq(Cells) /\ Len(w) >= Len(cells) /\ Len(w) >= at + Len(blob)
    BY <1>1, <1>4
  <1> QED BY <1>5, <1>6, <1>7 DEF w

LEMMA DumpType ==
  ASSUME TypeOK, NEW c \in Chunks, NEW n \in Nat
  PROVE  /\ Dump(c, n) \in Seq(Cells) /\ Len(Dump(c, n)) = n
         /\ \A i \in 1..n : Dump(c, n)[i] = <<c, build, i>>
  <1>1. \A i \in 1..n : <<c, build, i>> \in Cells
    BY DEF TypeOK, Cells
  <1>2. Dump(c, n) \in [1..n -> Cells]
    BY <1>1 DEF Dump
  <1> QED BY <1>2 DEF Dump

------------------------------------------------------------------------------
(* The session ends. *)

LEMMA NoHeadType == NoHead \in Heads
  BY DEF NoHead, Heads

\* What a process leaves in memory is well typed: nothing.
LEMMA ForgetType ==
  ASSUME StoreAssumption, TypeOK, Forget
  PROVE  /\ pc' = "off" /\ build' \in Builds
         /\ index' \subseteq Entries /\ IsFiniteSet(index')
         /\ appendAt' \in Nat /\ luaKnown' \in BOOLEAN /\ dirty' \in BOOLEAN
         /\ dead' \in {"no", "io", "wrong"} /\ retired' \in BOOLEAN /\ trust' \in 0..ProveFirst
  <1>1. index' = {} /\ IsFiniteSet({})
    BY FS_EmptySet DEF Forget
  <1>2. trust' \in 0..ProveFirst
    BY DEF Forget, StoreAssumption
  <1>3. IsFiniteSet(index')
    BY <1>1
  <1> QED BY <1>1, <1>2, <1>3 DEF Forget, TypeOK

LEMMA KillStep ==
  ASSUME StoreAssumption, StoreInv, Kill
  PROVE  StoreInv'
  <1>1. TypeOK'
    <2>1. Forget /\ bin' = bin /\ idx' = idx /\ binFlushed' = binFlushed /\ idxFlushed' = idxFlushed
      BY DEF Kill, files
    <2>2. TypeOK /\ IsFiniteSet(idx'.recs)
      BY <2>1 DEF StoreInv, TypeOK
    <2> QED BY <2>1, <2>2, ForgetType DEF TypeOK
  <1>2. Fresh' /\ InMemory' /\ Saving'
    BY DEF StoreInv, TypeOK, Kill, Forget, files, Fresh, InMemory, Saving
  <1>3. OnDisk'
    BY DEF StoreInv, Kill, Forget, files, OnDisk, Pair, Named
  <1> QED BY <1>1, <1>2, <1>3 DEF StoreInv

\* What a loss of power leaves of the blob file: its length, and what was flushed.
LEMMA BinAfterFacts ==
  ASSUME TypeOK, NEW b \in BinAfter
  PROVE  /\ b \in [head : Heads, cells : Seq(Cells)] /\ b.head \in {bin.head, NoHead}
         /\ Len(b.cells) = Len(bin.cells)
         /\ \A i \in 1..Len(bin.cells) : i < binFlushed => b.cells[i] = bin.cells[i]
  <1> DEFINE H == {bin.head} \cup (IF binFlushed = 0 THEN {NoHead} ELSE {})
             L == SUBSET {i \in 1..Len(bin.cells) : i >= binFlushed}
             R(h, missed) == [head |-> h, cells |-> [i \in 1..Len(bin.cells) |->
                                                     IF i \in missed THEN Junk ELSE bin.cells[i]]]
  <1>1. BinAfter = {R(h, missed) : h \in H, missed \in L}
    BY DEF BinAfter
  <1>2. PICK h \in H, missed \in L : b = R(h, missed)
    <2> HIDE DEF H, L, R
    <2> QED BY <1>1
  <1>3. /\ h \in {bin.head, NoHead} /\ missed \in SUBSET {i \in 1..Len(bin.cells) : i >= binFlushed}
        /\ b = [head |-> h, cells |-> [i \in 1..Len(bin.cells) |-> IF i \in missed THEN Junk ELSE bin.cells[i]]]
    BY <1>2
  <1> HIDE DEF H, L, R
  <1>4. bin.cells \in Seq(Cells) /\ bin.head \in Heads /\ binFlushed \in Nat
    BY DEF TypeOK
  <1>5. b.cells \in [1..Len(bin.cells) -> Cells]
    BY <1>3, <1>4 DEF Cells
  <1>6. b.cells \in Seq(Cells) /\ Len(b.cells) = Len(bin.cells)
    BY <1>4, <1>5
  <1>7. h \in Heads
    BY <1>3, <1>4, NoHeadType
  <1>8. \A i \in 1..Len(bin.cells) : i < binFlushed => b.cells[i] = bin.cells[i]
    BY <1>3, <1>4
  <1> QED BY <1>3, <1>6, <1>7, <1>8

LEMMA IdxAfterFacts ==
  ASSUME TypeOK, NEW i \in IdxAfter
  PROVE  /\ i \in [head : Heads, valid : Nat, count : Nat, recs : SUBSET Entries]
         /\ i.head \in {idx.head, NoHead} /\ i.valid = idx.valid /\ i.recs \subseteq idx.recs
  <1>1. CASE i = idx
    BY <1>1 DEF TypeOK
  <1>2. CASE i # idx
    <2>1. PICK h \in {idx.head, NoHead}, r \in SUBSET idx.recs :
            i = [head |-> h, valid |-> idx.valid, count |-> idx.count, recs |-> r]
      BY <1>2 DEF IdxAfter
    <2>2. h \in Heads /\ r \in SUBSET Entries
      BY <2>1, NoHeadType DEF TypeOK
    <2> QED BY <2>1, <2>2 DEF TypeOK
  <1> QED BY <1>1, <1>2

LEMMA PowerLossStep ==
  ASSUME StoreAssumption, StoreInv, PowerLoss
  PROVE  StoreInv'
  <1>1. /\ bin' \in [head : Heads, cells : Seq(Cells)] /\ bin'.head \in {bin.head, NoHead}
        /\ Len(bin'.cells) = Len(bin.cells)
        /\ \A i \in 1..Len(bin.cells) : i < binFlushed => bin'.cells[i] = bin.cells[i]
    BY BinAfterFacts DEF StoreInv, PowerLoss
  <1>2. /\ idx' \in [head : Heads, valid : Nat, count : Nat, recs : SUBSET Entries]
        /\ idx'.head \in {idx.head, NoHead} /\ idx'.valid = idx.valid /\ idx'.recs \subseteq idx.recs
    BY IdxAfterFacts DEF StoreInv, PowerLoss
  <1>3. TypeOK'
    <2>1. IsFiniteSet(idx'.recs)
      BY <1>2, FS_Subset DEF StoreInv, TypeOK
    <2>2. binFlushed' \in Nat
      BY DEF PowerLoss, StoreInv, TypeOK
    <2>3. Forget /\ TypeOK /\ idxFlushed' \in BOOLEAN
      BY DEF PowerLoss, StoreInv
    <2> QED BY <1>1, <1>2, <2>1, <2>2, <2>3, ForgetType DEF TypeOK
  <1>4. Fresh' /\ InMemory' /\ Saving'
    BY <1>1 DEF StoreInv, TypeOK, PowerLoss, Forget, Fresh, InMemory, Saving
  <1>5. OnDisk'
    <2>1. idx'.head.build \in Builds => idx'.head.lua \/ idx'.recs = {}
      BY <1>2 DEF StoreInv, OnDisk, NoHead, StoreAssumption
    <2>2. ASSUME Pair', NEW e \in idx'.recs, e.at + Size[e.chunk] <= idx'.valid
          PROVE  e.at + Size[e.chunk] < binFlushed' /\ Named(e, idx.head.build)'
      <3>1. idx'.head = idx.head /\ bin'.head = bin.head /\ Pair
        BY <1>1, <1>2, <2>2 DEF Pair, NoHead, StoreAssumption
      <3>2. e \in idx.recs /\ e \in Entries /\ e.at + Size[e.chunk] < binFlushed /\ Named(e, idx.head.build)
        BY <1>2, <2>2, <3>1 DEF StoreInv, OnDisk
      <3>3. e.at \in Nat /\ Size[e.chunk] \in Nat /\ binFlushed \in Nat /\ Len(bin.cells) \in Nat
        BY <3>2 DEF Entries, StoreInv, TypeOK, StoreAssumption
      <3>4. e.at + Size[e.chunk] <= Len(bin.cells)
        BY <1>2, <2>2, <3>1, <3>3 DEF Pair, StoreInv, TypeOK
      <3>5. ASSUME NEW i \in 1..Size[e.chunk]
            PROVE  bin'.cells[e.at + i] = bin.cells[e.at + i]
        <4>1. e.at + i \in 1..Len(bin.cells) /\ e.at + i < binFlushed
          BY <3>2, <3>3, <3>4
        <4> QED BY <1>1, <4>1
      <3>6. Named(e, idx.head.build)'
        BY <3>1, <3>2, <3>5 DEF Named
      <3>7. binFlushed' = Len(bin.cells) + 1
        BY DEF PowerLoss
      <3> QED BY <3>3, <3>4, <3>6, <3>7
    <2>3. Pair' => idx'.head = idx.head
      BY <1>2 DEF Pair, NoHead, StoreAssumption
    <2> QED BY <2>1, <2>2, <2>3 DEF OnDisk, Named
  <1> QED BY <1>3, <1>4, <1>5 DEF StoreInv

------------------------------------------------------------------------------
(* The session starts. *)

LEMMA StartLoadedStep ==
  ASSUME StoreAssumption, StoreInv, NEW n \in Builds, StartLoaded(n)
  PROVE  StoreInv'
  <1>1. /\ pc' = "run" /\ build' = n /\ bin' = bin /\ idx' = idx
        /\ binFlushed' = binFlushed /\ idxFlushed' = idxFlushed
        /\ index' = idx.recs /\ appendAt' = idx.valid /\ luaKnown' = idx.head.lua
        /\ dirty' = dirty /\ dead' = dead /\ retired' = retired /\ trust' = trust
    BY DEF StartLoaded, files
  <1>2. TypeOK
    BY DEF StoreInv
  <1>3. idx \in [head : Heads, valid : Nat, count : Nat, recs : SUBSET Entries] /\ bin.head \in Heads
    BY <1>2 DEF TypeOK
  <1>4. idx.head.build = n /\ bin.head.build = n /\ idx.head.lua = bin.head.lua
    BY DEF StartLoaded, Loads
  <1>5. bin.head = idx.head
    BY <1>3, <1>4 DEF Heads
  <1>6. /\ idx.valid <= Len(bin.cells) /\ Pair
        /\ \A e \in idx.recs : e.at + Size[e.chunk] <= idx.valid
    BY <1>4, <1>5 DEF StartLoaded, Loads, Pair
  <1>7. /\ idx.head.lua \/ idx.recs = {}
        /\ \A e \in idx.recs : Named(e, n)
    BY <1>4, <1>6 DEF StoreInv, OnDisk
  <1>8. TypeOK'
    <2>1. idx.head.lua \in BOOLEAN
      BY <1>3 DEF Heads
    <2> QED BY <1>1, <1>2, <1>3, <2>1 DEF TypeOK
  <1>9. Fresh' /\ OnDisk'
    BY <1>1 DEF StoreInv, Fresh, OnDisk, Pair, Named
  <1>10. InMemory'
    BY <1>1, <1>6, <1>7 DEF InMemory, Named
  <1>11. Saving'
    BY <1>1, <1>3, <1>7 DEF Saving
  <1> QED BY <1>8, <1>9, <1>10, <1>11 DEF StoreInv

LEMMA StartFreshStep ==
  ASSUME StoreAssumption, StoreInv, NEW n \in Builds, StartFresh(n)
  PROVE  StoreInv'
  <1>1. /\ pc = "off" /\ pc' = "headBin" /\ build' = n
        /\ bin' = [head |-> NoHead, cells |-> <<>>] /\ binFlushed' = 0
        /\ UNCHANGED <<idx, idxFlushed, memory>>
    BY DEF StartFresh
  <1>2. bin' \in [head : Heads, cells : Seq(Cells)] /\ bin'.cells = <<>> /\ bin'.head.build = NoBuild
    BY <1>1, NoHeadType DEF NoHead
  <1>3. TypeOK'
    BY <1>1, <1>2 DEF StoreInv, TypeOK, memory
  <1>4. Fresh' /\ InMemory' /\ Saving'
    BY <1>1, <1>2 DEF StoreInv, Fresh, InMemory, Saving, memory
  <1>5. OnDisk'
    BY <1>1, <1>2 DEF StoreInv, OnDisk, Pair, StoreAssumption
  <1> QED BY <1>3, <1>4, <1>5 DEF StoreInv

LEMMA FreshBinStep ==
  ASSUME StoreAssumption, StoreInv, FreshBin
  PROVE  StoreInv'
  <1>1. /\ pc = "headBin" /\ pc' = "cutIdx" /\ bin.cells = <<>>
        /\ bin' = [bin EXCEPT !.head.build = build] \/ bin' = bin
        /\ UNCHANGED <<build, idx, binFlushed, idxFlushed, memory>>
    BY DEF FreshBin, StoreInv, Fresh
  <1>2. bin' \in [head : Heads, cells : Seq(Cells)] /\ bin'.cells = <<>>
    BY <1>1 DEF StoreInv, TypeOK, Heads
  <1>3. TypeOK'
    BY <1>1, <1>2 DEF StoreInv, TypeOK, memory
  <1>4. Fresh' /\ InMemory' /\ Saving'
    BY <1>1, <1>2 DEF StoreInv, Fresh, InMemory, Saving, memory
  <1>5. OnDisk'
    <2>1. \A e \in idx.recs : Pair' => ~(e.at + Size[e.chunk] <= idx.valid)
      <3> SUFFICES ASSUME NEW e \in idx.recs, Pair' PROVE ~(e.at + Size[e.chunk] <= idx.valid)
        OBVIOUS
      <3>1. e.at \in Nat /\ Size[e.chunk] \in Nat \ {0} /\ idx.valid \in Nat
        BY DEF StoreInv, TypeOK, Entries, StoreAssumption
      <3>2. idx.valid <= 0
        BY <1>1, <1>2 DEF Pair
      <3> QED BY <3>1, <3>2
    <2> QED BY <1>1, <2>1 DEF StoreInv, OnDisk
  <1> QED BY <1>3, <1>4, <1>5 DEF StoreInv

LEMMA CutIdxStep ==
  ASSUME StoreAssumption, StoreInv, CutIdx("cutIdx", "headIdx") \/ CutIdx("cut", "recs")
  PROVE  StoreInv'
  <1>1. /\ (pc = "cutIdx" /\ pc' = "headIdx") \/ (pc = "cut" /\ pc' = "recs")
        /\ idx' = NoIndex /\ idxFlushed' = FALSE
        /\ UNCHANGED <<build, bin, binFlushed, memory>>
    BY DEF CutIdx
  <1>2. /\ idx' \in [head : Heads, valid : Nat, count : Nat, recs : SUBSET Entries]
        /\ idx'.head.build = NoBuild /\ idx'.recs = {} /\ IsFiniteSet(idx'.recs)
    BY <1>1, NoHeadType, FS_EmptySet DEF NoIndex, NoHead
  <1>3. TypeOK'
    BY <1>1, <1>2 DEF StoreInv, TypeOK, memory
  <1>4. Fresh' /\ InMemory' /\ Saving'
    BY <1>1, <1>2 DEF StoreInv, Fresh, InMemory, Saving, Named, memory
  <1>5. OnDisk'
    BY <1>2 DEF OnDisk
  <1> QED BY <1>3, <1>4, <1>5 DEF StoreInv

LEMMA FreshIdxStep ==
  ASSUME StoreAssumption, StoreInv, FreshIdx
  PROVE  StoreInv'
  <1>1. /\ pc = "headIdx" /\ pc' = "run" /\ idx.recs = {}
        /\ idx' = [idx EXCEPT !.head.build = build] \/ idx' = idx
        /\ UNCHANGED <<build, bin, binFlushed, idxFlushed, memory>>
    BY DEF FreshIdx, StoreInv, Saving
  <1>2. /\ idx' \in [head : Heads, valid : Nat, count : Nat, recs : SUBSET Entries]
        /\ idx'.recs = {}
    <2>1. idx.head \in [build : Builds \cup {NoBuild}, lua : BOOLEAN] /\ build \in Builds \cup {NoBuild}
      BY DEF StoreInv, TypeOK, Heads
    <2>2. [idx.head EXCEPT !.build = build] \in Heads
      BY <2>1 DEF Heads
    <2>3. CASE idx' = idx
      BY <1>1, <2>3 DEF StoreInv, TypeOK
    <2>4. CASE idx' = [idx EXCEPT !.head.build = build]
      BY <1>1, <2>2, <2>4 DEF StoreInv, TypeOK
    <2> QED BY <1>1, <2>3, <2>4
  <1>3. TypeOK'
    BY <1>1, <1>2 DEF StoreInv, TypeOK, memory
  <1>4. Fresh' /\ InMemory' /\ Saving'
    BY <1>1, <1>2 DEF StoreInv, Fresh, InMemory, Saving, Named, memory
  <1>5. OnDisk'
    BY <1>2 DEF OnDisk
  <1> QED BY <1>3, <1>4, <1>5 DEF StoreInv

------------------------------------------------------------------------------
(* Lookups and the save. *)

\* A step that leaves the files, the index in memory and the place alone.
LEMMA LookupStep ==
  ASSUME StoreAssumption, StoreInv, NEW c \in Chunks,
         ReadFails(c) \/ BuildFaults(c) \/ Agrees(c)
  PROVE  StoreInv'
  <1>1. UNCHANGED <<pc, build, files, index, appendAt, luaKnown, dirty>>
    BY DEF ReadFails, BuildFaults, Agrees
  <1>2. dead' \in {"no", "io", "wrong"} /\ retired' \in BOOLEAN /\ trust' \in 0..ProveFirst
    <2>1. CASE ReadFails(c) \/ BuildFaults(c)
      BY <2>1 DEF ReadFails, BuildFaults, StoreInv, TypeOK
    <2>2. CASE Agrees(c)
      BY <2>2 DEF Agrees, StoreInv, TypeOK, StoreAssumption
    <2> QED BY <2>1, <2>2
  <1>3. TypeOK'
    BY <1>1, <1>2 DEF StoreInv, TypeOK, files
  <1>4. Fresh' /\ InMemory' /\ OnDisk' /\ Saving'
    BY <1>1 DEF StoreInv, Fresh, InMemory, OnDisk, Pair, Named, Saving, files
  <1> QED BY <1>3, <1>4 DEF StoreInv

LEMMA DisagreesStep ==
  ASSUME StoreAssumption, StoreInv, NEW c \in Chunks, Disagrees(c)
  PROVE  StoreInv'
  <1>1. /\ pc = "run" /\ dead' = "wrong" /\ retired' = TRUE /\ idxFlushed' = TRUE
        /\ idx' = [idx EXCEPT !.head.build = NoBuild] \/ idx' = idx
        /\ UNCHANGED <<pc, build, bin, binFlushed, index, appendAt, luaKnown, dirty, trust>>
    BY DEF Disagrees, Found
  <1>2. /\ idx' \in [head : Heads, valid : Nat, count : Nat, recs : SUBSET Entries]
        /\ idx'.recs = idx.recs /\ idx'.valid = idx.valid
        /\ idx' = idx \/ idx'.head.build = NoBuild
    BY <1>1 DEF StoreInv, TypeOK, Heads
  <1>3. TypeOK'
    BY <1>1, <1>2 DEF StoreInv, TypeOK
  <1>4. Fresh' /\ InMemory' /\ Saving'
    BY <1>1, <1>2 DEF StoreInv, Fresh, InMemory, Saving, Named
  <1>5. OnDisk'
    BY <1>1, <1>2 DEF StoreInv, OnDisk, Pair, Named, StoreAssumption
  <1> QED BY <1>3, <1>4, <1>5 DEF StoreInv

LEMMA SaveFlushStep ==
  ASSUME StoreAssumption, StoreInv, SaveFlush
  PROVE  StoreInv'
  <1>1. /\ pc = "run" /\ pc' = "cut" /\ binFlushed' = Len(bin.cells) + 1
        /\ UNCHANGED <<build, bin, idx, idxFlushed, memory>>
    BY DEF SaveFlush
  <1>2. TypeOK'
    BY <1>1 DEF StoreInv, TypeOK, memory
  <1>3. Fresh' /\ InMemory' /\ Saving'
    BY <1>1 DEF StoreInv, Fresh, InMemory, Saving, Named, memory
  <1>4. OnDisk'
    <2>1. ASSUME Pair, NEW e \in idx.recs, e.at + Size[e.chunk] <= idx.valid
          PROVE  e.at + Size[e.chunk] < Len(bin.cells) + 1
      <3>1. e.at \in Nat /\ Size[e.chunk] \in Nat /\ idx.valid \in Nat /\ Len(bin.cells) \in Nat
        BY DEF StoreInv, TypeOK, Entries, StoreAssumption
      <3> QED BY <2>1, <3>1 DEF Pair
    <2> QED BY <1>1, <2>1 DEF StoreInv, OnDisk, Pair, Named
  <1> QED BY <1>2, <1>3, <1>4 DEF StoreInv

LEMMA SaveRecsStep ==
  ASSUME StoreAssumption, StoreInv, SaveRecs
  PROVE  StoreInv'
  <1>1. /\ pc = "recs" /\ pc' = "head" /\ idx' = [idx EXCEPT !.recs = index]
        /\ idx.head.build = NoBuild
        /\ UNCHANGED <<build, bin, binFlushed, idxFlushed, memory>>
    BY DEF SaveRecs, StoreInv, Saving
  <1>2. /\ idx' \in [head : Heads, valid : Nat, count : Nat, recs : SUBSET Entries]
        /\ idx'.recs = index /\ idx'.head.build = NoBuild
    BY <1>1 DEF StoreInv, TypeOK
  <1>3. TypeOK'
    BY <1>1, <1>2 DEF StoreInv, TypeOK, memory
  <1>4. Fresh' /\ InMemory' /\ Saving'
    BY <1>1, <1>2 DEF StoreInv, Fresh, InMemory, Saving, Named, memory
  <1>5. OnDisk'
    BY <1>2 DEF OnDisk, Pair, StoreAssumption
  <1> QED BY <1>3, <1>4, <1>5 DEF StoreInv

LEMMA SaveHeadStep ==
  ASSUME StoreAssumption, StoreInv, SaveHead
  PROVE  StoreInv'
  <1>1. /\ pc = "head" /\ pc' = "sync"
        /\ idx' = [head |-> [build |-> build, lua |-> luaKnown], valid |-> appendAt,
                   count |-> Cardinality(index), recs |-> idx.recs]
        /\ UNCHANGED <<build, bin, binFlushed, idxFlushed, memory>>
    BY DEF SaveHead
  <1>2. binFlushed = Len(bin.cells) + 1 /\ idx.recs \subseteq index
    BY <1>1 DEF StoreInv, Saving
  <1>3. /\ idx' \in [head : Heads, valid : Nat, count : Nat, recs : SUBSET Entries]
        /\ idx'.recs = idx.recs /\ idx'.valid = appendAt
        /\ idx'.head.build = build /\ idx'.head.lua = luaKnown
    <2>1. Cardinality(index) \in Nat
      BY FS_CardinalityType DEF StoreInv, TypeOK
    <2>2. [build |-> build, lua |-> luaKnown] \in Heads
      BY DEF StoreInv, TypeOK, Heads
    <2> QED BY <1>1, <2>1, <2>2 DEF StoreInv, TypeOK
  <1>4. TypeOK'
    BY <1>1, <1>3 DEF StoreInv, TypeOK, memory
  <1>5. Fresh' /\ InMemory'
    BY <1>1 DEF StoreInv, Fresh, InMemory, Named, memory
  <1>6. luaKnown \/ idx.recs = {}
    BY <1>2 DEF StoreInv, InMemory
  <1>7. Saving'
    <2>1. appendAt <= appendAt
      BY DEF StoreInv, TypeOK
    <2> QED BY <1>1, <1>2, <1>3, <1>6, <2>1 DEF Saving, memory
  <1>8. OnDisk'
    <2>1. ASSUME NEW e \in idx.recs
          PROVE  e.at + Size[e.chunk] < binFlushed /\ Named(e, build)
      <3>1. e.at + Size[e.chunk] <= appendAt /\ appendAt <= Len(bin.cells) /\ Named(e, build)
        BY <1>2 DEF StoreInv, InMemory
      <3>2. e.at \in Nat /\ Size[e.chunk] \in Nat /\ appendAt \in Nat /\ Len(bin.cells) \in Nat
        BY DEF StoreInv, TypeOK, Entries, StoreAssumption
      <3> QED BY <1>2, <3>1, <3>2
    <2> QED BY <1>1, <1>3, <1>6, <2>1 DEF OnDisk, Named
  <1> QED BY <1>4, <1>5, <1>7, <1>8 DEF StoreInv

LEMMA SaveEndStep ==
  ASSUME StoreAssumption, StoreInv, SaveSync \/ IndexFails
  PROVE  StoreInv'
  <1>1. /\ pc \in {"sync", "recs", "head"} /\ pc' = "run"
        /\ UNCHANGED <<build, bin, idx, binFlushed, index, appendAt, luaKnown, retired, trust>>
        /\ idxFlushed' \in BOOLEAN /\ dirty' \in BOOLEAN /\ dead' \in {"no", "io", "wrong"}
    BY DEF SaveSync, IndexFails, files, StoreInv, TypeOK
  <1>2. TypeOK'
    BY <1>1 DEF StoreInv, TypeOK
  <1>3. Fresh' /\ InMemory' /\ Saving'
    BY <1>1 DEF StoreInv, Fresh, InMemory, Saving, Named
  <1>4. OnDisk'
    BY <1>1 DEF StoreInv, OnDisk, Pair, Named
  <1> QED BY <1>2, <1>3, <1>4 DEF StoreInv

------------------------------------------------------------------------------
(* A capture writes behind everything the index or the memory names. *)

LEMMA CaptureStep ==
  ASSUME StoreAssumption, StoreInv, NEW c \in Chunks, Capture(c)
  PROVE  StoreInv'
  <1>1. PICK lua \in BOOLEAN, ok \in BOOLEAN, put \in 0..Size[c] :
          /\ ok => put = Size[c]
          /\ bin' = [head  |-> IF luaKnown \/ ~lua THEN bin.head ELSE [bin.head EXCEPT !.lua = TRUE],
                     cells |-> WriteAt(bin.cells, appendAt, Dump(c, put))]
          /\ index' = IF ok THEN index \cup {[chunk |-> c, at |-> appendAt]} ELSE index
          /\ appendAt' = IF ok THEN appendAt + Size[c] ELSE appendAt
          /\ dirty' = (dirty \/ ok)
    BY DEF Capture, Outcomes
  <1>2. /\ pc = "run" /\ pc' = "run" /\ luaKnown' = TRUE
        /\ binFlushed' = IF ~luaKnown THEN 0
                         ELSE IF binFlushed > appendAt + 1 THEN appendAt + 1 ELSE binFlushed
        /\ UNCHANGED <<build, idx, idxFlushed, dead, retired, trust>>
    BY DEF Capture
  <1>3. /\ Size[c] \in Nat /\ put \in Nat /\ appendAt \in Nat /\ binFlushed \in Nat
        /\ bin.cells \in Seq(Cells) /\ Len(bin.cells) \in Nat /\ appendAt <= Len(bin.cells)
    BY DEF StoreInv, TypeOK, InMemory, StoreAssumption
  <1>4. /\ Dump(c, put) \in Seq(Cells) /\ Len(Dump(c, put)) = put
        /\ \A i \in 1..put : Dump(c, put)[i] = <<c, build, i>>
    BY <1>3, DumpType DEF StoreInv
  <1>5. /\ bin'.cells \in Seq(Cells)
        /\ Len(bin'.cells) >= Len(bin.cells) /\ Len(bin'.cells) >= appendAt + put
        /\ \A i \in 1..appendAt : bin'.cells[i] = bin.cells[i]
        /\ \A i \in 1..put : bin'.cells[appendAt + i] = <<c, build, i>>
    <2> DEFINE old == bin.cells
               d   == Dump(c, put)
               w   == WriteAt(old, appendAt, d)
    <2>1. bin'.cells = w
      BY <1>1
    <2>2. /\ old \in Seq(Cells) /\ d \in Seq(Cells)
          /\ appendAt \in Nat /\ appendAt <= Len(old)
      BY <1>3, <1>4
    <2>3. Len(d) = put /\ \A i \in 1..put : d[i] = <<c, build, i>>
      BY <1>4
    <2> HIDE DEF old, d
    <2>4. /\ w \in Seq(Cells) /\ Len(w) >= Len(old) /\ Len(w) >= appendAt + Len(d)
          /\ \A i \in 1..appendAt : w[i] = old[i]
          /\ \A i \in 1..Len(d) : w[appendAt + i] = d[i]
      BY <2>2, WriteAtFacts
    <2> HIDE DEF w
    <2> QED BY <2>1, <2>3, <2>4 DEF old
  <1>6. bin' \in [head : Heads, cells : Seq(Cells)]
    <2>1. [bin.head EXCEPT !.lua = TRUE] \in Heads /\ bin.head \in Heads
      BY DEF StoreInv, TypeOK, Heads
    <2> QED BY <1>1, <1>5, <2>1
  <1>7. TypeOK'
    <2>1. index' \subseteq Entries /\ IsFiniteSet(index')
      <3>1. [chunk |-> c, at |-> appendAt] \in Entries
        BY <1>3 DEF Entries
      <3>2. index \subseteq Entries /\ IsFiniteSet(index)
        BY DEF StoreInv, TypeOK
      <3>3. IsFiniteSet(index \cup {[chunk |-> c, at |-> appendAt]})
        BY <3>2, FS_AddElement
      <3> QED BY <1>1, <3>1, <3>2, <3>3
    <2>2. appendAt' \in Nat /\ binFlushed' \in Nat
      BY <1>1, <1>2, <1>3
    <2>3. dirty' \in BOOLEAN
      BY <1>1
    <2> QED BY <1>2, <1>6, <2>1, <2>2, <2>3 DEF StoreInv, TypeOK
  <1>8. InMemory'
    <2>1. appendAt <= appendAt' /\ appendAt' <= Len(bin'.cells)
      BY <1>1, <1>3, <1>5, <1>6
    <2>2. ASSUME NEW e \in index
          PROVE  e.at + Size[e.chunk] <= appendAt' /\ Named(e, build)'
      <3>1. e.at + Size[e.chunk] <= appendAt /\ Named(e, build)
        BY DEF StoreInv, InMemory
      <3>2. e.at \in Nat /\ Size[e.chunk] \in Nat
        BY DEF StoreInv, TypeOK, Entries, StoreAssumption
      <3>3. \A i \in 1..Size[e.chunk] : e.at + i \in 1..appendAt
        BY <1>3, <3>1, <3>2
      <3>4. e.at + Size[e.chunk] <= appendAt'
        BY <1>1, <1>3, <2>1, <3>1, <3>2
      <3> QED BY <1>2, <1>5, <3>1, <3>3, <3>4 DEF Named
    <2>3. ASSUME ok, NEW e, e = [chunk |-> c, at |-> appendAt]
          PROVE  e.at + Size[e.chunk] <= appendAt' /\ Named(e, build)'
      BY <1>1, <1>2, <1>3, <1>5, <2>3 DEF Named
    <2> QED BY <1>1, <1>2, <2>1, <2>2, <2>3 DEF InMemory
  <1>9. OnDisk'
    <2>1. ASSUME Pair', NEW e \in idx.recs, e.at + Size[e.chunk] <= idx.valid
          PROVE  e.at + Size[e.chunk] < binFlushed' /\ Named(e, idx.head.build)'
      <3>1. idx.valid <= appendAt /\ luaKnown
        BY <1>2, <2>1 DEF StoreInv, Saving, Pair, StoreAssumption
      <3>2. bin'.head = bin.head /\ idx.valid \in Nat
        BY <1>1, <3>1 DEF StoreInv, TypeOK
      <3>3. Pair
        BY <1>2, <1>3, <2>1, <3>1, <3>2 DEF Pair
      <3>4. e.at + Size[e.chunk] < binFlushed /\ Named(e, idx.head.build)
        BY <2>1, <3>3 DEF StoreInv, OnDisk
      <3>5. e.at \in Nat /\ Size[e.chunk] \in Nat
        BY DEF StoreInv, TypeOK, Entries, StoreAssumption
      <3>6. e.at + Size[e.chunk] < binFlushed'
        BY <1>2, <1>3, <2>1, <3>1, <3>2, <3>4, <3>5
      <3>7. \A i \in 1..Size[e.chunk] : e.at + i \in 1..appendAt
        BY <1>3, <2>1, <3>1, <3>2, <3>5
      <3> QED BY <1>2, <1>5, <3>4, <3>6, <3>7 DEF Named
    <2>2. (idx.head.build \in Builds => idx.head.lua \/ idx.recs = {})'
      BY <1>2 DEF StoreInv, OnDisk
    <2> QED BY <1>2, <2>1, <2>2 DEF OnDisk, Named
  <1>10. Saving'
    <2>1. appendAt <= appendAt'
      BY <1>1, <1>3
    <2>2. idx.recs = {} \/ idx.head.build = NoBuild \/ idx.valid <= appendAt'
      <3>1. idx.valid \in Nat
        BY DEF StoreInv, TypeOK
      <3> QED BY <1>1, <1>2, <1>3, <2>1, <3>1 DEF StoreInv, Saving
    <2> QED BY <1>2, <2>2 DEF Saving
  <1>11. Fresh'
    BY <1>2 DEF Fresh
  <1> QED BY <1>7, <1>8, <1>9, <1>10, <1>11 DEF StoreInv

------------------------------------------------------------------------------
LEMMA StoreInitial == StoreAssumption /\ Init => StoreInv
  <1> SUFFICES ASSUME StoreAssumption, Init PROVE StoreInv
    OBVIOUS
  <1>1. bin \in [head : Heads, cells : Seq(Cells)] /\ bin.cells = <<>> /\ bin.head.build = NoBuild
    BY NoHeadType DEF Init, NoHead
  <1>2. /\ idx \in [head : Heads, valid : Nat, count : Nat, recs : SUBSET Entries]
        /\ idx.recs = {} /\ idx.head.build = NoBuild
    BY NoHeadType DEF Init, NoIndex, NoHead
  <1>3. TypeOK
    <2>1. trust \in 0..ProveFirst
      BY DEF Init, StoreAssumption
    <2>2. IsFiniteSet(index) /\ IsFiniteSet(idx.recs)
      BY <1>2, FS_EmptySet DEF Init
    <2>3. build \in Builds /\ binFlushed \in Nat /\ idxFlushed \in BOOLEAN /\ appendAt \in Nat
      BY DEF Init
    <2> QED BY <1>1, <1>2, <2>1, <2>2, <2>3 DEF Init, TypeOK
  <1>4. Fresh /\ InMemory /\ OnDisk /\ Saving
    BY <1>1, <1>2 DEF Init, Fresh, InMemory, OnDisk, Saving
  <1> QED BY <1>3, <1>4 DEF StoreInv

LEMMA StoreStep == StoreAssumption /\ StoreInv /\ [Next]_vars => StoreInv'
  <1> SUFFICES ASSUME StoreAssumption, StoreInv, [Next]_vars PROVE StoreInv'
    OBVIOUS
  <1>1. CASE Kill \/ PowerLoss
    BY <1>1, KillStep, PowerLossStep
  <1>2. CASE \E n \in Builds : StartLoaded(n) \/ StartFresh(n)
    BY <1>2, StartLoadedStep, StartFreshStep
  <1>3. CASE FreshBin \/ CutIdx("cutIdx", "headIdx") \/ FreshIdx
    BY <1>3, FreshBinStep, CutIdxStep, FreshIdxStep
  <1>4. CASE \E c \in Chunks : Capture(c) \/ ReadFails(c) \/ BuildFaults(c) \/ Agrees(c) \/ Disagrees(c)
    BY <1>4, CaptureStep, LookupStep, DisagreesStep
  <1>5. CASE SaveFlush \/ CutIdx("cut", "recs") \/ SaveRecs
    BY <1>5, SaveFlushStep, CutIdxStep, SaveRecsStep
  <1>6. CASE SaveHead \/ SaveSync \/ IndexFails
    BY <1>6, SaveHeadStep, SaveEndStep
  <1>7. CASE UNCHANGED vars
    <2>1. UNCHANGED <<pc, build, bin, idx, binFlushed, idxFlushed>> /\ UNCHANGED memory
      BY <1>7 DEF vars, files
    <2>2. TypeOK'
      BY <2>1 DEF StoreInv, TypeOK, memory
    <2>3. Fresh' /\ InMemory' /\ OnDisk' /\ Saving'
      BY <2>1 DEF StoreInv, Fresh, InMemory, OnDisk, Pair, Named, Saving, memory
    <2> QED BY <2>2, <2>3 DEF StoreInv
  <1> QED BY <1>1, <1>2, <1>3, <1>4, <1>5, <1>6, <1>7 DEF Next

\* Whatever a lookup finds is the chunk's own dump by this build: what the index
\* of an earlier session vouches for had been flushed before it was written, and
\* a capture only writes behind it (Capture, SaveIfDirty, LoadIndex).
THEOREM StoreCorrect == Spec => []IndexNamesDumps
  <1>1. StoreInv => IndexNamesDumps
    <2> SUFFICES ASSUME StoreInv, NEW e \in index
                 PROVE  /\ e.at + Size[e.chunk] <= Len(bin.cells)
                        /\ \A i \in 1..Size[e.chunk] : bin.cells[e.at + i] = <<e.chunk, build, i>>
      BY DEF IndexNamesDumps
    <2>1. e.at + Size[e.chunk] <= appendAt /\ appendAt <= Len(bin.cells) /\ Named(e, build)
      BY DEF StoreInv, InMemory
    <2>2. e.at \in Nat /\ Size[e.chunk] \in Nat /\ appendAt \in Nat /\ Len(bin.cells) \in Nat
      BY StoreAssumption DEF StoreInv, TypeOK, Entries, StoreAssumption
    <2> QED BY <2>1, <2>2 DEF Named
  <1> QED BY <1>1, StoreInitial, StoreStep, StoreAssumption, PTL DEF Spec

\* Every variable of the store keeps its type.
THEOREM StoreTypeCorrect == Spec => []TypeOK
  <1>1. StoreInv => TypeOK
    BY DEF StoreInv
  <1> QED BY <1>1, StoreInitial, StoreStep, StoreAssumption, PTL DEF Spec

------------------------------------------------------------------------------
(* What a save leaves for the next session. *)

\* The writes of a header succeed, those of StartFresh, of the first capture and
\* of Revoke: the code does not look at them.
HeadersWritten == MayFail \cap {"fresh", "lua", "revoke"} = {}

\* The header of the blob file is this session's; a save goes on only in a store
\* not given up, and ends with an index that vouches for all the session has.
Saved ==
  /\ pc = "headBin" => bin.head = NoHead
  /\ pc \notin {"off", "headBin"} => bin.head = [build |-> build, lua |-> luaKnown]
  /\ dead # "no" => pc = "run"
  /\ dead = "wrong" => idx.head.build = NoBuild
  /\ pc = "head" => idx.recs = index
  /\ pc = "sync" =>
       /\ binFlushed = Len(bin.cells) + 1
       /\ idx = [head |-> bin.head, valid |-> appendAt, count |-> Cardinality(index), recs |-> index]
  /\ Cardinality(index) <= MaxEntries

LEMMA NothingCounted == Cardinality({}) <= MaxEntries
  BY FS_EmptySet, StoreAssumption DEF StoreAssumption

LEMMA SavedEnds ==
  ASSUME Saved, Kill \/ PowerLoss
  PROVE  Saved'
  <1>1. Forget
    BY DEF Kill, PowerLoss
  <1>2. Cardinality(index') <= MaxEntries
    BY <1>1, NothingCounted DEF Forget
  <1> QED BY <1>1, <1>2 DEF Forget, Saved

LEMMA SavedStarts ==
  ASSUME StoreInv, Saved, NEW n \in Builds, StartLoaded(n) \/ StartFresh(n)
  PROVE  Saved'
  <1>1. dead = "no" /\ dead' = "no"
    BY DEF Saved, StartLoaded, StartFresh, memory
  <1>2. CASE StartLoaded(n)
    <2>1. /\ pc' = "run" /\ build' = n /\ bin' = bin /\ index' = idx.recs /\ luaKnown' = idx.head.lua
          /\ bin.head.build = n /\ bin.head.lua = idx.head.lua
          /\ Cardinality(idx.recs) <= MaxEntries
      BY <1>2 DEF StartLoaded, Loads, files
    <2>2. bin.head \in [build : Builds \cup {NoBuild}, lua : BOOLEAN]
      BY DEF StoreInv, TypeOK, Heads
    <2>3. bin'.head = [build |-> build', lua |-> luaKnown']
      BY <2>1, <2>2
    <2> QED BY <1>1, <2>1, <2>3 DEF Saved
  <1>3. CASE StartFresh(n)
    <2>1. pc' = "headBin" /\ bin'.head = NoHead /\ index' = index
      BY <1>3 DEF StartFresh, memory
    <2> QED BY <1>1, <2>1 DEF Saved
  <1> QED BY <1>2, <1>3

LEMMA SavedFresh ==
  ASSUME HeadersWritten, StoreInv, Saved,
         FreshBin \/ CutIdx("cutIdx", "headIdx") \/ CutIdx("cut", "recs") \/ FreshIdx
  PROVE  Saved'
  <1>1. CASE FreshBin
    <2>1. /\ pc = "headBin" /\ pc' = "cutIdx" /\ bin' = [bin EXCEPT !.head.build = build]
          /\ UNCHANGED <<build, memory>>
      BY <1>1 DEF FreshBin, Outcomes, HeadersWritten
    <2>2. bin.head = NoHead /\ luaKnown = FALSE /\ bin \in [head : Heads, cells : Seq(Cells)]
      BY <2>1 DEF Saved, StoreInv, TypeOK, Fresh
    <2>3. bin'.head = [build |-> build, lua |-> FALSE]
      <3>1. bin'.head = [bin.head EXCEPT !.build = build]
        BY <2>1, <2>2
      <3>2. bin.head = [build |-> NoBuild, lua |-> FALSE]
        BY <2>2 DEF NoHead
      <3>3. bin'.head \in [build : Builds \cup {NoBuild}, lua : BOOLEAN]
        BY <2>2, <3>1 DEF Heads, StoreInv, TypeOK
      <3>4. bin'.head.build = build /\ bin'.head.lua = bin.head.lua
        BY <2>2, <3>1 DEF Heads
      <3> DEFINE h == bin'.head
      <3>5. h \in [build : Builds \cup {NoBuild}, lua : BOOLEAN] /\ h.build = build /\ h.lua = FALSE
        BY <3>2, <3>3, <3>4
      <3> HIDE DEF h
      <3>6. h = [build |-> build, lua |-> FALSE]
        BY <3>5
      <3> QED BY <3>6 DEF h
    <2> QED BY <2>1, <2>2, <2>3 DEF Saved, memory
  <1>2. CASE CutIdx("cutIdx", "headIdx") \/ CutIdx("cut", "recs") \/ FreshIdx
    <2>1. /\ UNCHANGED <<build, bin, memory>> /\ pc \in {"cutIdx", "cut", "headIdx"}
          /\ pc' \in {"headIdx", "recs", "run"}
      BY <1>2 DEF CutIdx, FreshIdx
    <2>2. dead = "no"
      BY <2>1 DEF Saved
    <2> QED BY <2>1, <2>2 DEF Saved, memory
  <1> QED BY <1>1, <1>2

LEMMA SavedLookup ==
  ASSUME HeadersWritten, StoreInv, Saved, NEW c \in Chunks,
         ReadFails(c) \/ BuildFaults(c) \/ Agrees(c) \/ Disagrees(c)
  PROVE  Saved'
  <1>1. pc = "run" /\ dead = "no" /\ UNCHANGED <<pc, build, bin, index, luaKnown>>
    BY DEF ReadFails, BuildFaults, Agrees, Disagrees, Found, files
  <1>2. dead' = "wrong" => idx'.head.build = NoBuild
    <2>1. CASE Disagrees(c)
      <3>1. idx' = [idx EXCEPT !.head.build = NoBuild]
        BY <2>1 DEF Disagrees, Outcomes, HeadersWritten
      <3> QED BY <3>1 DEF StoreInv, TypeOK, Heads
    <2>2. CASE ~Disagrees(c)
      BY <1>1, <2>2 DEF ReadFails, BuildFaults, Agrees
    <2> QED BY <2>1, <2>2
  <1> QED BY <1>1, <1>2 DEF Saved

\* What a capture does to the header: the first one fixes the client's.
LEMMA CaptureHead ==
  ASSUME HeadersWritten, StoreInv, NEW c \in Chunks, Capture(c)
  PROVE  /\ pc = "run" /\ pc' = "run" /\ dead = "no" /\ dead' = "no" /\ luaKnown' = TRUE
         /\ UNCHANGED <<build, idx, idxFlushed>>
         /\ bin'.head = IF luaKnown THEN bin.head ELSE [bin.head EXCEPT !.lua = TRUE]
         /\ index' = index \/ index' = index \cup {[chunk |-> c, at |-> appendAt]}
         /\ Cardinality(index) < MaxEntries
         /\ Len(bin'.cells) \in Nat /\ Len(bin'.cells) >= Len(bin.cells)
         /\ luaKnown => (binFlushed' = 0 <=> binFlushed = 0)
  <1>1. PICK ok \in BOOLEAN, put \in 0..Size[c] :
          /\ bin' = [head  |-> IF luaKnown THEN bin.head ELSE [bin.head EXCEPT !.lua = TRUE],
                     cells |-> WriteAt(bin.cells, appendAt, Dump(c, put))]
          /\ index' = IF ok THEN index \cup {[chunk |-> c, at |-> appendAt]} ELSE index
    BY DEF Capture, Outcomes, HeadersWritten
  <1>2. /\ Size[c] \in Nat /\ put \in Nat /\ appendAt \in Nat /\ binFlushed \in Nat
        /\ bin.cells \in Seq(Cells) /\ appendAt <= Len(bin.cells)
    BY StoreAssumption DEF StoreInv, TypeOK, InMemory, StoreAssumption
  <1>3. Dump(c, put) \in Seq(Cells)
    BY <1>2, DumpType DEF StoreInv
  <1>4. Len(bin'.cells) \in Nat /\ Len(bin'.cells) >= Len(bin.cells)
    <2> DEFINE old == bin.cells
               d   == Dump(c, put)
               w   == WriteAt(old, appendAt, d)
    <2>1. bin'.cells = w
      BY <1>1
    <2>2. old \in Seq(Cells) /\ d \in Seq(Cells) /\ appendAt \in Nat /\ appendAt <= Len(old)
      BY <1>2, <1>3
    <2> HIDE DEF old, d
    <2>3. w \in Seq(Cells) /\ Len(w) >= Len(old)
      BY <2>2, WriteAtFacts
    <2> HIDE DEF w
    <2> QED BY <2>1, <2>3 DEF old
  <1>5. luaKnown => (binFlushed' = 0 <=> binFlushed = 0)
    BY <1>2 DEF Capture
  <1> QED BY <1>1, <1>4, <1>5 DEF Capture, Room

LEMMA SavedCapture ==
  ASSUME HeadersWritten, StoreInv, Saved, NEW c \in Chunks, Capture(c)
  PROVE  Saved'
  <1>0. /\ pc = "run" /\ pc' = "run" /\ dead = "no" /\ dead' = "no" /\ luaKnown' = TRUE
        /\ build' = build
        /\ bin'.head = IF luaKnown THEN bin.head ELSE [bin.head EXCEPT !.lua = TRUE]
        /\ index' = index \/ index' = index \cup {[chunk |-> c, at |-> appendAt]}
        /\ Cardinality(index) < MaxEntries
    BY CaptureHead
  <1>1. bin'.head = [build |-> build', lua |-> luaKnown']
    <2>1. bin.head = [build |-> build, lua |-> luaKnown] /\ luaKnown \in BOOLEAN
      BY <1>0 DEF Saved, StoreInv, TypeOK
    <2>2. [bin.head EXCEPT !.lua = TRUE] = [build |-> build, lua |-> TRUE]
      <3> DEFINE h == [bin.head EXCEPT !.lua = TRUE]
      <3>1. bin.head \in [build : Builds \cup {NoBuild}, lua : BOOLEAN]
        BY DEF StoreInv, TypeOK, Heads
      <3>2. h \in [build : Builds \cup {NoBuild}, lua : BOOLEAN] /\ h.build = bin.head.build /\ h.lua = TRUE
        BY <3>1
      <3> HIDE DEF h
      <3>3. h = [build |-> bin.head.build, lua |-> TRUE]
        BY <3>2
      <3>4. bin.head.build = build
        BY <2>1
      <3> QED BY <3>3, <3>4 DEF h
    <2> QED BY <1>0, <2>1, <2>2
  <1>2. Cardinality(index') <= MaxEntries
    <2>1. IsFiniteSet(index) /\ Cardinality(index) \in Nat /\ MaxEntries \in Nat
      BY FS_CardinalityType, StoreAssumption DEF StoreInv, TypeOK, StoreAssumption
    <2>2. Cardinality(index \cup {[chunk |-> c, at |-> appendAt]}) \in {Cardinality(index), Cardinality(index) + 1}
      BY <2>1, FS_AddElement
    <2>3. CASE index' = index
      BY <1>0, <2>1, <2>3
    <2>4. CASE index' = index \cup {[chunk |-> c, at |-> appendAt]}
      <3>1. Cardinality(index') \in {Cardinality(index), Cardinality(index) + 1}
        BY <2>2, <2>4
      <3> QED BY <1>0, <2>1, <3>1
    <2> QED BY <1>0, <2>3, <2>4
  <1> QED BY <1>0, <1>1, <1>2 DEF Saved

LEMMA SavedSaves ==
  ASSUME StoreInv, Saved, SaveFlush \/ SaveRecs \/ SaveHead \/ SaveSync \/ IndexFails
  PROVE  Saved'
  <1>1. /\ UNCHANGED <<build, bin, index, luaKnown>>
        /\ pc \in {"run", "recs", "head", "sync"} /\ pc' \in {"cut", "head", "sync", "run"}
        /\ dead = "no" /\ dead' \in {"no", "io"} /\ (dead' # "no" => pc' = "run")
    BY DEF Saved, SaveFlush, SaveRecs, SaveHead, SaveSync, IndexFails, files, memory
  <1>2. pc' = "head" => idx'.recs = index'
    <2>1. pc' = "head" => idx' = [idx EXCEPT !.recs = index]
      BY DEF SaveFlush, SaveRecs, SaveHead, SaveSync, IndexFails
    <2> QED BY <1>1, <2>1 DEF StoreInv, TypeOK
  <1>3. ASSUME pc' = "sync"
        PROVE  /\ binFlushed' = Len(bin'.cells) + 1
               /\ idx' = [head |-> bin'.head, valid |-> appendAt',
                          count |-> Cardinality(index'), recs |-> index']
    <2>1. SaveHead
      BY <1>3 DEF SaveFlush, SaveRecs, SaveSync, IndexFails
    <2>2. /\ idx' = [head |-> [build |-> build, lua |-> luaKnown], valid |-> appendAt,
                     count |-> Cardinality(index), recs |-> idx.recs]
          /\ binFlushed' = binFlushed /\ appendAt' = appendAt /\ pc = "head"
      BY <2>1 DEF SaveHead, memory
    <2>3. idx.recs = index /\ bin.head = [build |-> build, lua |-> luaKnown]
      BY <2>2 DEF Saved
    <2>4. binFlushed = Len(bin.cells) + 1
      BY <2>2 DEF StoreInv, Saving
    <2> QED BY <1>1, <2>2, <2>3, <2>4
  <1> QED BY <1>1, <1>2, <1>3 DEF Saved

LEMMA SavedStep == HeadersWritten /\ StoreInv /\ Saved /\ [Next]_vars => Saved'
  <1> SUFFICES ASSUME HeadersWritten, StoreInv, Saved, [Next]_vars PROVE Saved'
    OBVIOUS
  <1>1. CASE Kill \/ PowerLoss
    BY <1>1, SavedEnds
  <1>2. CASE \E n \in Builds : StartLoaded(n) \/ StartFresh(n)
    BY <1>2, SavedStarts
  <1>3. CASE FreshBin \/ CutIdx("cutIdx", "headIdx") \/ FreshIdx \/ CutIdx("cut", "recs")
    BY <1>3, SavedFresh
  <1>4. CASE \E c \in Chunks : Capture(c) \/ ReadFails(c) \/ BuildFaults(c) \/ Agrees(c) \/ Disagrees(c)
    BY <1>4, SavedCapture, SavedLookup
  <1>5. CASE SaveFlush \/ SaveRecs \/ SaveHead \/ SaveSync \/ IndexFails
    BY <1>5, SavedSaves
  <1>6. CASE UNCHANGED vars
    BY <1>6 DEF vars, files, memory, Saved
  <1> QED BY <1>1, <1>2, <1>3, <1>4, <1>5, <1>6 DEF Next

LEMMA SavedInitial == Init => Saved
  <1> SUFFICES ASSUME Init PROVE Saved
    OBVIOUS
  <1>1. Cardinality(index) <= MaxEntries
    BY NothingCounted DEF Init
  <1> QED BY <1>1 DEF Init, Saved

------------------------------------------------------------------------------
\* What a loss of power may leave of the blob file loads or not by its header
\* alone, and any header it may have comes with the cells as they are.
LEMMA BinAfterHeads ==
  ASSUME TypeOK
  PROVE  /\ \A b \in BinAfter : /\ b.head = bin.head \/ (binFlushed = 0 /\ b.head = NoHead)
                                /\ Len(b.cells) = Len(bin.cells)
         /\ \A h : h = bin.head \/ (binFlushed = 0 /\ h = NoHead) =>
              \E b \in BinAfter : b.head = h /\ Len(b.cells) = Len(bin.cells)
  <1> DEFINE H == {bin.head} \cup (IF binFlushed = 0 THEN {NoHead} ELSE {})
             L == SUBSET {i \in 1..Len(bin.cells) : i >= binFlushed}
             R(h, missed) == [head |-> h, cells |-> [i \in 1..Len(bin.cells) |->
                                                     IF i \in missed THEN Junk ELSE bin.cells[i]]]
  <1>1. BinAfter = {R(h, missed) : h \in H, missed \in L}
    BY DEF BinAfter
  <1>2. \A h, missed : R(h, missed).head = h
    OBVIOUS
  <1>3. {} \in L
    OBVIOUS
  <1>4. \A h : h \in H <=> h = bin.head \/ (binFlushed = 0 /\ h = NoHead)
    OBVIOUS
  <1> HIDE DEF H, L, R
  <1>5. ASSUME NEW b \in BinAfter
        PROVE  /\ b.head = bin.head \/ (binFlushed = 0 /\ b.head = NoHead)
               /\ Len(b.cells) = Len(bin.cells)
    <2>1. PICK h \in H, missed \in L : b = R(h, missed)
      BY <1>1, <1>5
    <2>2. b.head \in H
      BY <1>2, <2>1
    <2>3. Len(b.cells) = Len(bin.cells)
      BY BinAfterFacts
    <2> QED BY <1>4, <2>2, <2>3
  <1>6. ASSUME NEW h, h = bin.head \/ (binFlushed = 0 /\ h = NoHead)
        PROVE  \E b \in BinAfter : b.head = h /\ Len(b.cells) = Len(bin.cells)
    <2>1. R(h, {}) \in BinAfter
      BY <1>1, <1>3, <1>4, <1>6
    <2> QED BY <1>2, <1>5, <2>1
  <1> QED BY <1>5, <1>6

LEMMA NextHeads ==
  ASSUME TypeOK', NEW b \in BinAfter'
  PROVE  /\ b.head = bin'.head \/ (binFlushed' = 0 /\ b.head = NoHead)
         /\ Len(b.cells) = Len(bin'.cells)
  <1> DEFINE H == {bin'.head} \cup (IF binFlushed' = 0 THEN {NoHead} ELSE {})
             L == SUBSET {i \in 1..Len(bin'.cells) : i >= binFlushed'}
             C(missed) == [i \in 1..Len(bin'.cells) |-> IF i \in missed THEN Junk ELSE bin'.cells[i]]
             R(h, missed) == [head |-> h, cells |-> [i \in 1..Len(bin'.cells) |->
                                                     IF i \in missed THEN Junk ELSE bin'.cells[i]]]
  <1>1. BinAfter' = {R(h, missed) : h \in H, missed \in L}
    BY DEF BinAfter
  <1>2. \A h, missed : R(h, missed).head = h /\ R(h, missed).cells = C(missed)
    OBVIOUS
  <1>3. \A h \in H : h = bin'.head \/ (binFlushed' = 0 /\ h = NoHead)
    OBVIOUS
  <1>4. bin'.cells \in Seq(Cells)
    BY DEF TypeOK
  <1>5. \A missed : C(missed) \in [1..Len(bin'.cells) -> Cells]
    BY <1>4 DEF Cells
  <1> HIDE DEF H, L, C, R
  <1>6. PICK h \in H, missed \in L : b = R(h, missed)
    BY <1>1
  <1>7. Len(C(missed)) = Len(bin'.cells)
    BY <1>4, <1>5
  <1> QED BY <1>2, <1>3, <1>6, <1>7

\* An index without a header, or without records, leaves nothing.
LEMMA NothingLeft ==
  ASSUME StoreInv, NEW b, NEW i \in IdxAfter, idx.recs = {} \/ idx.head.build = NoBuild
  PROVE  Left(b, i) = {}
  <1>1. i.head \in {idx.head, NoHead} /\ i.recs \subseteq idx.recs
    BY IdxAfterFacts DEF StoreInv
  <1>2. build \in Builds /\ NoBuild \notin Builds
    BY StoreAssumption DEF StoreInv, TypeOK, StoreAssumption
  <1>3. CASE idx.recs = {}
    BY <1>1, <1>3 DEF Left
  <1>4. CASE idx.head.build = NoBuild
    <2>1. i.head.build = NoBuild
      BY <1>1, <1>4 DEF NoHead
    <2> QED BY <1>2, <2>1 DEF Left, Loads
  <1> QED BY <1>3, <1>4

\* Between two saves, blob files that end where the session's ends or behind it
\* are the same to a session that starts, if their headers are.
LEMMA SameLeft ==
  ASSUME StoreInv, pc = "run", NEW b, NEW d, NEW i \in IdxAfter, b.head = d.head,
         Len(b.cells) \in Nat, Len(b.cells) >= Len(bin.cells),
         Len(d.cells) \in Nat, Len(d.cells) >= Len(bin.cells)
  PROVE  Left(b, i) = Left(d, i)
  <1>1. CASE idx.recs = {} \/ idx.head.build = NoBuild
    BY <1>1, NothingLeft
  <1>2. CASE ~(idx.recs = {} \/ idx.head.build = NoBuild)
    <2>1. idx.valid <= appendAt /\ appendAt <= Len(bin.cells)
      BY <1>2 DEF StoreInv, Saving, InMemory
    <2>2. i.valid = idx.valid /\ idx.valid \in Nat /\ appendAt \in Nat /\ Len(bin.cells) \in Nat
      BY IdxAfterFacts DEF StoreInv, TypeOK
    <2>3. i.valid <= Len(b.cells) /\ i.valid <= Len(d.cells)
      BY <2>1, <2>2
    <2>4. Loads(b, i, build) <=> Loads(d, i, build)
      BY <2>3 DEF Loads
    <2> QED BY <2>4 DEF Left
  <1> QED BY <1>1, <1>2

\* The files themselves are among what a loss of power may leave.
LEMMA AsTheyAre ==
  ASSUME TypeOK
  PROVE  idx \in IdxAfter
  <1>1. idx = [head |-> idx.head, valid |-> idx.valid, count |-> idx.count, recs |-> idx.recs]
    BY DEF TypeOK
  <1> QED BY <1>1 DEF IdxAfter

LEMMA SyncLasts ==
  ASSUME StoreInv, Saved, appendAt <= MaxFileBytes, SaveSync
  PROVE  Durable' /\ Left(bin', idx') = IF dead = "wrong" THEN {} ELSE index
  <1>1. /\ pc = "sync" /\ dead = "no" /\ bin' = bin /\ idx' = idx /\ build' = build
        /\ binFlushed' = binFlushed /\ idxFlushed' = TRUE
    BY DEF SaveSync, Saved
  <1>2. /\ bin.head = [build |-> build, lua |-> luaKnown] /\ binFlushed = Len(bin.cells) + 1
        /\ idx = [head |-> bin.head, valid |-> appendAt, count |-> Cardinality(index), recs |-> index]
        /\ Cardinality(index) <= MaxEntries
    BY <1>1 DEF Saved
  <1>3. Loads(bin, idx, build)
    <2>1. appendAt <= Len(bin.cells) /\ \A r \in index : r.at + Size[r.chunk] <= appendAt
      BY DEF StoreInv, InMemory
    <2>2. idx.head.build = build /\ bin.head.build = build /\ idx.head.lua = bin.head.lua
      BY <1>2
    <2>3. idx.recs = index /\ idx.count = Cardinality(index) /\ idx.valid = appendAt
      BY <1>2
    <2> QED BY <1>2, <2>1, <2>2, <2>3 DEF Loads
  <1>4. Left(bin, idx) = index
    BY <1>2, <1>3 DEF Left
  <1>5. Durable'
    <2>1. TypeOK'
      BY SaveEndStep, StoreAssumption DEF StoreInv
    <2>2. SUFFICES ASSUME NEW b \in BinAfter', NEW i \in IdxAfter'
                   PROVE  Left(b, i)' = Left(bin, idx)'
      BY DEF Durable
    <2>3. i = idx
      BY <1>1, <2>2 DEF IdxAfter
    <2>4. b.head = bin.head /\ Len(b.cells) = Len(bin.cells)
      <3>1. /\ b.head = bin'.head \/ (binFlushed' = 0 /\ b.head = NoHead)
            /\ Len(b.cells) = Len(bin'.cells)
        BY <2>1, <2>2, NextHeads
      <3>2. Len(bin.cells) \in Nat
        BY DEF StoreInv, TypeOK
      <3>3. binFlushed' # 0
        BY <1>1, <1>2, <3>2
      <3> QED BY <1>1, <3>1, <3>2, <3>3
    <2> QED BY <1>1, <2>3, <2>4 DEF Left, Loads
  <1> QED BY <1>1, <1>4, <1>5

LEMMA CaptureLasts ==
  ASSUME HeadersWritten, StoreInv, Saved, NEW c \in Chunks, Capture(c), Durable
  PROVE  Durable' /\ Left(bin', idx') = Left(bin, idx)
  <1>1. TypeOK' /\ TypeOK /\ Len(bin.cells) \in Nat
    BY CaptureStep, StoreAssumption DEF StoreInv, TypeOK
  <1>0. /\ pc = "run" /\ build' = build /\ idx' = idx /\ idxFlushed' = idxFlushed
        /\ luaKnown => /\ bin'.head = bin.head
                       /\ binFlushed' = 0 <=> binFlushed = 0
        /\ Len(bin'.cells) \in Nat /\ Len(bin'.cells) >= Len(bin.cells)
    BY CaptureHead
  <1>2. IdxAfter' = IdxAfter /\ build' = build /\ idx' = idx /\ pc = "run"
    BY <1>0 DEF IdxAfter
  <1>3. ASSUME NEW i \in IdxAfter, NEW b, b = bin' \/ b \in BinAfter'
        PROVE  Left(b, i) = Left(bin, idx)
    <2>1. CASE ~luaKnown
      <3>1. idx.recs = {} \/ idx.head.build = NoBuild
        BY <1>2, <2>1 DEF StoreInv, Saving
      <3> QED BY <1>1, <3>1, NothingLeft, AsTheyAre
    <2>2. CASE luaKnown
      <3>1. /\ b.head = bin.head \/ (binFlushed = 0 /\ b.head = NoHead)
            /\ Len(b.cells) \in Nat /\ Len(b.cells) >= Len(bin.cells)
        <4>1. bin'.head = bin.head /\ Len(bin'.cells) \in Nat /\ Len(bin'.cells) >= Len(bin.cells)
              /\ (binFlushed' = 0 <=> binFlushed = 0)
          BY <1>0, <2>2
        <4>2. CASE b = bin'
          BY <4>1, <4>2
        <4>3. CASE b \in BinAfter'
          <5>1. /\ b.head = bin'.head \/ (binFlushed' = 0 /\ b.head = NoHead)
                /\ Len(b.cells) = Len(bin'.cells)
            BY <1>1, <4>3, NextHeads
          <5> QED BY <4>1, <5>1
        <4> QED BY <1>3, <4>2, <4>3
      <3>2. PICK d \in BinAfter : d.head = b.head /\ Len(d.cells) = Len(bin.cells)
        BY <1>1, <3>1, BinAfterHeads
      <3>3. Left(b, i) = Left(d, i)
        BY <1>1, <1>2, <3>1, <3>2, SameLeft
      <3> QED BY <3>2, <3>3 DEF Durable
    <2> QED BY <2>1, <2>2
  <1>4. Left(bin', idx') = Left(bin, idx)
    BY <1>1, <1>2, <1>3, AsTheyAre
  <1>5. Durable'
    <2> SUFFICES ASSUME NEW b \in BinAfter', NEW i \in IdxAfter'
                 PROVE  Left(b, i)' = Left(bin, idx)'
      BY DEF Durable
    <2>1. Left(b, i) = Left(bin, idx) /\ Left(bin', idx') = Left(bin, idx)
      BY <1>2, <1>3, <1>4
    <2> QED BY <1>2, <2>1 DEF Left, Loads
  <1> QED BY <1>4, <1>5

\* A Proto unlike the parse's takes the header from the index, and on the disk.
LEMMA WrongLasts ==
  ASSUME HeadersWritten, StoreInv, NEW c \in Chunks, Disagrees(c)
  PROVE  dead' = "wrong" /\ Durable' /\ Left(bin', idx') = {}
  <1>1. /\ idx' = [idx EXCEPT !.head.build = NoBuild] /\ idxFlushed' = TRUE /\ dead' = "wrong"
        /\ build' = build
    BY DEF Disagrees, Outcomes, HeadersWritten
  <1>2. idx'.head.build # build
    BY <1>1, StoreAssumption DEF StoreInv, TypeOK, Heads, StoreAssumption
  <1>3. \A b : Left(b, idx') = {}
    BY <1>2 DEF Left, Loads
  <1>4. Durable'
    <2> SUFFICES ASSUME NEW b \in BinAfter', NEW i \in IdxAfter'
                 PROVE  Left(b, i)' = Left(bin, idx)'
      BY DEF Durable
    <2>1. i = idx'
      BY <1>1 DEF IdxAfter
    <2> QED BY <1>1, <1>3, <2>1 DEF Left, Loads
  <1> QED BY <1>1, <1>3, <1>4

\* A step that leaves the files alone.
LEMMA RestLasts ==
  ASSUME StoreInv, Saved, UNCHANGED <<files, build>>, Durable, dead' = "wrong" => dead = "wrong"
  PROVE  Durable' /\ Left(bin', idx') = IF dead' = "wrong" THEN {} ELSE Left(bin, idx)
  <1>0. bin' = bin /\ idx' = idx /\ binFlushed' = binFlushed /\ idxFlushed' = idxFlushed /\ build' = build
    BY DEF files
  <1>1. Durable'
    <2>1. BinAfter' = BinAfter /\ IdxAfter' = IdxAfter
      BY <1>0 DEF BinAfter, IdxAfter
    <2> SUFFICES ASSUME NEW b \in BinAfter', NEW i \in IdxAfter'
                 PROVE  Left(b, i)' = Left(bin, idx)'
      BY DEF Durable
    <2>2. Left(b, i) = Left(bin, idx)
      BY <2>1 DEF Durable
    <2> QED BY <1>0, <2>2 DEF Left, Loads
  <1>2. CASE dead' = "wrong"
    <2>1. idx.head.build = NoBuild
      BY <1>2 DEF Saved
    <2>2. Left(bin, idx) = {}
      BY <2>1, AsTheyAre, NothingLeft DEF StoreInv
    <2> QED BY <1>1, <1>2, <2>2 DEF files
  <1>3. CASE dead' # "wrong"
    BY <1>1, <1>3 DEF files
  <1> QED BY <1>2, <1>3

LEMMA LastsStep ==
  HeadersWritten /\ StoreInv /\ Saved /\ appendAt <= MaxFileBytes /\ [Next]_vars => Lasts
  <1> SUFFICES ASSUME HeadersWritten, StoreInv, Saved, appendAt <= MaxFileBytes, [Next]_vars
               PROVE  Lasts
    OBVIOUS
  <1>1. ASSUME pc = "sync", pc' = "run"
        PROVE  Durable' /\ Left(bin', idx') = IF dead = "wrong" THEN {} ELSE index
    <2>1. SaveSync
      BY <1>1 DEF Next, vars, Kill, PowerLoss, Forget, StartLoaded, StartFresh, FreshBin, CutIdx,
                  FreshIdx, Capture, ReadFails, BuildFaults, Agrees, Disagrees, Found,
                  SaveFlush, SaveRecs, SaveHead, IndexFails
    <2> QED BY <2>1, SyncLasts
  <1>2. ASSUME pc = "run", pc' = "run", Durable
        PROVE  Durable' /\ Left(bin', idx') = IF dead' = "wrong" THEN {} ELSE Left(bin, idx)
    <2>1. \/ \E c \in Chunks : Capture(c) \/ ReadFails(c) \/ BuildFaults(c) \/ Agrees(c) \/ Disagrees(c)
          \/ UNCHANGED vars
      BY <1>2 DEF Next, Kill, PowerLoss, Forget, StartLoaded, StartFresh, FreshBin, CutIdx,
                  FreshIdx, SaveFlush, SaveRecs, SaveHead, SaveSync, IndexFails
    <2>2. ASSUME NEW c \in Chunks, Capture(c)
          PROVE  Durable' /\ Left(bin', idx') = IF dead' = "wrong" THEN {} ELSE Left(bin, idx)
      BY <1>2, <2>2, CaptureLasts, CaptureHead
    <2>3. ASSUME NEW c \in Chunks, Disagrees(c)
          PROVE  Durable' /\ Left(bin', idx') = IF dead' = "wrong" THEN {} ELSE Left(bin, idx)
      BY <2>3, WrongLasts
    <2>4. ASSUME NEW c \in Chunks, ReadFails(c) \/ BuildFaults(c) \/ Agrees(c)
          PROVE  UNCHANGED <<files, build>> /\ (dead' = "wrong" => dead = "wrong")
      BY <2>4 DEF ReadFails, BuildFaults, Agrees
    <2>5. ASSUME UNCHANGED vars
          PROVE  UNCHANGED <<files, build>> /\ (dead' = "wrong" => dead = "wrong")
      BY <2>5 DEF vars, memory
    <2> QED BY <1>2, <2>1, <2>2, <2>3, <2>4, <2>5, RestLasts
  <1> QED BY <1>1, <1>2 DEF Lasts

\* Where the headers are written and the blob file keeps within kMaxFileBytes, a
\* save that has ended is what the next session finds, after a kill or a loss of
\* power at any moment, until the next save begins (SaveIfDirty, Capture, Confirm
\* and LoadIndex of lua_bytecode_store.cpp).  The cap is tested before a dump is
\* appended, so the file may pass it: the index saved then does not load.
THEOREM SaveCorrect ==
  ASSUME HeadersWritten
  PROVE  Spec /\ [](appendAt <= MaxFileBytes) => SaveLasts
  <1>1. StoreInv /\ Saved /\ appendAt <= MaxFileBytes /\ [Next]_vars => [Lasts]_vars
    BY LastsStep
  <1>2. Init => StoreInv /\ Saved
    BY StoreInitial, SavedInitial, StoreAssumption
  <1>3. StoreInv /\ Saved /\ [Next]_vars => StoreInv' /\ Saved'
    BY StoreStep, SavedStep, StoreAssumption
  <1> QED BY <1>1, <1>2, <1>3, PTL DEF Spec, SaveLasts

------------------------------------------------------------------------------
(* The Lua state the stored chunks are loaded into is replaced by the client. *)
(* What follows is about LuaSwap, which shares no variable with the store.    *)

\* The numbers the argument is about.
Counters == /\ markerLeft \in Nat /\ tornLeft \in 0 .. TornTicks
            /\ missingSeen \in Nat

\* A state the marker was missed on while it is torn down has its next look after
\* the tear-down.
LookIsLater == /\ lost => torn
               /\ lost /\ missingSeen > 0 => markerLeft > tornLeft

MarkerInv == Counters /\ LookIsLater

\* The steps that touch none of it.
LEMMA MarkerAlone ==
    ASSUME MarkerInv, UNCHANGED <<torn, lost, tornLeft, marker>>
    PROVE  MarkerInv'
BY DEF MarkerInv, Counters, LookIsLater, marker

\* A look starts the clock of the next, which is longer than any tear-down.
LEMMA LookKeepsInv ==
    ASSUME MarkerInv, LookForMarker, UNCHANGED <<torn, lost, tornLeft>>
    PROVE  MarkerInv'
<1>. USE LuaSwapAssumption DEF LuaSwapAssumption, MarkerInv, Counters, LookIsLater
<1>1. CASE markerLeft > 0
  BY <1>1 DEF LookForMarker, marker
<1>2. CASE ~(markerLeft > 0)
  <2>1. /\ markerLeft' = MarkerTicks
        /\ missingSeen' \in {0, 1}
    BY <1>2 DEF LookForMarker
  <2>2. MarkerTicks > tornLeft'
    OBVIOUS
  <2>. QED
    BY <2>1, <2>2
<1>. QED
  BY <1>1, <1>2

LEMMA MarkerInductive ==
    ASSUME MarkerInv, [SwapNext]_swapVars
    PROVE  MarkerInv'
<1>. USE LuaSwapAssumption DEF LuaSwapAssumption
<1>1. CASE UNCHANGED swapVars
  BY <1>1, MarkerAlone DEF swapVars, client, marker
<1>2. ASSUME NEW a \in Addresses, NewState(a)
      PROVE  MarkerInv'
  BY <1>2 DEF NewState, MarkerInv, Counters, LookIsLater, marker
<1>3. CASE TearDown
  <2>. USE DEF TearDown, MarkerInv, Counters, LookIsLater, marker
  <2>1. TornTicks \in Nat /\ missingSeen \in Nat
    OBVIOUS
  <2>2. Counters' /\ (lost' => torn')
    BY <1>3, <2>1
  <2>3. lost' => missingSeen' = 0
    BY <1>3
  <2>. QED
    BY <2>1, <2>2, <2>3
<1>4. CASE FrameScriptExecute
  BY <1>4, MarkerAlone DEF FrameScriptExecute, client, marker
<1>5. CASE Tick
  <2>. USE DEF MarkerInv, Counters, LookIsLater
  <2>1. UNCHANGED <<torn, lost, missingSeen>>
    BY <1>5 DEF Tick
  <2>2. /\ markerLeft' = Down(markerLeft) /\ markerLeft' \in Nat
        /\ tornLeft' = Down(tornLeft) /\ tornLeft' \in 0 .. TornTicks
    BY <1>5 DEF Tick, Down
  <2>3. ASSUME lost, missingSeen > 0
        PROVE  markerLeft' > tornLeft'
    <3>1. markerLeft > tornLeft /\ tornLeft > 0
      BY <1>5, <2>3 DEF Tick
    <3>. QED
      BY <2>2, <3>1 DEF Down
  <2>. QED
    BY <2>1, <2>2, <2>3
<1>6. CASE FirstInit \/ FirstInitTooEarly \/ Detect \/ Settling \/ TakeOver
  <2>1. UNCHANGED <<torn, lost, tornLeft, marker>>
    BY <1>6 DEF FirstInit, FirstInitTooEarly, Detect, Settling, TakeOver, client
  <2>. QED
    BY <2>1, MarkerAlone
<1>7. CASE Steady
  <2>1. LookForMarker /\ UNCHANGED <<torn, lost, tornLeft>>
    BY <1>7 DEF Steady, client
  <2>. QED
    BY <2>1, LookKeepsInv
<1>. QED
  BY <1>1, <1>2, <1>3, <1>4, <1>5, <1>6, <1>7 DEF SwapNext, Sleep

\* Only a second look in a row, or a new pointer, has the markers injected again.
LEMMA InjectedAgain ==
    ASSUME MarkerInv, [SwapNext]_swapVars, injected, ~injected', addr = apiL
    PROVE  ~lost
<1>1. ASSUME lost
      PROVE  UNCHANGED injected
  <2>1. CASE UNCHANGED swapVars \/ TearDown \/ Tick \/ \E a \in Addresses : NewState(a)
    BY <2>1 DEF swapVars, inject, TearDown, Tick, NewState
  <2>2. CASE FrameScriptExecute \/ FirstInit \/ FirstInitTooEarly \/ Settling \/ TakeOver
    BY <2>2 DEF FrameScriptExecute, FirstInit, FirstInitTooEarly, Settling, TakeOver, inject
  <2>3. CASE Detect
    BY <2>3 DEF Detect
  <2>4. CASE Steady
    <3>1. LookForMarker
      BY <2>4 DEF Steady
    <3>2. CASE markerLeft > 0
      BY <3>1, <3>2 DEF LookForMarker, inject
    <3>3. CASE ~(markerLeft > 0)
      <4>1. ~(missingSeen > 0)
        BY <1>1, <3>3 DEF MarkerInv, Counters, LookIsLater
      <4>2. ~Rebuilt(~swapping /\ ~loaded)
        BY <4>1 DEF Rebuilt, MarkerInv, Counters
      <4>. QED
        BY <3>1, <3>3, <4>2 DEF LookForMarker, inject
    <3>. QED
      BY <3>2, <3>3
  <2>. QED
    BY <2>1, <2>2, <2>3, <2>4 DEF SwapNext, Sleep
<1>. QED
  BY <1>1

\* A state is never taken for rebuilt because it is being torn down, for every
\* pause between the looks that is longer than a tear-down (LookForMarker).
THEOREM RebuiltCorrect == SwapSpec => NoFalseRebuild
<1>1. SwapInit => MarkerInv
  BY LuaSwapAssumption DEF LuaSwapAssumption, SwapInit, MarkerInv, Counters, LookIsLater
<1>2. MarkerInv /\ [SwapNext]_swapVars => MarkerInv'
  BY MarkerInductive
<1>3. MarkerInv /\ [SwapNext]_swapVars
        => [(injected /\ ~injected' /\ addr = apiL) => ~lost]_swapVars
  BY InjectedAgain
<1>. QED
  BY <1>1, <1>2, <1>3, PTL DEF SwapSpec, NoFalseRebuild
=============================================================================
