---------------------------- MODULE BytecodeStore ----------------------------
(* The compiled Lua chunks kept on disk from one session to the next,         *)
(* runtime_vm/lua_bytecode_store.cpp, with what lua_proto_cache.cpp and       *)
(* lua_undump.cpp do around it.                                               *)
(*                                                                            *)
(* bytecode.bin holds the dumps back to back; bytecode.idx says how far they  *)
(* are vouched for and where each one is.  The client is killed, not closed:  *)
(* a session ends at any step (Kill; what was written stays in the system's   *)
(* cache) or the machine loses power (PowerLoss; what was not flushed may be  *)
(* lost, in any part).  A change of a file's length is taken to last, in      *)
(* order, as the journal of NTFS keeps it.                                    *)
(*                                                                            *)
(* A byte of a dump is a cell that says whose it is.  Left out: the taint of  *)
(* a chunk, which only keeps it from the store, and the thirty seconds        *)
(* between two saves.                                                         *)
EXTENDS Integers, FiniteSets, Sequences

CONSTANTS Chunks,        \* sources with their names
          Key,           \* the first hash of each, by which the index is kept
          Size,          \* cells its dump takes
          Misbuilt,      \* chunks the undumper rebuilds otherwise than the parser
          Builds,        \* what a header names: this DLL's version and Wow.exe's stamp
          MayFail,       \* calls that may fail: see Outcomes
          MaxEntries,    \* kMaxEntries
          MaxFileBytes,  \* kMaxFileBytes, after the header
          ProveFirst     \* kProveFirst

NoBuild == "none"

ASSUME StoreAssumption ==
  /\ NoBuild \notin Builds
  /\ Size \in [Chunks -> Nat \ {0}] /\ DOMAIN Key = Chunks
  /\ MayFail \subseteq {"fresh", "lua", "blob", "read", "build", "revoke", "index"}
  /\ MaxEntries \in Nat /\ MaxFileBytes \in Nat /\ ProveFirst \in Nat

VARIABLES pc,          \* where the session is, "off" between two
          build,       \* what the headers of this session name
          bin, idx,    \* the files, as the system shows them
          binFlushed,  \* of bin: 0 nothing, n the header and n - 1 cells are on the disk
          idxFlushed,  \* all of idx is
          index,       \* g_index: which dumps are where
          appendAt,    \* g_appendAt
          luaKnown,    \* g_luaHeaderKnown
          dirty,       \* g_dirty
          dead,        \* g_dead: "no", or why: "io", or "wrong", a Proto unlike the parse's
          retired,     \* g_dead of the undumper
          trust        \* g_hits + g_proved, as far as ProveFirst

files  == <<bin, idx, binFlushed, idxFlushed>>
memory == <<index, appendAt, luaKnown, dirty, dead, retired, trust>>
vars   == <<pc, build, files, memory>>

Junk    == <<>>
NoHead  == [build |-> NoBuild, lua |-> FALSE]
NoIndex == [head |-> NoHead, valid |-> 0, count |-> 0, recs |-> {}]

Cells   == {Junk} \cup (Chunks \X Builds \X Nat)
Heads   == [build : Builds \cup {NoBuild}, lua : BOOLEAN]
Entries == [chunk : Chunks, at : Nat]

(* Whether a call succeeds. *)
Outcomes(call) == IF call \in MayFail THEN BOOLEAN ELSE {TRUE}

-----------------------------------------------------------------------------
(* LoadIndex: whether the two files are a pair this build can use. *)
Loads(b, i, n) ==
  /\ i.head.build = n /\ b.head.build = n /\ i.head.lua = b.head.lua
  /\ Cardinality(i.recs) = i.count /\ i.count <= MaxEntries
  /\ i.valid <= MaxFileBytes /\ i.valid <= Len(b.cells)
  /\ \A r \in i.recs : r.at + Size[r.chunk] <= i.valid

(* WriteAt on the blob file. *)
WriteAt(cells, at, blob) ==
  LET end == at + Len(blob)
  IN [i \in 1..(IF end > Len(cells) THEN end ELSE Len(cells)) |->
        IF i \in (at + 1)..end THEN blob[i - at] ELSE cells[i]]

(* The first n cells of what lua_dump writes for c. *)
Dump(c, n) == [i \in 1..n |-> <<c, build, i>>]

(* What the loss of power may leave of a file. *)
BinAfter ==
  {[head |-> h, cells |-> [i \in 1..Len(bin.cells) |-> IF i \in lost THEN Junk ELSE bin.cells[i]]] :
     h \in {bin.head} \cup (IF binFlushed = 0 THEN {NoHead} ELSE {}),
     lost \in SUBSET {i \in 1..Len(bin.cells) : i >= binFlushed}}
IdxAfter ==
  IF idxFlushed THEN {idx}
  ELSE {[head |-> h, valid |-> idx.valid, count |-> idx.count, recs |-> r] :
          h \in {idx.head, NoHead}, r \in SUBSET idx.recs}

-----------------------------------------------------------------------------
Forget ==   \* the process is gone
  /\ pc' = "off"
  /\ index' = {} /\ appendAt' = 0 /\ luaKnown' = FALSE /\ dirty' = FALSE
  /\ dead' = "no" /\ retired' = FALSE /\ trust' = 0
  /\ UNCHANGED build

Kill == pc # "off" /\ Forget /\ UNCHANGED files

PowerLoss ==
  /\ pc # "off" /\ Forget
  /\ bin' \in BinAfter /\ idx' \in IdxAfter
  /\ binFlushed' = Len(bin.cells) + 1 /\ idxFlushed' = TRUE

(* Init of the store, with LoadIndex; the client may have been patched. *)
StartLoaded(n) ==
  /\ pc = "off" /\ Loads(bin, idx, n)
  /\ pc' = "run" /\ build' = n
  /\ index' = idx.recs /\ appendAt' = idx.valid /\ luaKnown' = idx.head.lua
  /\ UNCHANGED <<files, dirty, dead, retired, trust>>

(* StartFresh, write by write; none of them is looked at. *)
StartFresh(n) ==
  /\ pc = "off" /\ ~Loads(bin, idx, n)
  /\ pc' = "headBin" /\ build' = n
  /\ bin' = [head |-> NoHead, cells |-> <<>>] /\ binFlushed' = 0
  /\ UNCHANGED <<idx, idxFlushed, memory>>
FreshBin ==
  /\ pc = "headBin" /\ pc' = "cutIdx"
  /\ \E ok \in Outcomes("fresh") : bin' = IF ok THEN [bin EXCEPT !.head.build = build] ELSE bin
  /\ UNCHANGED <<build, idx, binFlushed, idxFlushed, memory>>
CutIdx(from, to) ==   \* Truncate(g_idx)
  /\ pc = from /\ pc' = to
  /\ idx' = NoIndex /\ idxFlushed' = FALSE
  /\ UNCHANGED <<build, bin, binFlushed, memory>>
FreshIdx ==
  /\ pc = "headIdx" /\ pc' = "run"
  /\ \E ok \in Outcomes("fresh") : idx' = IF ok THEN [idx EXCEPT !.head.build = build] ELSE idx
  /\ UNCHANGED <<build, bin, binFlushed, idxFlushed, memory>>

-----------------------------------------------------------------------------
(* Capture of a chunk the client has just compiled.  The first dump of a      *)
(* store fixes the header of the client's dumps, in a write not looked at.    *)
Room   == Cardinality(index) < MaxEntries /\ appendAt < MaxFileBytes
New(c) == \A e \in index : Key[e.chunk] # Key[c]

Capture(c) ==
  /\ pc = "run" /\ dead = "no" /\ New(c) /\ Room
  /\ luaKnown' = TRUE
  /\ \E lua \in Outcomes("lua"), ok \in Outcomes("blob"), put \in 0..Size[c] :
       /\ ok => put = Size[c]
       /\ bin' = [head  |-> IF luaKnown \/ ~lua THEN bin.head ELSE [bin.head EXCEPT !.lua = TRUE],
                  cells |-> WriteAt(bin.cells, appendAt, Dump(c, put))]
       /\ index' = IF ok THEN index \cup {[chunk |-> c, at |-> appendAt]} ELSE index
       /\ appendAt' = IF ok THEN appendAt + Size[c] ELSE appendAt
       /\ dirty' = (dirty \/ ok)
  /\ binFlushed' = IF ~luaKnown THEN 0
                   ELSE IF binFlushed > appendAt + 1 THEN appendAt + 1 ELSE binFlushed
  /\ UNCHANGED <<pc, build, idx, idxFlushed, dead, retired, trust>>

(* Lookup of a chunk the store has, and what comes of it: the read fails, the *)
(* undumper faults, or the Proto is built.  Not proved, it is used and counts *)
(* as a hit; proved, the parser makes its own and Confirm compares.           *)
Found(c) ==
  /\ pc = "run" /\ dead = "no" /\ ~retired
  /\ \E e \in index : e.chunk = c /\ e.at + Size[c] <= appendAt

ReadFails(c) ==
  /\ Found(c) /\ "read" \in MayFail /\ dead' = "io"
  /\ UNCHANGED <<pc, build, files, index, appendAt, luaKnown, dirty, retired, trust>>
BuildFaults(c) ==
  /\ Found(c) /\ "build" \in MayFail /\ retired' = TRUE
  /\ UNCHANGED <<pc, build, files, index, appendAt, luaKnown, dirty, dead, trust>>
Agrees(c) ==
  /\ Found(c) /\ c \notin Misbuilt /\ trust < ProveFirst /\ trust' = trust + 1
  /\ UNCHANGED <<pc, build, files, index, appendAt, luaKnown, dirty, dead, retired>>
Disagrees(c) ==   \* among the first, or resampled later
  /\ Found(c) /\ c \in Misbuilt /\ dead' = "wrong" /\ retired' = TRUE
  /\ \E ok \in Outcomes("revoke") : idx' = IF ok THEN [idx EXCEPT !.head.build = NoBuild] ELSE idx
  /\ idxFlushed' = TRUE
  /\ UNCHANGED <<pc, build, bin, binFlushed, index, appendAt, luaKnown, dirty, trust>>

-----------------------------------------------------------------------------
\* Mutant: the blob file is not flushed before the index names it.
SaveFlushNot ==
  /\ pc = "run" /\ dead = "no" /\ dirty
  /\ pc' = "cut"
  /\ UNCHANGED <<build, files, memory>>

\* Mutant: a store found wrong is saved all the same.
SaveDead ==
  /\ pc = "run" /\ dirty
  /\ pc' = "cut" /\ binFlushed' = Len(bin.cells) + 1
  /\ UNCHANGED <<build, bin, idx, idxFlushed, memory>>

(* SaveIfDirty: the blob file flushed, the index cut, written and flushed. *)
SaveFlush ==
  /\ pc = "run" /\ dead = "no" /\ dirty
  /\ pc' = "cut" /\ binFlushed' = Len(bin.cells) + 1
  /\ UNCHANGED <<build, bin, idx, idxFlushed, memory>>

IndexFails ==   \* writing the records or the header of the index
  /\ pc \in {"recs", "head"} /\ "index" \in MayFail
  /\ pc' = "run" /\ dead' = "io"
  /\ UNCHANGED <<build, files, index, appendAt, luaKnown, dirty, retired, trust>>
SaveRecs ==
  /\ pc = "recs" /\ pc' = "head" /\ idx' = [idx EXCEPT !.recs = index]
  /\ UNCHANGED <<build, bin, binFlushed, idxFlushed, memory>>
SaveHead ==
  /\ pc = "head" /\ pc' = "sync"
  /\ idx' = [head |-> [build |-> build, lua |-> luaKnown], valid |-> appendAt,
             count |-> Cardinality(index), recs |-> idx.recs]
  /\ UNCHANGED <<build, bin, binFlushed, idxFlushed, memory>>
SaveSync ==
  /\ pc = "sync" /\ pc' = "run" /\ idxFlushed' = TRUE /\ dirty' = FALSE
  /\ UNCHANGED <<build, bin, idx, binFlushed, index, appendAt, luaKnown, dead, retired, trust>>

-----------------------------------------------------------------------------
Init ==
  /\ pc = "off" /\ build \in Builds
  /\ bin = [head |-> NoHead, cells |-> <<>>] /\ idx = NoIndex
  /\ binFlushed = 1 /\ idxFlushed = TRUE
  /\ index = {} /\ appendAt = 0 /\ luaKnown = FALSE /\ dirty = FALSE
  /\ dead = "no" /\ retired = FALSE /\ trust = 0

Next ==
  \/ Kill \/ PowerLoss
  \/ \E n \in Builds : StartLoaded(n) \/ StartFresh(n)
  \/ FreshBin \/ CutIdx("cutIdx", "headIdx") \/ FreshIdx
  \/ \E c \in Chunks : Capture(c) \/ ReadFails(c) \/ BuildFaults(c) \/ Agrees(c) \/ Disagrees(c)
  \/ SaveFlush \/ CutIdx("cut", "recs") \/ SaveRecs \/ SaveHead \/ SaveSync \/ IndexFails

Spec == Init /\ [][Next]_vars

-----------------------------------------------------------------------------
TypeOK ==
  /\ pc \in {"off", "headBin", "cutIdx", "headIdx", "run", "cut", "recs", "head", "sync"}
  /\ build \in Builds
  /\ bin \in [head : Heads, cells : Seq(Cells)] /\ binFlushed \in Nat
  /\ idx \in [head : Heads, valid : Nat, count : Nat, recs : SUBSET Entries]
  /\ idxFlushed \in BOOLEAN /\ IsFiniteSet(idx.recs)
  /\ index \subseteq Entries /\ IsFiniteSet(index)
  /\ appendAt \in Nat /\ luaKnown \in BOOLEAN /\ dirty \in BOOLEAN
  /\ dead \in {"no", "io", "wrong"} /\ retired \in BOOLEAN /\ trust \in 0..ProveFirst

(* Every dump the index names is in the blob file, whole, at its place and by *)
(* this build: what a lookup reads, and hands to the undumper, is the chunk   *)
(* asked for, whatever crashed before and whatever was lost.                  *)
IndexNamesDumps ==
  pc # "off" =>
    \A e \in index : /\ e.at + Size[e.chunk] <= Len(bin.cells)
                     /\ \A i \in 1..Size[e.chunk] : bin.cells[e.at + i] = <<e.chunk, build, i>>

(* What a session started now would load, and that a loss of power changes    *)
(* nothing in it.                                                             *)
Left(b, i) == IF Loads(b, i, build) THEN i.recs ELSE {}
Durable    == \A b \in BinAfter, i \in IdxAfter : Left(b, i) = Left(bin, idx)

(* A save that has ended is what the next session finds, after any crash, and *)
(* stays so until the next save begins, whatever is captured, fails or faults *)
(* in between; once a Proto was found wrong, the next session finds nothing.  *)
Lasts ==
  /\ (pc = "sync" /\ pc' = "run") =>
       (Durable' /\ Left(bin', idx') = IF dead = "wrong" THEN {} ELSE index)
  /\ (pc = "run" /\ pc' = "run" /\ Durable) =>
       (Durable' /\ Left(bin', idx') = IF dead' = "wrong" THEN {} ELSE Left(bin, idx))
SaveLasts == [][Lasts]_vars

(* What the comments promise of a kill: it "loses the captures made since the *)
(* last save and nothing else".  Not so during a save.                        *)
KillKeepsSaved ==
  [][(pc \in {"cut", "recs", "head"}) => Left(bin, idx) \subseteq Left(bin', idx')]_vars
=============================================================================
