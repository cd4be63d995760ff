------------------------------ MODULE WriteBatch ------------------------------
(***************************************************************************)
(* The write batcher (client_write_batch.cpp) and the hooks that call it:  *)
(* small writes of the client gather in one buffer that belongs to one     *)
(* file at a time, and go out before anything else touches that file.      *)
(*                                                                         *)
(* A write is one unit and carries its number.  What WriteFile was given   *)
(* for a file since it was opened is "disk", what the client wrote and was *)
(* told had succeeded is "handed".  A step is what runs under the lock, or *)
(* what a thread does before or after it: the look TryAbsorb takes at      *)
(* g_dead, and one call of the client's own functions.  A file is used by  *)
(* the thread that opened it.                                              *)
(***************************************************************************)
EXTENDS Integers, Sequences

CONSTANTS Files, None,
          BufMax,       \* kBufBytes, in small writes
          MaxWrites,    \* bound: writes in all
          Scenarios     \* the threads and events an instance looks at

\* "flushfail": a flush writes less than it was given; "clientfail": a write of
\* the client's own fails; "exit": the process ends.
Events == {"flushfail", "clientfail", "exit"}

ASSUME BatchAssumption ==
    /\ BufMax \in Nat \ {0} /\ MaxWrites \in Nat
    /\ None \notin Files
    /\ \A s \in Scenarios : None \notin s.threads /\ s.allowed \subseteq Events

VARIABLES
    scenario,   \* chosen once
    dead, owner, verify, ownerBytes,    \* g_dead, g_owner (and g_handle), ...
    held,       \* g_buf
    user,       \* the thread that has a file open
    pc,         \* what each thread is doing, and with which file
    due,        \* what OnClosing took along: [expect, verify]
    writes,     \* writes so far
    handed, disk,
    since,      \* writes that reached a file since its last seek
    lost,       \* ghost: files a flush lost bytes of
    late,       \* ghost: open files the batcher took a write of once it was dead
    blamed,     \* ghost: OnClosing reported lost bytes
    exited      \* the process is gone

batch == <<dead, owner, verify, ownerBytes, held>>
files == <<handed, disk, since>>
vars == <<scenario, batch, user, pc, due, writes, files, lost, late, blamed, exited>>

Threads == scenario.threads
Allowed == scenario.allowed

Idle == [at |-> "idle", file |-> None, id |-> 0]
NoDue == [expect |-> 0, verify |-> FALSE]

\* Where a thread may be, on the way with a file.
Ats == {"small", "large", "write", "read", "seek", "sync", "check", "close"}
Calls == [at : Ats, file : Files, id : Nat]

\* The types of the buffer, of the threads, of the files and of the two flags.
BufferTypes ==
    /\ dead \in BOOLEAN /\ owner \in Files \cup {None} /\ verify \in BOOLEAN
    /\ ownerBytes \in Nat /\ writes \in Nat
    /\ held \in Seq(Nat)

ThreadTypes ==
    /\ scenario \in Scenarios
    /\ user \in [Files -> Threads \cup {None}]
    /\ pc \in [Threads -> Calls \cup {Idle}]
    /\ due \in [Threads -> [expect : Nat, verify : BOOLEAN]]

FileTypes ==
    /\ handed \in [Files -> Seq(Nat)] /\ disk \in [Files -> Seq(Nat)]
    /\ since \in [Files -> Nat] /\ lost \subseteq Files /\ late \subseteq Files

FlagTypes == blamed \in BOOLEAN /\ exited \in BOOLEAN

TypeOK == BufferTypes /\ ThreadTypes /\ FileTypes /\ FlagTypes

Init ==
    /\ scenario \in Scenarios
    /\ dead = FALSE /\ owner = None /\ verify = TRUE /\ ownerBytes = 0 /\ held = <<>>
    /\ user = [f \in Files |-> None]
    /\ pc = [t \in Threads |-> Idle] /\ due = [t \in Threads |-> NoDue]
    /\ writes = 0
    /\ handed = [f \in Files |-> <<>>] /\ disk = [f \in Files |-> <<>>]
    /\ since = [f \in Files |-> 0]
    /\ lost = {} /\ late = {} /\ blamed = FALSE /\ exited = FALSE

Uses(t, f) == ~exited /\ pc[t] = Idle /\ user[f] = t
Go(t, at, f) == pc' = [pc EXCEPT ![t] = [at |-> at, file |-> f, id |-> 0]]
GoWrite(t, at, f, id) == pc' = [pc EXCEPT ![t] = [at |-> at, file |-> f, id |-> id]]
At(t, at) == ~exited /\ pc[t].at = at

------------------------------------------------------------------------------
(* The buffer, under the lock. *)

\* How much of the buffer a flush gets into the file.
Outcomes == IF "flushfail" \in Allowed THEN 0 .. Len(held) ELSE {Len(held)}

\* FlushLocked, with n of the bytes written: the buffer is empty afterwards and
\* what did not reach the file is gone.
FlushLocked(n) ==
    LET moved == SubSeq(held, 1, n)
    IN  IF owner = None \/ held = <<>> THEN UNCHANGED <<disk, since, lost>>
        ELSE /\ disk' = [disk EXCEPT ![owner] = @ \o moved]
             /\ since' = [since EXCEPT ![owner] = @ + n]
             /\ lost' = IF n < Len(held) THEN lost \cup {owner} ELSE lost
Flushes(n) == n = Len(held)
NoFlush == UNCHANGED <<disk, since, lost>>

DropOwner == owner' = None /\ verify' = TRUE /\ ownerBytes' = 0

------------------------------------------------------------------------------
(* Writes: TryAbsorb, and the client's own write when it declines. *)

\* Before the lock: once dead, every write is the client's own.  Otherwise the
\* write is small, or it is large or overlapped, and waits for the lock.
TryAbsorb(t, f) ==
    /\ Uses(t, f) /\ writes < MaxWrites
    /\ writes' = writes + 1
    /\ \E at \in IF dead THEN {"write"} ELSE {"small", "large"} : GoWrite(t, at, f, writes')
    /\ UNCHANGED <<scenario, batch, user, due, files, lost, late, blamed, exited>>

Full == Len(held) = BufMax

\* The write counts as done, whether or not the batcher has died meanwhile.
Take(t) ==
    LET f == pc[t].file
    IN  /\ handed' = [handed EXCEPT ![f] = Append(@, pc[t].id)]
        /\ late' = IF dead THEN late \cup {f} ELSE late
        /\ pc' = [pc EXCEPT ![t] = Idle]
        /\ UNCHANGED dead

\* A small write, under the lock: it is taken into the buffer, after a flush when
\* the buffer is another file's or full.
Absorb(t) ==
    /\ At(t, "small")
    /\ LET f == pc[t].file
       IN  \E n \in Outcomes :
             \/ /\ owner = f /\ ~Full /\ n = Len(held)
                /\ Take(t)
                /\ held' = Append(held, pc[t].id)
                /\ ownerBytes' = ownerBytes + 1
                /\ NoFlush
                /\ UNCHANGED <<owner, verify>>
             \/ /\ owner # f \/ Full
                /\ FlushLocked(n) /\ Flushes(n)
                /\ Take(t)
                /\ held' = <<pc[t].id>>
                /\ owner' = f
                /\ verify' = (owner = f => verify)
                /\ ownerBytes' = (IF owner = f THEN ownerBytes ELSE 0) + 1
             \/ /\ owner # f \/ Full
                /\ FlushLocked(n) /\ ~Flushes(n)
                /\ dead' = TRUE /\ held' = <<>>
                /\ GoWrite(t, "write", f, pc[t].id)
                /\ UNCHANGED <<owner, verify, ownerBytes, handed, late>>
    /\ UNCHANGED <<scenario, user, due, writes, blamed, exited>>

\* Mutant: a large write goes to the file past the bytes held for it.
PassFlushNot(n) == UNCHANGED <<dead, ownerBytes, held>> /\ NoFlush

\* A large or overlapped write of the buffered file flushes it and is counted.
PassFlush(n) == /\ FlushLocked(n)
                /\ held' = <<>>
                /\ dead' = (dead \/ ~Flushes(n))
                /\ ownerBytes' = ownerBytes + 1

\* A large or overlapped write, under the lock.
Pass(t) ==
    /\ At(t, "large")
    /\ GoWrite(t, "write", pc[t].file, pc[t].id)
    /\ \E n \in Outcomes :
         IF owner = pc[t].file
         THEN PassFlush(n)
         ELSE n = Len(held) /\ NoFlush /\ UNCHANGED <<dead, held, ownerBytes>>
    /\ UNCHANGED <<scenario, owner, verify, user, due, writes, handed, late, blamed, exited>>

\* orig_ClientWrite
ClientWrite(t) ==
    /\ At(t, "write")
    /\ LET f == pc[t].file
       IN  \/ /\ handed' = [handed EXCEPT ![f] = Append(@, pc[t].id)]
              /\ disk' = [disk EXCEPT ![f] = Append(@, pc[t].id)]
              /\ since' = [since EXCEPT ![f] = @ + 1]
           \/ "clientfail" \in Allowed /\ UNCHANGED files
    /\ pc' = [pc EXCEPT ![t] = Idle]
    /\ UNCHANGED <<scenario, batch, user, due, writes, lost, late, blamed, exited>>

------------------------------------------------------------------------------
(* Everything else the client does with a file. *)

Open(t, f) ==
    /\ ~exited /\ pc[t] = Idle /\ user[f] = None
    /\ user' = [user EXCEPT ![f] = t]
    /\ handed' = [handed EXCEPT ![f] = <<>>]
    /\ disk' = [disk EXCEPT ![f] = <<>>]
    /\ since' = [since EXCEPT ![f] = 0]
    /\ late' = late \ {f}
    /\ UNCHANGED <<scenario, batch, pc, due, writes, lost, blamed, exited>>

\* Mutant: the bytes held stay held.
FlushOwnerNot(n) == UNCHANGED <<dead, held>> /\ NoFlush

FlushOwner(n) == FlushLocked(n) /\ held' = <<>> /\ dead' = (dead \/ ~Flushes(n))

\* Mutant: a read or a seek leaves the size check on.
StillVerified(op) == verify

\* Whether the size check stays on (stopVerifying).
Verified(op) == verify /\ op = "sync"

\* FlushHandle ahead of ReadFile, SetFilePointer and FlushFileBuffers: the
\* first two also end the size check.
FlushHandle(t, f, op) ==
    /\ Uses(t, f)
    /\ Go(t, op, f)
    /\ \E n \in Outcomes :
         IF owner = f
         THEN FlushOwner(n) /\ verify' = Verified(op)
         ELSE n = Len(held) /\ NoFlush /\ UNCHANGED <<dead, held, verify>>
    /\ UNCHANGED <<scenario, owner, ownerBytes, user, due, writes, handed, late, blamed, exited>>

\* The call itself.  A seek takes the position back, and a read may.
Operate(t) ==
    /\ At(t, "read") \/ At(t, "seek") \/ At(t, "sync")
    /\ since' = IF pc[t].at = "sync" THEN since ELSE [since EXCEPT ![pc[t].file] = 0]
    /\ pc' = [pc EXCEPT ![t] = Idle]
    /\ UNCHANGED <<scenario, batch, user, due, writes, handed, disk, lost, late, blamed, exited>>

\* OnClosing of the buffered file, under the lock.
ReleaseOwned(t, n) == /\ FlushOwner(n)
                      /\ due' = [due EXCEPT ![t] = [expect |-> ownerBytes,
                                                    verify |-> verify /\ ~dead']]
                      /\ DropOwner

OnClosing(t, f) ==
    /\ Uses(t, f)
    /\ \E n \in Outcomes :
         IF owner = f
         THEN ReleaseOwned(t, n) /\ Go(t, "check", f)
         ELSE /\ n = Len(held) /\ NoFlush
              /\ Go(t, "close", f)
              /\ UNCHANGED <<dead, held, owner, verify, ownerBytes, due>>
    /\ UNCHANGED <<scenario, user, writes, handed, late, blamed, exited>>

\* The size check, after the lock: the file is at least as long as what went
\* into it since the last seek, and longer when there was something before.
Check(t) ==
    /\ At(t, "check")
    /\ \E size \in {since[pc[t].file], since[pc[t].file] + 1} :
         LET missing == due[t].verify /\ size < due[t].expect
         IN  dead' = (dead \/ missing) /\ blamed' = (blamed \/ missing)
    /\ due' = [due EXCEPT ![t] = NoDue]
    /\ Go(t, "close", pc[t].file)
    /\ UNCHANGED <<scenario, owner, verify, ownerBytes, held, user, writes, files, lost, late,
                   exited>>

\* orig_CloseHandle
Close(t) ==
    /\ At(t, "close")
    /\ user' = [user EXCEPT ![pc[t].file] = None]
    /\ pc' = [pc EXCEPT ![t] = Idle]
    /\ UNCHANGED <<scenario, batch, due, writes, files, lost, late, blamed, exited>>

\* The module is unloaded: FlushAll.
Unload == /\ "exit" \in Allowed /\ ~exited
          /\ exited' = TRUE
          /\ \E n \in Outcomes : FlushOwner(n)
          /\ UNCHANGED <<scenario, owner, verify, ownerBytes, user, pc, due, writes, handed,
                         late, blamed>>

\* The process ends: DllMain returns before it comes to FlushAll.
Exit == /\ "exit" \in Allowed /\ ~exited
        /\ exited' = TRUE
        /\ UNCHANGED <<scenario, batch, user, pc, due, writes, files, lost, late, blamed>>

------------------------------------------------------------------------------

Next == \/ \E t \in Threads, f \in Files :
             \/ Open(t, f) \/ TryAbsorb(t, f) \/ OnClosing(t, f)
             \/ \E op \in {"read", "seek", "sync"} : FlushHandle(t, f, op)
        \/ \E t \in Threads : \/ Absorb(t) \/ Pass(t) \/ ClientWrite(t)
                           \/ Operate(t) \/ Check(t) \/ Close(t)
        \/ Unload \/ Exit

Spec == Init /\ [][Next]_vars

------------------------------------------------------------------------------

\* A file is given the client's writes in the order the client made them: those
\* it has, followed by those still held.  A flush that falls short, at whichever of
\* its call sites, retires the batcher (FlushLocked).  It still takes a write whose
\* thread had looked at g_dead before that (TryAbsorb), and the order holds for
\* every file but those: they exist only where a flush did fall short and two
\* threads write.  Nothing is held for a file that is closed (OnClosing).
InOrder ==
    /\ \A f \in Files \ (lost \cup late) : user[f] # None =>
         handed[f] = disk[f] \o (IF owner = f THEN held ELSE <<>>)
    /\ lost # {} => dead
    /\ late # {} => lost # {} /\ \E t, u \in Threads : t # u
    /\ owner = None => held = <<>>
    /\ \A f \in Files : user[f] = None => owner # f

\* A read, a seek and a FlushFileBuffers find every earlier write in the file
\* (FlushHandle), with the same exceptions.
CallsSeeWrites ==
    \A t \in Threads :
        /\ pc[t].at \in {"read", "seek", "sync", "check"}
        /\ pc[t].file \notin lost \cup late
        => disk[pc[t].file] = handed[pc[t].file]

\* "Once a flush has failed", to continue to buffer "would only add to the damage":
\* a batcher that is dead takes no write (FlushLocked, TryAbsorb).
RetiredTakesNone == late = {}

\* "the write batcher lost bytes on %s and retired itself" is only said of a
\* file it did lose bytes of: seeks, reads and other files in between do not
\* make the size check fail, as long as the client's own writes succeed
\* (OnClosing).
BlamesItselfRightly == blamed /\ "clientfail" \notin Allowed => lost # {}

\* "Flushed from every exit": nothing is held once the process is gone
\* (FlushAll, DllMain).
NoTailAtExit == exited => held = <<>>
=============================================================================
