-------------------------- MODULE ThreadOwnerProof --------------------------
(***************************************************************************)
(* One run at a time on one thread id, and what its agents keep in memory, *)
(* for any number of streams, agents, renames, deletions and failures.     *)
(***************************************************************************)
EXTENDS ThreadOwner, Lists

USE DEF store

Unfinished == {"new", "waiting", "running"}

\* A stream has an agent once it was asked for, and its title is for later.
Placed ==
  \A t \in Streams : /\ phase[t] = "none" <=> of[t] = 0
                     /\ sub[t] # "none" => phase[t] # "none"
                     /\ titling[t] # "none" => sub[t] \in {"ended", "gone"}

\* The lock of an agent is held by the run that advances it, whose state is
\* loaded.
HolderOk ==
  /\ \A t \in Streams : phase[t] = "running" => holder[of[t]] = t /\ mem[of[t]].loaded
  /\ \A o \in Owners : holder[o] # Nobody => phase[holder[o]] = "running" /\ of[holder[o]] = o

\* In the line of an agent's lock are the runs and titles that wait for it, each
\* of them once.
LineOk ==
  \A o \in Owners :
    /\ Distinct(queue[o])
    /\ \A t \in Streams :
         /\ Run(t) \in Range(queue[o]) <=> phase[t] = "waiting" /\ of[t] = o
         /\ Title(t) \in Range(queue[o]) <=> titling[t] = "waiting" /\ of[t] = o

\* The engine knows the last agent or none; before the first deletion there is
\* one agent at most.
RegistryOk ==
  /\ registered \in {0, created}
  /\ deletes = 0 => registered = created /\ created <= 1

\* Only agents that exist have state; before the first deletion a title is asked
\* for a conversation that is stored.
MemoryOk ==
  /\ disk.live \/ disk = NoRow
  /\ \A o \in Owners : mem[o].loaded => o <= created
  /\ deletes = 0 => \A t \in Streams : titling[t] \in {"asking", "waiting"} => disk.live

\* What the connection reads is the row of the file, but for a save that broke
\* off, which keeps the archive flag, and for an outdated snapshot, which
\* differs by what the handlers wrote.
StoreOk ==
  /\ conn.live \/ conn = NoRow
  /\ txn \in {"none", "read"} => conn = disk
  /\ txn = "write" => /\ disk.live => conn.live /\ conn.archived = disk.archived
                      /\ ~ broken => conn = disk
  /\ txn = "stale" /\ deletes = 0 =>
       /\ conn.live = disk.live /\ conn.rev = disk.rev
       /\ renames = 0 => conn.title = disk.title

\* The inductive invariant.
OwnerInv ==
  /\ TypeOK /\ Placed /\ RunsReachable /\ HolderOk /\ LineOk
  /\ RegistryOk /\ StoreOk /\ MemoryOk /\ MemoryCurrent

StoreTyped ==
  /\ disk \in Row /\ conn \in Row /\ broken \in BOOLEAN
  /\ txn \in {"none", "read", "stale", "write"}

-----------------------------------------------------------------------------
(***************************************************************************)
(* What a step does to the row and to the state of the agent it is about.  *)
(***************************************************************************)

\* What a run or a title works on is an agent that exists, and no stream.
LEMMA OwnerOfStream ==
  ASSUME OwnerInv, NEW t \in Streams, phase[t] # "none"
  PROVE  of[t] \in 1 .. created /\ of[t] \in Owners
<1>1. of[t] \in 0 .. created /\ of[t] # 0
  BY DEF OwnerInv, TypeOK, Placed
<1>2. created \in Nat /\ MaxOwners \in Nat /\ created <= MaxOwners
  BY OwnerAssumption DEF OwnerInv, TypeOK
<1> QED
  BY <1>1, <1>2 DEF Owners

\* What _load_state returns is a state.
LEMMA CurrentIsMemory ==
  ASSUME TypeOK, NEW o \in Owners
  PROVE  Current(o) \in Memory /\ Current(o).loaded
<1>1. mem[o] \in Memory /\ conn \in Row
  BY DEF TypeOK
<1> QED
  BY <1>1 DEF Current, Memory, Row, Titles

\* A save, whether it succeeds or fails, keeps what is said of the store, and a
\* row that is there.
LEMMA SaveKeepsStore ==
  ASSUME OwnerInv, NEW s \in Memory, Save(Stored(s)) \/ SaveFails(Stored(s)),
         UNCHANGED <<deletes, renames>>
  PROVE  /\ StoreTyped' /\ StoreOk' /\ (disk.live => disk'.live)
         /\ disk'.live \/ disk' = NoRow
         /\ disk' = disk \/ (disk' = Stored(s) /\ ~ broken')
         /\ broken => broken' \/ disk' = Stored(s)
<1>1. StoreTyped /\ StoreOk /\ (disk.live \/ disk = NoRow)
  BY DEF OwnerInv, TypeOK, StoreTyped, MemoryOk
<1>2. /\ Stored(s) \in Row /\ Stored(s).live
      /\ Stored(s).archived = (conn.live /\ conn.archived)
  BY <1>1 DEF Stored, Row, Memory, StoreTyped
<1>3. CASE Save(Stored(s))
  BY <1>1, <1>2, <1>3 DEF Save, StoreTyped, StoreOk
<1>4. CASE SaveFails(Stored(s))
  <2>1. CASE /\ txn' \in {txn} \cup IF txn = "none" THEN {"read"} ELSE {}
             /\ UNCHANGED <<disk, conn, broken>>
    BY <1>1, <2>1 DEF StoreTyped, StoreOk
  <2>2. CASE RollsBack
    BY <1>1, <2>2 DEF RollsBack, StoreTyped, StoreOk
  <2>3. CASE /\ txn # "stale" /\ conn' = Stored(s) /\ txn' = "write" /\ broken' = TRUE
             /\ UNCHANGED disk
    <3>1. disk.live => conn.live /\ conn.archived = disk.archived
      BY <1>1, <2>3 DEF StoreTyped, StoreOk
    <3>2. disk.archived \in BOOLEAN
      BY <1>1 DEF StoreTyped, Row
    <3> QED
      BY <1>1, <1>2, <2>3, <3>1, <3>2 DEF StoreTyped, StoreOk
  <2> QED
    BY <1>4, <2>1, <2>2, <2>3 DEF SaveFails
<1> QED
  BY <1>3, <1>4

\* A commit keeps what is said of the row and of the agents' states.
LEMMA CommitKeepsMemory ==
  ASSUME OwnerInv, NEW o \in Owners, o \in 1 .. created, NEW s \in Memory, s.loaded,
         Commit(o, s), UNCHANGED <<deletes, renames, created>>
  PROVE  /\ StoreTyped' /\ mem' \in [Owners -> Memory] /\ mem'[o].loaded
         /\ StoreOk' /\ MemoryOk' /\ MemoryCurrent'
<1> DEFINE m == [s EXCEPT !.rev = @ + 1]
<1>1. /\ m \in Memory /\ m.loaded /\ m.rev = s.rev + 1 /\ m.title = s.title
  BY DEF Memory
<1> HIDE DEF m
<1>2. /\ mem' = [mem EXCEPT ![o] = m] /\ mem \in [Owners -> Memory] /\ disk' = Stored(s)
      /\ Save(Stored(s))
  BY DEF Commit, Save, m, OwnerInv, TypeOK
<1>7. StoreTyped' /\ StoreOk'
  BY <1>2, SaveKeepsStore
<1>8. broken' = FALSE
  BY <1>2 DEF Save
<1>9. disk'.live /\ disk'.rev = m.rev /\ disk'.title = m.title
  BY <1>1, <1>2 DEF Stored
<1>3. /\ StoreTyped' /\ StoreOk' /\ broken' = FALSE
      /\ disk'.live /\ disk'.rev = m.rev /\ disk'.title = m.title
  BY <1>7, <1>8, <1>9
<1>4. deletes = 0 => \A p \in Owners : mem[p].loaded => p = o
  BY DEF OwnerInv, RegistryOk, MemoryOk, TypeOK, Owners
<1>10. /\ o <= created /\ created' = created /\ mem'[o].loaded
       /\ \A p \in Owners : p # o => mem'[p] = mem[p]
  BY <1>1, <1>2 DEF OwnerInv, TypeOK
<1>5. MemoryOk'
  BY <1>3, <1>10 DEF OwnerInv, MemoryOk
<1>6. MemoryCurrent'
  BY <1>1, <1>2, <1>3, <1>4 DEF MemoryCurrent
<1> QED
  BY <1>1, <1>2, <1>3, <1>5, <1>6

\* So does the discard of a state, whether or not its last commit was stored.
LEMMA DiscardKeepsMemory ==
  ASSUME OwnerInv, NEW o \in Owners, o \in 1 .. created, Discard(o),
         NEW s \in Memory, Save(Stored(s)) \/ SaveFails(Stored(s)),
         UNCHANGED <<deletes, renames, created, titling>>
  PROVE  /\ StoreTyped' /\ mem' \in [Owners -> Memory]
         /\ StoreOk' /\ MemoryOk' /\ MemoryCurrent'
<1>1. Unloaded \in Memory /\ ~ Unloaded.loaded
  BY DEF Unloaded, Memory, Titles
<1>2. mem' = [mem EXCEPT ![o] = Unloaded] /\ mem \in [Owners -> Memory]
  BY DEF Discard, OwnerInv, TypeOK
<1>4. StoreTyped' /\ StoreOk' /\ (disk.live => disk'.live) /\ (disk'.live \/ disk' = NoRow)
  BY SaveKeepsStore
<1>5. deletes = 0 => \A p \in Owners : mem[p].loaded => p = o
  BY DEF OwnerInv, RegistryOk, MemoryOk, TypeOK, Owners
<1>6. MemoryOk'
  BY <1>1, <1>2, <1>4 DEF OwnerInv, MemoryOk
<1>7. MemoryCurrent'
  BY <1>1, <1>2, <1>5 DEF MemoryCurrent
<1> QED
  BY <1>1, <1>2, <1>4, <1>6, <1>7

\* And the load of a row that is there, by what does not hold the lock as a run.
LEMMA LoadKeepsMemory ==
  ASSUME OwnerInv, NEW o \in Owners, o \in 1 .. created, deletes = 0 => disk.live,
         mem' = [mem EXCEPT ![o] = Current(o)],
         NEW s \in Memory, UNCHANGED store \/ SaveFails(Stored(s)),
         holder[o] = Nobody, UNCHANGED <<holder, deletes, renames, created>>
  PROVE  /\ StoreTyped' /\ mem' \in [Owners -> Memory] /\ mem'[o].loaded
         /\ StoreOk' /\ (disk.live => disk'.live) /\ (disk'.live \/ disk' = NoRow)
         /\ MemoryCurrent'
<1>1. Current(o) \in Memory /\ Current(o).loaded
  BY CurrentIsMemory DEF OwnerInv
<1>2. mem \in [Owners -> Memory] /\ StoreTyped /\ StoreOk
  BY DEF OwnerInv, TypeOK, StoreTyped
<1>3. /\ StoreTyped' /\ StoreOk' /\ disk' = disk /\ (broken => broken')
  <2>1. CASE UNCHANGED store
    BY <1>2, <2>1 DEF StoreTyped, StoreOk
  <2>2. CASE SaveFails(Stored(s))
    <3>1. disk' = disk /\ (broken => broken')
      BY <1>2, <2>2 DEF SaveFails, RollsBack
    <3> QED
      BY <2>2, <3>1, SaveKeepsStore
  <2> QED
    BY <2>1, <2>2
<1>4. deletes = 0 /\ ~ broken =>
        Current(o).rev = disk.rev /\ (renames = 0 => Current(o).title = disk.title)
  <2>1. CASE mem[o].loaded
    BY <2>1 DEF OwnerInv, MemoryCurrent, Current
  <2>2. CASE ~ mem[o].loaded
    <3>1. deletes = 0 /\ ~ broken =>
            conn.live /\ conn.rev = disk.rev /\ (renames = 0 => conn.title = disk.title)
      BY <1>2 DEF StoreTyped, StoreOk
    <3> QED
      BY <2>2, <3>1 DEF Current
  <2> QED
    BY <2>1, <2>2
<1>7. deletes = 0 => \A p \in Owners : mem[p].loaded => p = o
  BY DEF OwnerInv, RegistryOk, MemoryOk, TypeOK, Owners
<1>8. mem'[o] = Current(o) /\ \A p \in Owners : p # o => mem'[p] = mem[p]
  BY <1>2
<1>5. MemoryCurrent'
  BY <1>1, <1>3, <1>4, <1>7, <1>8 DEF MemoryCurrent
<1>6. disk.live \/ disk = NoRow
  BY DEF OwnerInv, MemoryOk
<1> QED
  BY <1>1, <1>2, <1>3, <1>5, <1>6

-----------------------------------------------------------------------------
(***************************************************************************)
(* The lock of one agent: its line, who enters and who leaves.             *)
(***************************************************************************)

Waiter == {"run", "title"} \X Streams

\* A run and a title are different waiters.
LEMMA Waiters ==
  /\ \A t \in Streams : Run(t) \in Waiter /\ Title(t) \in Waiter
  /\ \A t, u \in Streams : /\ Run(t) # Title(u)
                           /\ Run(t) = Run(u) => t = u
                           /\ Title(t) = Title(u) => t = u
BY DEF Waiter, Run, Title

\* A step that moves nobody into a line or out of one.
LEMMA LineUnmoved ==
  ASSUME OwnerInv, UNCHANGED <<queue, of>>,
         \A t \in Streams : /\ phase'[t] = "waiting" <=> phase[t] = "waiting"
                            /\ titling'[t] = "waiting" <=> titling[t] = "waiting"
  PROVE  LineOk'
BY DEF OwnerInv, LineOk

\* A step that changes the line of agent o, and nobody in another one.
LEMMA LineMoved ==
  ASSUME OwnerInv, NEW o \in Owners, NEW q \in Seq(Waiter), Distinct(q),
         queue' = [queue EXCEPT ![o] = q], UNCHANGED of,
         \A t \in Streams :
           /\ Run(t) \in Range(q) <=> phase'[t] = "waiting" /\ of[t] = o
           /\ Title(t) \in Range(q) <=> titling'[t] = "waiting" /\ of[t] = o
           /\ of[t] # o => /\ phase'[t] = "waiting" <=> phase[t] = "waiting"
                           /\ titling'[t] = "waiting" <=> titling[t] = "waiting"
  PROVE  queue' \in [Owners -> Seq(Waiter)] /\ LineOk'
<1>1. queue \in [Owners -> Seq(Waiter)]
  BY DEF OwnerInv, TypeOK, Waiter
<1>2. queue' \in [Owners -> Seq(Waiter)] /\ queue'[o] = q
      /\ \A p \in Owners : p # o => queue'[p] = queue[p]
  BY <1>1
<1>3. ASSUME NEW p \in Owners
      PROVE  /\ Distinct(queue'[p])
             /\ \A t \in Streams :
                  /\ Run(t) \in Range(queue'[p]) <=> phase'[t] = "waiting" /\ of'[t] = p
                  /\ Title(t) \in Range(queue'[p]) <=> titling'[t] = "waiting" /\ of'[t] = p
  <2>1. CASE p = o
    BY <1>2, <2>1
  <2>2. CASE p # o
    BY <1>2, <2>2 DEF OwnerInv, LineOk
  <2> QED
    BY <2>1, <2>2
<1> QED
  BY <1>2, <1>3 DEF LineOk

\* The first in line is served and leaves it.
LEMMA FirstServed ==
  ASSUME OwnerInv, NEW o \in Owners, queue[o] # <<>>,
         queue' = [queue EXCEPT ![o] = Tail(@)], UNCHANGED of,
         \A t \in Streams :
           /\ phase'[t] = "waiting" <=> phase[t] = "waiting" /\ Run(t) # Head(queue[o])
           /\ titling'[t] = "waiting" <=> titling[t] = "waiting" /\ Title(t) # Head(queue[o])
  PROVE  queue' \in [Owners -> Seq(Waiter)] /\ LineOk'
<1> DEFINE q == Tail(queue[o])
           h == Head(queue[o])
<1>1. queue \in [Owners -> Seq(Waiter)]
  BY DEF OwnerInv, TypeOK, Waiter
<1>2. Distinct(queue[o]) /\ queue[o] \in Seq(Waiter)
  BY <1>1 DEF OwnerInv, LineOk
<1>3. h \in Range(queue[o]) /\ q \in Seq(Waiter) /\ Distinct(q) /\ Range(q) = Range(queue[o]) \ {h}
  BY <1>2, LineServed
<1>4. queue' = [queue EXCEPT ![o] = q]
  OBVIOUS
<1> HIDE DEF q
<1>5. ASSUME NEW t \in Streams
      PROVE  /\ Run(t) \in Range(q) <=> phase'[t] = "waiting" /\ of[t] = o
             /\ Title(t) \in Range(q) <=> titling'[t] = "waiting" /\ of[t] = o
             /\ of[t] # o => /\ phase'[t] = "waiting" <=> phase[t] = "waiting"
                             /\ titling'[t] = "waiting" <=> titling[t] = "waiting"
  <2>1. /\ Run(t) \in Range(queue[o]) <=> phase[t] = "waiting" /\ of[t] = o
        /\ Title(t) \in Range(queue[o]) <=> titling[t] = "waiting" /\ of[t] = o
    BY DEF OwnerInv, LineOk
  <2> QED
    BY <1>3, <2>1
<1> QED
  BY <1>3, <1>4, <1>5, LineMoved

\* A run or a title that is in no line joins this one.
LEMMA OneJoined ==
  ASSUME OwnerInv, NEW o \in Owners, NEW w \in Waiter,
         queue' = [queue EXCEPT ![o] = Append(@, w)], UNCHANGED of,
         \A t \in Streams :
           /\ w = Run(t) => phase[t] # "waiting" /\ of[t] = o
           /\ w = Title(t) => titling[t] # "waiting" /\ of[t] = o
           /\ phase'[t] = "waiting" <=> phase[t] = "waiting" \/ w = Run(t)
           /\ titling'[t] = "waiting" <=> titling[t] = "waiting" \/ w = Title(t)
  PROVE  queue' \in [Owners -> Seq(Waiter)] /\ LineOk'
<1> DEFINE q == Append(queue[o], w)
<1>1. queue \in [Owners -> Seq(Waiter)]
  BY DEF OwnerInv, TypeOK, Waiter
<1>2. Distinct(queue[o]) /\ queue[o] \in Seq(Waiter)
  BY <1>1 DEF OwnerInv, LineOk
<1>3. \E t \in Streams : w = Run(t) \/ w = Title(t)
  BY DEF Waiter, Run, Title
<1>4. w \notin Range(queue[o])
  BY <1>3 DEF OwnerInv, LineOk
<1>5. q \in Seq(Waiter) /\ Distinct(q) /\ Range(q) = Range(queue[o]) \cup {w}
  BY <1>2, <1>4, LineJoined
<1>6. queue' = [queue EXCEPT ![o] = q]
  OBVIOUS
<1> HIDE DEF q
<1>7. ASSUME NEW t \in Streams
      PROVE  /\ Run(t) \in Range(q) <=> phase'[t] = "waiting" /\ of[t] = o
             /\ Title(t) \in Range(q) <=> titling'[t] = "waiting" /\ of[t] = o
             /\ of[t] # o => /\ phase'[t] = "waiting" <=> phase[t] = "waiting"
                             /\ titling'[t] = "waiting" <=> titling[t] = "waiting"
  <2>1. /\ Run(t) \in Range(queue[o]) <=> phase[t] = "waiting" /\ of[t] = o
        /\ Title(t) \in Range(queue[o]) <=> titling[t] = "waiting" /\ of[t] = o
    BY DEF OwnerInv, LineOk
  <2> QED
    BY <1>5, <2>1
<1> QED
  BY <1>5, <1>6, <1>7, LineMoved

-----------------------------------------------------------------------------
(***************************************************************************)
(* One step of each kind keeps the invariant.                              *)
(***************************************************************************)

LEMMA ChatKeeps ==
  ASSUME OwnerInv, NEW t \in Streams, Chat(t)
  PROVE  OwnerInv'
<1> USE OwnerAssumption DEF OwnerInv, Chat
<1>1. TypeOK /\ UNCHANGED <<store, mem, wasNew, holder, queue, cancelled, told, titling,
                            renames, flips, deletes, faults>>
  BY DEF agents, bounds
<1>2. /\ registered' \in 1 .. created' /\ created' \in 0 .. MaxOwners /\ created <= created'
      /\ registered # 0 => registered' = registered
  BY <1>1 DEF TypeOK
<1>3. of[t] = 0 /\ titling[t] = "none" /\ of'[t] = registered' /\ phase'[t] = "new"
      /\ \A u \in Streams : u # t => of'[u] = of[u] /\ phase'[u] = phase[u]
  BY <1>1 DEF TypeOK, Placed
<1>4. of' \in [Streams -> 0 .. created']
  BY <1>1, <1>2 DEF TypeOK
<1>5. TypeOK'
  BY <1>1, <1>2, <1>4 DEF TypeOK
<1>6. Placed'
  BY <1>1, <1>2, <1>3 DEF Placed, TypeOK
<1>7. RunsReachable'
  BY <1>2, <1>3 DEF RunsReachable, Placed
<1>8. \A o \in Owners : holder[o] # Nobody => holder[o] \in Streams
  BY <1>1 DEF TypeOK
<1>9. HolderOk'
  BY <1>1, <1>3, <1>8 DEF HolderOk
<1>10. LineOk'
  BY <1>1, <1>3 DEF LineOk, Owners
<1>11. RegistryOk'
  BY <1>1, <1>2 DEF RegistryOk, TypeOK
<1>12. StoreOk' /\ MemoryOk' /\ MemoryCurrent'
  BY <1>1, <1>2 DEF StoreOk, MemoryOk, MemoryCurrent, Owners, TypeOK
<1> QED
  BY <1>5, <1>6, <1>7, <1>9, <1>10, <1>11, <1>12

\* A run that is admitted holds the lock, or is over at once.
LEMMA AdmitKeeps ==
  ASSUME OwnerInv, NEW t \in Streams, phase[t] \in {"new", "waiting"},
         holder[of[t]] = Nobody, Admit(t),
         queue' \in [Owners -> Seq(Waiter)], LineOk'
  PROVE  OwnerInv'
<1> USE OwnerAssumption DEF OwnerInv
<1> DEFINE o == of[t]
<1>1. o \in 1 .. created /\ o \in Owners
  BY OwnerOfStream
<1>2. UNCHANGED <<registered, created, of, cancelled, sub, titling, renames, flips, deletes>>
  BY DEF Admit, engine
<1>3. TypeOK /\ Nobody \notin Streams
  OBVIOUS
<1>4. \A u \in Streams : phase[u] = "running" => of[u] # o
  BY <1>3 DEF HolderOk
<1>5. CASE Enter(t)
  <2>1. /\ Commit(o, Current(o))
        /\ wasNew' = [wasNew EXCEPT ![o] = ~ mem[o].loaded /\ ~ conn.live]
        /\ holder' = [holder EXCEPT ![o] = t]
        /\ phase' = [phase EXCEPT ![t] = "running"]
        /\ UNCHANGED <<told, faults>>
    BY <1>5 DEF Enter
  <2>2. Current(o) \in Memory /\ Current(o).loaded
    BY <1>1, CurrentIsMemory
  <2>3. /\ StoreTyped' /\ mem' \in [Owners -> Memory] /\ mem'[o].loaded
        /\ StoreOk' /\ MemoryOk' /\ MemoryCurrent'
    BY <1>1, <1>2, <2>1, <2>2, CommitKeepsMemory
  <2>4. \A p \in Owners : p # o => mem'[p] = mem[p] /\ holder'[p] = holder[p]
    BY <2>1, <1>3 DEF Commit, TypeOK
  <2>5. holder'[o] = t /\ phase'[t] = "running" /\ \A u \in Streams : u # t => phase'[u] = phase[u]
    BY <1>1, <1>3, <2>1 DEF TypeOK
  <2>6. wasNew' \in [Owners -> BOOLEAN]
    BY <1>1, <1>3, <2>1, Zenon DEF TypeOK
  <2>7. TypeOK'
    BY <1>1, <1>2, <1>3, <2>1, <2>3, <2>6 DEF TypeOK, Waiter, StoreTyped
  <2>8. Placed' /\ RunsReachable' /\ RegistryOk'
    BY <1>2, <2>5 DEF Placed, RunsReachable, RegistryOk
  <2>9. \A p \in Owners : holder[p] # Nobody => holder[p] \in Streams
    BY <1>3 DEF TypeOK
  <2>10. \A u \in Streams : phase[u] = "running" => of[u] \in Owners
    BY OwnerOfStream
  <2>11. \A u \in Streams : phase'[u] = "running" => holder'[of'[u]] = u /\ mem'[of'[u]].loaded
    BY <1>2, <1>4, <2>3, <2>4, <2>5, <2>10 DEF HolderOk
  <2>12. \A p \in Owners :
           holder'[p] # Nobody => phase'[holder'[p]] = "running" /\ of'[holder'[p]] = p
    BY <1>2, <2>4, <2>5, <2>9 DEF HolderOk
  <2> QED
    BY <2>3, <2>7, <2>8, <2>11, <2>12 DEF HolderOk
<1>6. CASE Refuse(t)
  <2>1. /\ SaveFails(Stored(Current(o))) /\ faults' \in {faults, faults + 1}
        /\ Discard(o)
        /\ phase' = [phase EXCEPT ![t] = "done"]
        /\ told' = told \cup {t}
        /\ UNCHANGED <<wasNew, holder>>
    BY <1>6 DEF Refuse, Fault
  <2>10. Current(o) \in Memory
    BY <1>1, CurrentIsMemory
  <2>2. /\ StoreTyped' /\ mem' \in [Owners -> Memory]
        /\ StoreOk' /\ MemoryOk' /\ MemoryCurrent'
    BY <1>1, <1>2, <2>1, <2>10, DiscardKeepsMemory
  <2>3. \A p \in Owners : p # o => mem'[p] = mem[p]
    BY <2>1, <1>3 DEF Discard, TypeOK
  <2>4. phase'[t] = "done" /\ \A u \in Streams : u # t => phase'[u] = phase[u]
    BY <1>3, <2>1 DEF TypeOK
  <2>5. TypeOK'
    BY <1>1, <1>2, <1>3, <2>1, <2>2 DEF TypeOK, Waiter, StoreTyped
  <2>6. Placed' /\ RunsReachable' /\ RegistryOk'
    BY <1>2, <2>4 DEF Placed, RunsReachable, RegistryOk
  <2>7. \A p \in Owners : holder[p] # Nobody => holder[p] \in Streams
    BY <1>3 DEF TypeOK
  <2>8. \A u \in Streams : phase[u] = "running" => of[u] \in Owners
    BY OwnerOfStream
  <2>9. HolderOk'
    BY <1>2, <1>4, <2>1, <2>3, <2>4, <2>7, <2>8 DEF HolderOk
  <2> QED
    BY <2>2, <2>5, <2>6, <2>9
<1> QED
  BY <1>5, <1>6 DEF Admit

\* What an admission does to the phases.
LEMMA AdmitMoves ==
  ASSUME TypeOK, NEW t \in Streams, Admit(t)
  PROVE  /\ phase'[t] # "waiting" /\ \A u \in Streams : u # t => phase'[u] = phase[u]
         /\ UNCHANGED <<of, titling>>
BY DEF Admit, Enter, Refuse, TypeOK

LEMMA StartKeeps ==
  ASSUME OwnerInv, NEW t \in Streams, Start(t)
  PROVE  OwnerInv'
<1>1. phase[t] = "new" /\ holder[of[t]] = Nobody /\ Admit(t) /\ UNCHANGED queue
  BY DEF Start, Free
<1>2. /\ phase'[t] # "waiting" /\ \A u \in Streams : u # t => phase'[u] = phase[u]
      /\ UNCHANGED <<of, titling>>
  BY <1>1, AdmitMoves DEF OwnerInv
<1>3. LineOk'
  BY <1>1, <1>2, LineUnmoved
<1>4. queue' \in [Owners -> Seq(Waiter)]
  BY <1>1 DEF OwnerInv, TypeOK, Waiter
<1> QED
  BY <1>1, <1>3, <1>4, AdmitKeeps

LEMMA TakeKeeps ==
  ASSUME OwnerInv, NEW t \in Streams, Take(t)
  PROVE  OwnerInv'
<1>1. /\ phase[t] = "waiting" /\ holder[of[t]] = Nobody /\ Admit(t)
      /\ queue[of[t]] # <<>> /\ Head(queue[of[t]]) = Run(t)
      /\ queue' = [queue EXCEPT ![of[t]] = Tail(@)]
  BY DEF Take, IsNext
<1>2. /\ phase'[t] # "waiting" /\ \A u \in Streams : u # t => phase'[u] = phase[u]
      /\ UNCHANGED <<of, titling>>
  BY <1>1, AdmitMoves DEF OwnerInv
<1>3. of[t] \in Owners
  BY <1>1, OwnerOfStream
<1>4. queue' \in [Owners -> Seq(Waiter)] /\ LineOk'
  BY <1>1, <1>2, <1>3, Waiters, FirstServed
<1> QED
  BY <1>1, <1>4, AdmitKeeps

\* A step that only moves runs that are not running, and lines.
LEMMA PhaseMoves ==
  ASSUME OwnerInv, NEW t \in Streams, phase[t] \in {"new", "waiting"},
         NEW p \in {"waiting", "done"}, phase' = [phase EXCEPT ![t] = p],
         queue' \in [Owners -> Seq(Waiter)], LineOk',
         UNCHANGED <<store, engine, mem, wasNew, holder, of, cancelled, client, bounds>>
  PROVE  OwnerInv'
<1> USE DEF OwnerInv, engine, client, bounds
<1>1. TypeOK
  OBVIOUS
<1>2. phase'[t] = p /\ \A u \in Streams : u # t => phase'[u] = phase[u]
  BY <1>1 DEF TypeOK
<1>3. \A o \in Owners : holder[o] # Nobody => holder[o] \in Streams
  BY <1>1 DEF TypeOK
<1>4. TypeOK'
  BY <1>1 DEF TypeOK, Waiter
<1>5. Placed' /\ RunsReachable'
  BY <1>2 DEF Placed, RunsReachable
<1>6. HolderOk'
  BY <1>2, <1>3 DEF HolderOk
<1>7. RegistryOk' /\ StoreOk' /\ MemoryOk' /\ MemoryCurrent'
  BY DEF RegistryOk, StoreOk, MemoryOk, MemoryCurrent
<1> QED
  BY <1>4, <1>5, <1>6, <1>7

LEMMA WaitKeeps ==
  ASSUME OwnerInv, NEW t \in Streams, Wait(t)
  PROVE  OwnerInv'
<1>1. /\ phase[t] = "new" /\ phase' = [phase EXCEPT ![t] = "waiting"]
      /\ queue' = [queue EXCEPT ![of[t]] = Append(@, Run(t))]
      /\ UNCHANGED <<store, engine, mem, wasNew, holder, of, cancelled, client, bounds>>
  BY DEF Wait
<1>2. of[t] \in Owners
  BY <1>1, OwnerOfStream
<1>3. phase'[t] = "waiting" /\ \A u \in Streams : u # t => phase'[u] = phase[u]
  BY <1>1 DEF OwnerInv, TypeOK
<1>4. queue' \in [Owners -> Seq(Waiter)] /\ LineOk'
  BY <1>1, <1>2, <1>3, Waiters, OneJoined DEF client
<1> QED
  BY <1>1, <1>4, PhaseMoves

LEMMA CancelQueuedKeeps ==
  ASSUME OwnerInv, NEW t \in Streams, CancelQueued(t)
  PROVE  OwnerInv'
<1>1. /\ phase[t] \in {"new", "waiting"} /\ phase' = [phase EXCEPT ![t] = "done"]
      /\ UNCHANGED <<store, engine, mem, wasNew, holder, of, cancelled, client, bounds>>
  BY DEF CancelQueued
<1> DEFINE o == of[t]
<1>2. o \in Owners
  BY <1>1, OwnerOfStream
<1>3. phase'[t] = "done" /\ \A u \in Streams : u # t => phase'[u] = phase[u]
  BY <1>1 DEF OwnerInv, TypeOK
<1>4. queue \in [Owners -> Seq(Waiter)]
  BY DEF OwnerInv, TypeOK, Waiter
<1>5. queue' \in [Owners -> Seq(Waiter)] /\ LineOk'
  <2>1. CASE phase[t] = "new" /\ UNCHANGED queue
    BY <1>1, <1>3, <1>4, <2>1, LineUnmoved DEF client
  <2>2. CASE phase[t] = "waiting"
    <3>1. PICK i \in DOMAIN queue[o] : /\ queue[o][i] = Run(t)
                                       /\ queue' = [queue EXCEPT ![o] = RemoveAt(@, i)]
      BY <2>2 DEF CancelQueued
    <3> DEFINE q == RemoveAt(queue[o], i)
    <3>2. queue[o] \in Seq(Waiter) /\ Distinct(queue[o])
      BY <1>2, <1>4 DEF OwnerInv, LineOk
    <3>3. q \in Seq(Waiter) /\ Distinct(q) /\ Range(q) = Range(queue[o]) \ {Run(t)}
      BY <3>1, <3>2, LineLeft
    <3>4. queue' = [queue EXCEPT ![o] = q]
      BY <3>1
    <3> HIDE DEF q
    <3>5. ASSUME NEW u \in Streams
          PROVE  /\ Run(u) \in Range(q) <=> phase'[u] = "waiting" /\ of[u] = o
                 /\ Title(u) \in Range(q) <=> titling'[u] = "waiting" /\ of[u] = o
                 /\ of[u] # o => /\ phase'[u] = "waiting" <=> phase[u] = "waiting"
                                 /\ titling'[u] = "waiting" <=> titling[u] = "waiting"
      <4>1. /\ Run(u) \in Range(queue[o]) <=> phase[u] = "waiting" /\ of[u] = o
            /\ Title(u) \in Range(queue[o]) <=> titling[u] = "waiting" /\ of[u] = o
        BY <1>2 DEF OwnerInv, LineOk
      <4> QED
        BY <1>1, <1>3, <3>3, <4>1, Waiters DEF client
    <3> QED
      BY <1>1, <1>2, <3>3, <3>4, <3>5, LineMoved
  <2> QED
    BY <2>1, <2>2 DEF CancelQueued
<1> QED
  BY <1>1, <1>5, PhaseMoves

\* A run that ends gives the lock back, whatever it did to its agent's state.
LEMMA LeaveKeeps ==
  ASSUME OwnerInv, NEW t \in Streams, phase[t] = "running", Leave(t),
         StoreTyped', mem' \in [Owners -> Memory], StoreOk', MemoryOk', MemoryCurrent',
         faults' \in Nat,
         \A p \in Owners : p # of[t] => mem'[p] = mem[p],
         UNCHANGED <<engine, wasNew, queue, of, cancelled, sub, titling,
                     renames, flips, deletes>>
  PROVE  OwnerInv'
<1> USE OwnerAssumption DEF OwnerInv, engine
<1> DEFINE o == of[t]
<1>1. TypeOK /\ o \in Owners /\ holder[o] = t
  BY OwnerOfStream DEF HolderOk
<1>2. /\ phase' = [phase EXCEPT ![t] = "done"] /\ holder' = [holder EXCEPT ![o] = Nobody]
      /\ told' = told \cup {t}
  BY DEF Leave
<1>3. phase'[t] = "done" /\ \A u \in Streams : u # t => phase'[u] = phase[u]
  BY <1>1, <1>2 DEF TypeOK
<1>4. holder'[o] = Nobody /\ \A p \in Owners : p # o => holder'[p] = holder[p]
  BY <1>1, <1>2 DEF TypeOK
<1>5. TypeOK'
  BY <1>1, <1>2 DEF TypeOK, StoreTyped
<1>6. Placed' /\ RunsReachable' /\ RegistryOk'
  BY <1>3 DEF Placed, RunsReachable, RegistryOk
<1>7. \A u \in Streams : u # t /\ phase[u] = "running" => of[u] \in Owners /\ of[u] # o
  BY <1>1, OwnerOfStream DEF HolderOk
<1>8. \A u \in Streams : phase'[u] = "running" => holder'[of'[u]] = u /\ mem'[of'[u]].loaded
  BY <1>3, <1>4, <1>7 DEF HolderOk
<1>9. \A p \in Owners : holder[p] # Nobody => holder[p] \in Streams
  BY <1>1 DEF TypeOK
<1>10. \A p \in Owners :
         holder'[p] # Nobody => phase'[holder'[p]] = "running" /\ of'[holder'[p]] = p
  BY <1>1, <1>3, <1>4, <1>9 DEF HolderOk
<1>11. LineOk'
  BY <1>3, LineUnmoved
<1> QED
  BY <1>5, <1>6, <1>8, <1>10, <1>11 DEF HolderOk

LEMMA FinishKeeps ==
  ASSUME OwnerInv, NEW t \in Streams, Finish(t)
  PROVE  OwnerInv'
<1> DEFINE o == of[t]
<1>1. /\ phase[t] = "running" /\ Leave(t)
      /\ Commit(o, mem[o]) \/ UNCHANGED <<store, mem>>
      /\ UNCHANGED <<engine, wasNew, queue, of, cancelled, sub, titling, bounds>>
  BY DEF Finish
<1>2. o \in Owners /\ o \in 1 .. created
  BY <1>1, OwnerOfStream
<1>3. mem \in [Owners -> Memory] /\ mem[o] \in Memory /\ mem[o].loaded /\ StoreTyped /\ faults \in Nat
  BY <1>1, <1>2 DEF OwnerInv, TypeOK, HolderOk, StoreTyped
<1>4. CASE Commit(o, mem[o])
  <2>1. /\ StoreTyped' /\ mem' \in [Owners -> Memory]
        /\ StoreOk' /\ MemoryOk' /\ MemoryCurrent'
    BY <1>1, <1>2, <1>3, <1>4, CommitKeepsMemory DEF bounds, engine
  <2>2. \A p \in Owners : p # o => mem'[p] = mem[p]
    BY <1>3, <1>4 DEF Commit
  <2> QED
    BY <1>1, <1>3, <2>1, <2>2, LeaveKeeps DEF bounds
<1>5. CASE UNCHANGED <<store, mem>>
  <2>1. holder \in [Owners -> Streams \cup {Nobody}]
    BY DEF OwnerInv, TypeOK
  <2>2. \A p \in Owners : holder'[p] # Nobody => holder[p] # Nobody
    BY <1>1, <1>2, <2>1 DEF Leave
  <2>3. MemoryCurrent'
    BY <1>1, <1>5, <2>2 DEF OwnerInv, MemoryCurrent, bounds
  <2>4. StoreTyped' /\ StoreOk' /\ MemoryOk'
    BY <1>1, <1>3, <1>5 DEF OwnerInv, StoreTyped, StoreOk, MemoryOk, bounds, engine
  <2> QED
    BY <1>1, <1>3, <1>5, <2>3, <2>4, LeaveKeeps DEF bounds
<1> QED
  BY <1>1, <1>4, <1>5

\* A run that fails or is cancelled.
LEMMA AbortKeeps ==
  ASSUME OwnerInv, NEW t \in Streams, phase[t] = "running", Abort(t), faults' \in Nat
  PROVE  OwnerInv'
<1> DEFINE o == of[t]
<1>1. /\ Save(Stored(mem[o])) \/ SaveFails(Stored(mem[o]))
      /\ Discard(o) /\ Leave(t)
      /\ UNCHANGED <<engine, wasNew, queue, of, cancelled, sub, titling,
                     renames, flips, deletes>>
  BY DEF Abort
<1>2. o \in Owners /\ o \in 1 .. created
  BY OwnerOfStream
<1>5. mem[o] \in Memory
  BY <1>2 DEF OwnerInv, TypeOK
<1>3. /\ StoreTyped' /\ mem' \in [Owners -> Memory]
      /\ StoreOk' /\ MemoryOk' /\ MemoryCurrent'
  BY <1>1, <1>2, <1>5, DiscardKeepsMemory DEF engine
<1>4. \A p \in Owners : p # o => mem'[p] = mem[p]
  BY <1>1 DEF Discard, OwnerInv, TypeOK
<1> QED
  BY <1>1, <1>3, <1>4, LeaveKeeps

LEMMA RunStepKeeps ==
  ASSUME OwnerInv, NEW t \in Streams, RunStep(t)
  PROVE  OwnerInv'
<1>1. faults \in Nat
  BY DEF OwnerInv, TypeOK
<1> QED
  BY <1>1, FinishKeeps, AbortKeeps DEF RunStep, Fail, CancelRun, Fault

LEMMA CancelKeeps ==
  ASSUME OwnerInv, Cancel
  PROVE  OwnerInv'
<1> USE DEF OwnerInv
<1>1. UNCHANGED <<store, engine, agents, of, phase, client, bounds>>
  BY DEF Cancel
<1> USE <1>1 DEF engine, agents, client, bounds
<1>2. CancelTargets(registered) \subseteq Streams
  <2>1. CASE holder[registered] = Nobody
    BY <2>1 DEF CancelTargets
  <2>2. CASE holder[registered] # Nobody
    <3>1. registered \in Owners
      BY OwnerAssumption DEF Cancel, TypeOK, Owners
    <3> QED
      BY <2>2, <3>1 DEF CancelTargets, TypeOK
  <2> QED
    BY <2>1, <2>2
<1>3. cancelled' \in SUBSET Streams
  BY <1>2 DEF Cancel, TypeOK
<1>4. TypeOK'
  BY <1>3 DEF TypeOK
<1>5. Placed' /\ RunsReachable' /\ HolderOk' /\ RegistryOk'
  BY DEF Placed, RunsReachable, HolderOk, RegistryOk
<1>6. LineOk' /\ StoreOk' /\ MemoryOk' /\ MemoryCurrent'
  BY DEF LineOk, StoreOk, MemoryOk, MemoryCurrent
<1> QED
  BY <1>4, <1>5, <1>6

\* A stream that ends for its subscriber asks for a title only when the state of
\* its agent is loaded.
LEMMA SpawnKeeps ==
  ASSUME OwnerInv, NEW t \in Streams, sub[t] = "open", NEW s \in {"ended", "gone"},
         sub' = [sub EXCEPT ![t] = s], SpawnTitle(t),
         UNCHANGED <<store, engine, agents, tasks, told, bounds>>
  PROVE  OwnerInv'
<1> USE DEF OwnerInv, engine, agents, tasks, bounds
<1>1. TypeOK /\ phase[t] # "none" /\ titling[t] = "none"
  BY DEF Placed
<1>2. of[t] \in Owners /\ of[t] \in 1 .. created
  BY <1>1, OwnerOfStream
<1>3. titling' \in [Streams -> {"none", "asking", "waiting", "done"}]
  BY <1>1 DEF SpawnTitle, TypeOK
<1>4. /\ titling'[t] = "asking" => mem[of[t]].loaded
      /\ titling'[t] # "waiting" /\ \A u \in Streams : u # t => titling'[u] = titling[u]
  BY <1>1 DEF SpawnTitle, TypeOK
<1>5. TypeOK'
  BY <1>1, <1>3 DEF TypeOK
<1>6. sub'[t] \in {"ended", "gone"} /\ \A u \in Streams : u # t => sub'[u] = sub[u]
  BY <1>1 DEF TypeOK
<1>7. Placed' /\ RunsReachable' /\ HolderOk' /\ RegistryOk'
  BY <1>1, <1>4, <1>6 DEF Placed, RunsReachable, HolderOk, RegistryOk
<1>8. LineOk'
  BY <1>1, <1>4, LineUnmoved
<1>9. StoreOk' /\ MemoryOk' /\ MemoryCurrent'
  BY <1>2, <1>4 DEF StoreOk, MemoryOk, MemoryCurrent
<1> QED
  BY <1>5, <1>7, <1>8, <1>9

\* A generated title, set or not.
LEMMA TitleSetKeeps ==
  ASSUME OwnerInv, NEW t \in Streams, titling[t] \in {"asking", "waiting"},
         holder[of[t]] = Nobody, SetTitleIfEmpty(t), TitleDone(t), queue' \in [Owners -> Seq(Waiter)], LineOk'
  PROVE  OwnerInv'
<1> USE DEF OwnerInv, engine, tasks
<1> DEFINE o == of[t]
           s == [Current(o) EXCEPT !.title = t]
<1>1. TypeOK /\ phase[t] # "none" /\ (deletes = 0 => disk.live)
  BY DEF Placed, MemoryOk
<1>2. o \in Owners /\ o \in 1 .. created
  BY <1>1, OwnerOfStream
<1>3. titling' = [titling EXCEPT ![t] = "done"]
      /\ UNCHANGED <<engine, wasNew, holder, tasks, sub, told, renames, flips, deletes>>
  BY DEF TitleDone
<1>4. s \in Memory /\ s.loaded
  <2>1. Current(o) \in Memory /\ Current(o).loaded
    BY <1>1, <1>2, CurrentIsMemory
  <2> QED
    BY <2>1 DEF Memory, Titles
<1> HIDE DEF s
<1>5. /\ StoreTyped' /\ mem' \in [Owners -> Memory] /\ mem'[o].loaded
      /\ StoreOk' /\ MemoryOk' /\ MemoryCurrent' /\ faults' \in Nat
      /\ \A p \in Owners : p # o => mem'[p] = mem[p]
  <2>1. CASE Commit(o, s) /\ UNCHANGED faults
    <3>1. /\ StoreTyped' /\ mem' \in [Owners -> Memory] /\ mem'[o].loaded
          /\ StoreOk' /\ MemoryOk' /\ MemoryCurrent'
      BY <1>2, <1>3, <1>4, <2>1, CommitKeepsMemory
    <3>2. \A p \in Owners : p # o => mem'[p] = mem[p]
      BY <1>1, <2>1 DEF Commit, TypeOK
    <3> QED
      BY <1>1, <2>1, <3>1, <3>2 DEF TypeOK
  <2>2. CASE /\ mem' = [mem EXCEPT ![o] = Current(o)]
             /\ UNCHANGED store \/ SaveFails(Stored(s))
             /\ faults' \in {faults, faults + 1}
    <3>1. /\ StoreTyped' /\ mem' \in [Owners -> Memory] /\ mem'[o].loaded /\ StoreOk'
          /\ (disk.live => disk'.live) /\ (disk'.live \/ disk' = NoRow) /\ MemoryCurrent'
      BY <1>1, <1>2, <1>3, <1>4, <2>2, LoadKeepsMemory
    <3>2. \A p \in Owners : p # o => mem'[p] = mem[p]
      BY <1>1, <2>2 DEF TypeOK
    <3>3. \A u \in Streams :
            titling'[u] \in {"asking", "waiting"} => titling[u] \in {"asking", "waiting"}
      BY <1>1, <1>3 DEF TypeOK
    <3>4. UNCHANGED <<created, deletes>> /\ o <= created
      BY <1>1, <1>2, <1>3 DEF TypeOK
    <3>6. \A p \in Owners : mem'[p].loaded => p <= created'
      BY <3>2, <3>4 DEF MemoryOk
    <3>7. deletes' = 0 => \A u \in Streams : titling'[u] \in {"asking", "waiting"} => disk'.live
      BY <1>1, <3>1, <3>4
    <3>5. MemoryOk'
      BY <3>1, <3>6, <3>7 DEF MemoryOk
    <3> QED
      BY <1>1, <2>2, <3>1, <3>2, <3>5 DEF TypeOK
  <2> QED
    BY <2>1, <2>2 DEF SetTitleIfEmpty, Fault, s
<1>6. TypeOK'
  BY <1>1, <1>3, <1>5 DEF TypeOK, Waiter, StoreTyped
<1>7. titling'[t] = "done" /\ \A u \in Streams : u # t => titling'[u] = titling[u]
  BY <1>1, <1>3 DEF TypeOK
<1>8. Placed' /\ RunsReachable' /\ RegistryOk'
  BY <1>1, <1>3, <1>7 DEF Placed, RunsReachable, RegistryOk
<1>9. HolderOk'
  <2>1. \A u \in Streams : phase[u] = "running" => of[u] \in Owners
    BY OwnerOfStream
  <2> QED
    BY <1>3, <1>5, <2>1 DEF HolderOk
<1> QED
  BY <1>5, <1>6, <1>8, <1>9

LEMMA TitleArrivesKeeps ==
  ASSUME OwnerInv, NEW t \in Streams, TitleArrives(t)
  PROVE  OwnerInv'
<1>1. titling[t] = "asking" /\ queue \in [Owners -> Seq(Waiter)] /\ TypeOK
  BY DEF TitleArrives, OwnerInv, TypeOK, Waiter
<1>2. CASE Free(of[t]) /\ SetTitleIfEmpty(t) /\ TitleDone(t) /\ UNCHANGED queue
  <2>1. titling'[t] = "done" /\ \A u \in Streams : u # t => titling'[u] = titling[u]
    BY <1>1, <1>2 DEF TitleDone, TypeOK
  <2>2. LineOk'
    BY <1>1, <1>2, <2>1, LineUnmoved DEF TitleDone, tasks
  <2> QED
    BY <1>1, <1>2, <2>2, TitleSetKeeps DEF Free
<1>3. CASE /\ queue' = [queue EXCEPT ![of[t]] = Append(@, Title(t))]
           /\ titling' = [titling EXCEPT ![t] = "waiting"]
           /\ UNCHANGED <<store, engine, mem, wasNew, holder, tasks, sub, told, bounds>>
  <2>1. of[t] \in Owners
    BY <1>1, OwnerOfStream DEF OwnerInv, Placed
  <2>2. titling'[t] = "waiting" /\ \A u \in Streams : u # t => titling'[u] = titling[u]
    BY <1>1, <1>3 DEF TypeOK
  <2>3. \A u \in Streams :
          /\ Title(t) # Run(u) /\ (Title(t) = Title(u) => u = t)
          /\ phase'[u] = "waiting" <=> phase[u] = "waiting"
    BY <1>3, Waiters DEF tasks
  <2>4. queue' \in [Owners -> Seq(Waiter)] /\ LineOk'
    BY <1>1, <1>3, <2>1, <2>2, <2>3, Waiters, OneJoined DEF tasks
  <2> USE <1>3 DEF OwnerInv, engine, tasks, bounds
  <2>5. TypeOK'
    BY <1>1, <2>4 DEF TypeOK, Waiter
  <2>6. Placed' /\ RunsReachable' /\ HolderOk' /\ RegistryOk'
    BY <1>1, <2>2 DEF Placed, RunsReachable, HolderOk, RegistryOk
  <2>7. StoreOk' /\ MemoryOk' /\ MemoryCurrent'
    BY <1>1, <2>2 DEF StoreOk, MemoryOk, MemoryCurrent
  <2> QED
    BY <2>4, <2>5, <2>6, <2>7
<1> QED
  BY <1>2, <1>3 DEF TitleArrives

LEMMA TitleGivesUpKeeps ==
  ASSUME OwnerInv, NEW t \in Streams, TitleGivesUp(t)
  PROVE  OwnerInv'
<1> USE DEF OwnerInv, engine, tasks
<1>1. /\ titling[t] = "asking" /\ TypeOK /\ titling' = [titling EXCEPT ![t] = "done"]
      /\ UNCHANGED <<store, mem, queue, faults, engine, wasNew, holder, tasks, sub, told,
                     renames, flips, deletes>>
  BY DEF TitleGivesUp, TitleDone
<1>2. titling'[t] = "done" /\ \A u \in Streams : u # t => titling'[u] = titling[u]
  BY <1>1 DEF TypeOK
<1>3. TypeOK'
  BY <1>1 DEF TypeOK
<1>4. Placed' /\ RunsReachable' /\ HolderOk' /\ RegistryOk'
  BY <1>1, <1>2 DEF Placed, RunsReachable, HolderOk, RegistryOk
<1>5. LineOk'
  BY <1>1, <1>2, LineUnmoved
<1>6. StoreOk' /\ MemoryOk' /\ MemoryCurrent'
  BY <1>1, <1>2 DEF StoreOk, MemoryOk, MemoryCurrent
<1> QED
  BY <1>3, <1>4, <1>5, <1>6

LEMMA TakeTitleKeeps ==
  ASSUME OwnerInv, NEW t \in Streams, TakeTitle(t)
  PROVE  OwnerInv'
<1>1. /\ titling[t] = "waiting" /\ TypeOK /\ SetTitleIfEmpty(t) /\ TitleDone(t)
      /\ holder[of[t]] = Nobody
      /\ queue[of[t]] # <<>> /\ Head(queue[of[t]]) = Title(t)
      /\ queue' = [queue EXCEPT ![of[t]] = Tail(@)]
  BY DEF TakeTitle, IsNext, OwnerInv
<1>2. UNCHANGED <<of, phase>>
  BY <1>1 DEF TitleDone, tasks
<1>3. titling'[t] = "done" /\ \A u \in Streams : u # t => titling'[u] = titling[u]
  BY <1>1 DEF TitleDone, TypeOK
<1>4. of[t] \in Owners
  BY <1>1, OwnerOfStream DEF OwnerInv, Placed
<1>5. queue' \in [Owners -> Seq(Waiter)] /\ LineOk'
  BY <1>1, <1>2, <1>3, <1>4, Waiters, FirstServed
<1> QED
  BY <1>1, <1>5, TitleSetKeeps

\* A handler's row, and what another connection's write keeps.
LEMMA WrittenKeepsStore ==
  ASSUME OwnerInv, NEW row \in Row, Written(row), row.live \/ row = NoRow,
         deletes' = 0 =>
           /\ deletes = 0 /\ row.live = disk.live /\ row.rev = disk.rev
           /\ renames' = 0 => renames = 0 /\ row.title = disk.title
  PROVE  StoreTyped' /\ StoreOk' /\ disk' = row /\ broken' = broken
<1>1. StoreTyped /\ StoreOk
  BY DEF OwnerInv, TypeOK, StoreTyped
<1> QED
  BY <1>1 DEF Written, StoreTyped, StoreOk

\* The handlers write a row that is there, beside the agents; a deletion finds
\* no run that is not over.
LEMMA HandlerKeeps ==
  ASSUME OwnerInv, Rename \/ Flip \/ Delete
  PROVE  OwnerInv'
<1>1. TypeOK /\ disk \in Row /\ renames \in Nat /\ deletes \in Nat
  BY DEF OwnerInv, TypeOK
<1>2. CASE Rename \/ Flip
  <2>1. PICK row \in Row :
          /\ Written(row) /\ disk.live /\ row.live /\ row.rev = disk.rev
          /\ row.title = disk.title \/ renames' # 0
    <3>1. CASE Rename
      <4>1. disk.live /\ Written([disk EXCEPT !.title = "user"]) /\ renames' # 0
        BY <1>1, <3>1 DEF Rename
      <4>2. [disk EXCEPT !.title = "user"] \in Row
        BY <1>1 DEF Row, Titles
      <4> QED
        BY <1>1, <4>1, <4>2 DEF Row
    <3>2. CASE Flip
      <4>1. disk.live /\ Written([disk EXCEPT !.archived = ~ @])
        BY <3>2 DEF Flip
      <4>2. [disk EXCEPT !.archived = ~ @] \in Row
        BY <1>1 DEF Row
      <4> QED
        BY <1>1, <4>1, <4>2 DEF Row
    <3> QED
      BY <1>2, <3>1, <3>2
  <2> USE DEF OwnerInv, engine, agents, tasks, client
  <2>2. UNCHANGED <<engine, agents, tasks, client, deletes, faults>>
        /\ {renames', flips'} \subseteq Nat /\ (renames' = 0 => renames = 0)
    BY <1>1, <1>2 DEF Rename, Flip, TypeOK
  <2>6. StoreTyped' /\ StoreOk' /\ disk' = row /\ broken' = broken
    BY <2>1, <2>2, WrittenKeepsStore
  <2>3. TypeOK'
    BY <1>1, <2>2, <2>6 DEF TypeOK, StoreTyped
  <2>4. Placed' /\ RunsReachable' /\ HolderOk' /\ LineOk' /\ RegistryOk'
    BY <2>2 DEF Placed, RunsReachable, HolderOk, LineOk, RegistryOk
  <2>5. MemoryOk' /\ MemoryCurrent'
    BY <2>1, <2>2, <2>6 DEF MemoryOk, MemoryCurrent
  <2> QED
    BY <2>3, <2>4, <2>5, <2>6
<1>3. CASE Delete
  <2> USE DEF OwnerInv, engine, agents, tasks, client
  <2>1. /\ Written(NoRow) /\ registered' = 0 /\ deletes' = deletes + 1
        /\ UNCHANGED <<created, agents, tasks, client, renames, flips, faults>>
    BY <1>3 DEF Delete
  <2>2. deletes' \in Nat /\ deletes' # 0
    BY <1>1, <2>1
  <2>3. NoRow \in Row
    BY DEF NoRow, Row, Titles
  <2>9. StoreTyped' /\ StoreOk' /\ disk' = NoRow
    BY <2>1, <2>2, <2>3, WrittenKeepsStore
  <2>4. TypeOK'
    BY <1>1, <2>1, <2>2, <2>9 DEF TypeOK, StoreTyped
  <2>5. \A t \in Streams : phase[t] \notin Unfinished
    BY <1>3 DEF Delete, IsRunning, RunsReachable, Placed, Unfinished
  <2>6. RunsReachable'
    BY <2>1, <2>5 DEF RunsReachable, Unfinished
  <2>7. Placed' /\ HolderOk' /\ LineOk' /\ RegistryOk'
    BY <2>1, <2>2 DEF Placed, HolderOk, LineOk, RegistryOk
  <2>8. MemoryOk' /\ MemoryCurrent'
    BY <2>1, <2>2, <2>9 DEF MemoryOk, MemoryCurrent
  <2> QED
    BY <2>4, <2>6, <2>7, <2>8, <2>9
<1> QED
  BY <1>2, <1>3

\* Other conversations' saves: they commit or undo what is open.
LEMMA OthersSaveKeeps ==
  ASSUME OwnerInv, OthersSave
  PROVE  OwnerInv'
<1>1. StoreTyped /\ StoreOk /\ TypeOK /\ (disk.live \/ disk = NoRow)
  BY DEF OwnerInv, TypeOK, StoreTyped, MemoryOk
<1>2. /\ StoreTyped' /\ StoreOk' /\ (disk.live => disk'.live) /\ (disk'.live \/ disk' = NoRow)
      /\ broken' = broken /\ (~ broken => disk' = disk) /\ faults' \in Nat
      /\ UNCHANGED <<engine, agents, tasks, client, renames, flips, deletes>>
  <2>1. UNCHANGED <<engine, agents, tasks, client, renames, flips, deletes>>
    BY DEF OthersSave
  <2>2. faults \in Nat
    BY <1>1 DEF TypeOK
  <2>3. CASE /\ faults' = faults + 1
             /\ txn \in {"none", "read"} /\ txn' \in {"read", "write"}
             /\ UNCHANGED <<disk, conn, broken>>
    BY <1>1, <2>1, <2>2, <2>3 DEF StoreTyped, StoreOk
  <2>4. CASE /\ txn \in {"read", "write"} /\ txn' = "none"
             /\ disk' = conn /\ UNCHANGED <<conn, broken, faults>>
    BY <1>1, <2>1, <2>2, <2>4 DEF StoreTyped, StoreOk
  <2>5. CASE RollsBack /\ UNCHANGED faults
    BY <1>1, <2>1, <2>2, <2>5 DEF RollsBack, StoreTyped, StoreOk
  <2> QED
    BY <2>3, <2>4, <2>5 DEF OthersSave
<1> USE <1>2 DEF OwnerInv, engine, agents, tasks, client
<1>3. TypeOK'
  BY <1>1 DEF TypeOK, StoreTyped
<1>4. Placed' /\ RunsReachable' /\ HolderOk' /\ LineOk' /\ RegistryOk'
  BY DEF Placed, RunsReachable, HolderOk, LineOk, RegistryOk
<1>5. MemoryOk'
  BY DEF MemoryOk
<1>6. MemoryCurrent'
  BY DEF MemoryCurrent
<1> QED
  BY <1>3, <1>4, <1>5, <1>6

LEMMA OwnerInit == Init => OwnerInv
<1> SUFFICES ASSUME Init PROVE OwnerInv
  OBVIOUS
<1> USE OwnerAssumption DEF Init
<1>1. <<>> \in Seq(Waiter) /\ NoRow \in Row /\ Unloaded \in Memory /\ ~ Unloaded.loaded
  BY DEF NoRow, Unloaded, Row, Memory, Titles
<1>6. StoreTyped
  BY <1>1 DEF StoreTyped
<1>2. TypeOK
  BY <1>1, <1>6 DEF TypeOK, Waiter, StoreTyped
<1>3. Placed /\ RunsReachable /\ HolderOk /\ RegistryOk
  BY DEF Placed, RunsReachable, HolderOk, RegistryOk
<1>4. LineOk
  BY EmptyLine DEF LineOk
<1>5. StoreOk /\ MemoryOk /\ MemoryCurrent
  BY <1>1 DEF StoreOk, MemoryOk, MemoryCurrent
<1> QED
  BY <1>2, <1>3, <1>4, <1>5 DEF OwnerInv

LEMMA OwnerStep == OwnerInv /\ [Next]_vars => OwnerInv'
<1> SUFFICES ASSUME OwnerInv, [Next]_vars
             PROVE  OwnerInv'
  OBVIOUS
<1>1. CASE \E t \in Streams : \/ Chat(t) \/ DriveStep(t) \/ RunStep(t)
                              \/ Hear(t) \/ Disconnect(t) \/ TitleStep(t)
  <2>1. PICK t \in Streams : \/ Chat(t) \/ DriveStep(t) \/ RunStep(t)
                             \/ Hear(t) \/ Disconnect(t) \/ TitleStep(t)
    BY <1>1
  <2>2. CASE Chat(t)
    BY <2>2, ChatKeeps
  <2>3. CASE DriveStep(t)
    BY <2>3, StartKeeps, WaitKeeps, TakeKeeps, CancelQueuedKeeps DEF DriveStep
  <2>4. CASE RunStep(t)
    BY <2>4, RunStepKeeps
  <2>5. CASE Hear(t)
    BY <2>5, SpawnKeeps DEF Hear
  <2>6. CASE Disconnect(t)
    BY <2>6, SpawnKeeps DEF Disconnect
  <2>7. CASE TitleStep(t)
    BY <2>7, TitleArrivesKeeps, TitleGivesUpKeeps, TakeTitleKeeps DEF TitleStep
  <2> QED
    BY <2>1, <2>2, <2>3, <2>4, <2>5, <2>6, <2>7
<1>2. CASE UNCHANGED vars
  <2> USE <1>2 DEF OwnerInv, vars, engine, agents, tasks, client, bounds
  <2>1. TypeOK'
    BY DEF TypeOK
  <2>2. Placed' /\ RunsReachable' /\ HolderOk' /\ LineOk' /\ RegistryOk'
    BY DEF Placed, RunsReachable, HolderOk, LineOk, RegistryOk
  <2>3. StoreOk' /\ MemoryOk' /\ MemoryCurrent'
    BY DEF StoreOk, MemoryOk, MemoryCurrent
  <2> QED
    BY <2>1, <2>2, <2>3
<1> QED
  BY <1>1, <1>2, CancelKeeps, HandlerKeeps, OthersSaveKeeps DEF Next

-----------------------------------------------------------------------------
(***************************************************************************)
(* The theorems.                                                           *)
(***************************************************************************)

\* The invariant holds always.
THEOREM OwnerInductive == Spec => []OwnerInv
BY OwnerInit, OwnerStep, PTL DEF Spec

\* Type correctness of the registry, the agents, the streams and the row.
THEOREM OwnerTyped == Spec => []TypeOK
<1>1. OwnerInv => TypeOK
  BY DEF OwnerInv
<1> QED
  BY <1>1, OwnerInductive, PTL

\* A run that is not over is on the registered agent's lock, in reach of a cancel
\* request, however many agents the thread id has had (delete_conversation's test
\* of is_running).
THEOREM UnfinishedReachable == Spec => []RunsReachable
<1>1. OwnerInv => RunsReachable
  BY DEF OwnerInv
<1> QED
  BY <1>1, OwnerInductive, PTL

\* Two runs never advance one thread: each would hold the lock of the one agent
\* that is registered.
THEOREM AtMostOneRun == Spec => []OneRun
<1>1. ASSUME OwnerInv PROVE OneRun
  <2> DEFINE R == { t \in Streams : phase[t] = "running" }
  <2>1. \A t, u \in R : t = u
    BY <1>1 DEF OwnerInv, RunsReachable, HolderOk
  <2>2. CASE R = {}
    BY <2>2, FS_EmptySet DEF OneRun
  <2>3. CASE R # {}
    <3>1. PICK t \in R : TRUE
      BY <2>3
    <3>2. R = {t}
      BY <2>1, <3>1
    <3> QED
      BY <3>2, FS_Singleton DEF OneRun
  <2> QED
    BY <2>2, <2>3
<1> QED
  BY <1>1, OwnerInductive, PTL

\* What an agent keeps in memory is the stored revision and title, whatever
\* commits failed before (_discard_uncommitted_state), unless the last save broke
\* off; a run in progress has a save behind it that did not.
THEOREM MemoryFollowsRow == Spec => []MemoryCurrent
<1>1. OwnerInv => MemoryCurrent
  BY DEF OwnerInv
<1> QED
  BY <1>1, OwnerInductive, PTL

\* Who may write the row: the state of an agent, which has the row's title but
\* after a save that broke off; another conversation's commit of such a save; or
\* the conversation handlers.
LEMMA RowWritten ==
  ASSUME OwnerInv, [Next]_vars
  PROVE  \/ disk' = disk
         \/ \E s \in Memory :
              /\ disk' = Stored(s) /\ txn # "stale"
              /\ deletes' = 0 /\ renames' = 0 /\ ~ broken => disk.title \in {"none", s.title}
         \/ disk' = conn /\ txn \in {"read", "write"}
         \/ Rename \/ Flip \/ Delete
<1> DEFINE Faithful(s) ==
             deletes = 0 /\ renames = 0 /\ ~ broken => disk.title \in {"none", s.title}
           Writes(s) == /\ disk' = Stored(s) /\ txn # "stale"
                        /\ deletes' = 0 /\ renames' = 0 /\ ~ broken
                             => disk.title \in {"none", s.title}
<1>1. /\ TypeOK /\ disk \in Row /\ MemoryCurrent /\ (disk.live \/ disk.title = "none")
      /\ StoreOk /\ StoreTyped
  BY DEF OwnerInv, TypeOK, MemoryOk, NoRow, StoreTyped
<1>2. \A o \in Owners :
        /\ Current(o) \in Memory /\ Faithful(Current(o))
        /\ mem[o] \in Memory /\ (mem[o].loaded => Faithful(mem[o]))
  <2> TAKE o \in Owners
  <2>1. Current(o) \in Memory /\ mem[o] \in Memory
    BY <1>1, CurrentIsMemory DEF TypeOK
  <2>2. mem[o].loaded => Faithful(mem[o])
    BY <1>1 DEF MemoryCurrent
  <2>3. deletes = 0 /\ renames = 0 /\ ~ broken => conn.live = disk.live /\ conn.title = disk.title
    BY <1>1 DEF StoreOk, StoreTyped
  <2>4. Faithful(Current(o))
    BY <1>1, <2>2, <2>3 DEF Current
  <2> QED
    BY <2>1, <2>2, <2>4
<1>6. \A row : SaveFails(row) => disk' = disk
  BY DEF SaveFails, RollsBack
<1>3. ASSUME NEW t \in Streams, disk' # disk,
             Start(t) \/ Take(t) \/ RunStep(t) \/ TitleArrives(t) \/ TakeTitle(t)
      PROVE  \E s \in Memory : Writes(s)
  <2> DEFINE o == of[t]
  <2>1. phase[t] # "none"
    BY <1>3 DEF Start, Take, RunStep, Finish, Fail, CancelRun, TitleArrives, TakeTitle,
                OwnerInv, Placed
  <2>2. o \in Owners
    BY <2>1, OwnerOfStream
  <2>3. UNCHANGED <<renames, deletes>>
    BY <1>3 DEF Start, Take, Admit, RunStep, Finish, Fail, CancelRun, Abort,
                TitleArrives, TakeTitle, TitleDone, bounds
  <2>4. CASE Start(t) \/ Take(t)
    <3>1. disk' = Stored(Current(o)) /\ txn # "stale"
      BY <1>3, <1>6, <2>4 DEF Start, Take, Admit, Enter, Refuse, Commit, Save
    <3> QED
      BY <1>2, <2>2, <2>3, <3>1
  <2>5. CASE RunStep(t)
    <3>1. phase[t] = "running" /\ disk' = Stored(mem[o]) /\ txn # "stale"
      BY <1>3, <1>6, <2>5 DEF RunStep, Finish, Fail, CancelRun, Abort, Commit, Save
    <3>2. mem[o].loaded
      BY <3>1 DEF OwnerInv, HolderOk
    <3> QED
      BY <1>2, <2>2, <2>3, <3>1, <3>2
  <2>6. CASE TitleArrives(t) \/ TakeTitle(t)
    <3> DEFINE s == [Current(o) EXCEPT !.title = t]
    <3>1. s \in Memory
      BY <1>2, <2>2 DEF Memory, Titles
    <3> HIDE DEF s
    <3>2. Current(o).title = "none" /\ disk' = Stored(s) /\ txn # "stale"
      BY <1>3, <1>6, <2>6 DEF TitleArrives, TakeTitle, SetTitleIfEmpty, Commit, Save, s
    <3> QED
      BY <1>2, <2>2, <2>3, <3>1, <3>2
  <2> QED
    BY <1>3, <2>4, <2>5, <2>6
<1>4. ASSUME NEW t \in Streams,
             Chat(t) \/ Wait(t) \/ CancelQueued(t) \/ Hear(t) \/ Disconnect(t) \/ TitleGivesUp(t)
      PROVE  disk' = disk
  BY <1>4 DEF Chat, Wait, CancelQueued, Hear, Disconnect, TitleGivesUp
<1>5. Cancel \/ UNCHANGED vars => disk' = disk
  BY DEF Cancel, vars
<1>7. OthersSave => disk' = disk \/ (disk' = conn /\ txn \in {"read", "write"})
  BY DEF OthersSave, RollsBack
<1> QED
  BY <1>3, <1>4, <1>5, <1>7 DEF Next, DriveStep, TitleStep

\* Only an archive or unarchive request changes the archive flag of a stored
\* conversation: whoever writes the row copies it, a save that breaks off too
\* (_sync_save).
THEOREM ArchiveFlagKept == Spec => ArchiveKept
<1>1. ASSUME OwnerInv, [Next]_vars, disk.live, disk'.live, disk'.archived # disk.archived
      PROVE  flips' = flips + 1
  <2>1. disk \in Row /\ StoreOk /\ StoreTyped
    BY <1>1 DEF OwnerInv, TypeOK, StoreTyped
  <2>5. txn # "stale" => conn.live /\ conn.archived = disk.archived
    BY <1>1, <2>1 DEF StoreOk, StoreTyped
  <2>2. ASSUME NEW s \in Memory, disk' = Stored(s), txn # "stale"
        PROVE  disk'.archived = disk.archived
    <3>1. disk'.archived = (conn.live /\ conn.archived) /\ disk.archived \in BOOLEAN
      BY <2>1, <2>2 DEF Stored, Row
    <3> QED
      BY <2>2, <2>5, <3>1
  <2>3. Rename => disk'.archived = disk.archived
    BY <2>1 DEF Rename, Written, Row
  <2>4. Delete => ~ disk'.live
    BY DEF Delete, Written, NoRow
  <2>6. disk' = conn /\ txn \in {"read", "write"} => disk'.archived = disk.archived
    BY <2>5
  <2> QED
    BY <1>1, <2>2, <2>3, <2>4, <2>6, RowWritten DEF Flip
<1>2. OwnerInv /\ [Next]_vars =>
        [(disk.live /\ disk'.live /\ disk'.archived # disk.archived)
           => flips' = flips + 1]_vars
  BY <1>1
<1> QED
  BY <1>2, OwnerInductive, PTL DEF Spec, ArchiveKept

\* A title that is there is not replaced by a generated one, however many titles
\* are generated at the same time (set_title_if_empty looks again under the
\* lock), unless a save broke off.
THEOREM FirstTitleStays == Spec => TitleSetOnce
<1>1. ASSUME OwnerInv, [Next]_vars, disk.title # "none", ~ broken, renames' = 0, deletes' = 0
      PROVE  disk'.title = disk.title
  <2>1. disk \in Row /\ renames \in Nat /\ deletes \in Nat /\ StoreOk
    BY <1>1 DEF OwnerInv, TypeOK
  <2>2. ~ Rename /\ ~ Delete
    BY <1>1, <2>1 DEF Rename, Delete
  <2>3. ASSUME NEW s \in Memory, disk' = Stored(s), disk.title \in {"none", s.title}
        PROVE  disk'.title = disk.title
    BY <1>1, <2>3 DEF Stored
  <2>4. Flip => disk'.title = disk.title
    BY <2>1 DEF Flip, Written, Row
  <2>5. disk' = conn /\ txn \in {"read", "write"} => disk' = disk
    BY <1>1, <2>1 DEF StoreOk
  <2> QED
    BY <1>1, <2>2, <2>3, <2>4, <2>5, RowWritten
<1>2. OwnerInv /\ [Next]_vars =>
        [(disk.title # "none" /\ ~ broken /\ renames' = 0 /\ deletes' = 0)
           => disk'.title = disk.title]_vars
  BY <1>1
<1> QED
  BY <1>2, OwnerInductive, PTL DEF Spec, TitleSetOnce
=============================================================================
