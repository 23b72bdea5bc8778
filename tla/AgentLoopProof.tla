--------------------------- MODULE AgentLoopProof ---------------------------
(***************************************************************************)
(* Theorems about AgentLoop, for every set of works, every bound and every *)
(* number of crashes, cancels and failed commits.                          *)
(***************************************************************************)
EXTENDS AgentLoopInv

USE DEF store

\* No transaction was left open.
Steady == ~ dangling /\ conn = disk

\* What a commit makes of the invariant's view of the transcript.
CommittedOk ==
  /\ Good(mem.log)
  /\ effects \subseteq Occurrences(mem.log)
  /\ Len(disk.log) <= Len(mem.log)
  /\ cont \in {"turn_start", "turn_check", "turn_saved"} =>
       Settled(mem.log) /\ mem.wait = "none" /\ mem.log # <<>>
  /\ cont = "responded" =>
       /\ Pending(mem.log, at, 1) /\ mem.wait = "none"
       /\ effects \cap UnresolvedIds(mem.log) = {}
  /\ cont \in {"tool_saved", "skip_saved"} =>
       /\ Pending(mem.log, at, idx + 1) /\ mem.wait = "none"
       /\ at \in DOMAIN mem.log /\ idx \in 1 .. Len(mem.log[at].calls)
       /\ effects \cap UnresolvedIds(mem.log) = {}

LEMMA CommitFacts ==
  ASSUME IInv, pc = "commit"
  PROVE  CommittedOk
<1>1. /\ Good(disk.log) /\ effects \subseteq Occurrences(disk.log)
      /\ Saving /\ cont \in Continuations /\ disk.log \in Seq(Entry)
      /\ mem.log \in Seq(Entry)
  BY DEF IInv, TypeOK, State
<1>2. CASE mem.log = disk.log /\ cont \in {"report_wait", "turn_saved",
                                             "end_cancelled", "end_failed"}
  BY <1>1, <1>2 DEF CommittedOk, Saving, SavingStatus, SavingInput
<1>3. CASE cont = "turn_start"
  <2>1. CASE UnresolvedIds(disk.log) = {} /\ mem.log = Append(disk.log, Human)
    <3>1. Settled(disk.log)
      BY <1>1, <2>1 DEF Settled
    <3>2. Settled(mem.log) /\ mem.log # <<>> /\ Len(disk.log) <= Len(mem.log)
          /\ Occurrences(disk.log) \subseteq Occurrences(mem.log)
      BY <2>1, <3>1, AppendHuman
    <3>3. QED
      BY <1>1, <1>3, <3>2 DEF CommittedOk, Saving, SavingInput, Settled
  <2>2. CASE mem.log = disk.log \o <<Results(UnresolvedIds(disk.log)), Human>>
    <3>1. Settled(mem.log) /\ mem.log # <<>> /\ Len(disk.log) <= Len(mem.log)
          /\ Occurrences(disk.log) \subseteq Occurrences(mem.log)
      BY <1>1, <2>2, AppendConfirmed
    <3>2. QED
      BY <1>1, <1>3, <3>1 DEF CommittedOk, Saving, SavingInput, Settled
  <2>3. QED
    BY <1>1, <1>3, <2>1, <2>2 DEF Saving, SavingInput
<1>4. ASSUME Settled(disk.log), mem.log = Append(disk.log, Assistant(<<>>)),
             cont \in {"turn_check", "end_failed"}
      PROVE  CommittedOk
  <2>1. /\ Pending(mem.log, Len(disk.log) + 1, 1) /\ mem.log # <<>>
        /\ Len(disk.log) <= Len(mem.log)
        /\ Occurrences(disk.log) \subseteq Occurrences(mem.log)
    <3>1. <<>> \in Seq(Call)
          /\ \A k \in DOMAIN <<>> : <<>>[k].id = <<Len(disk.log) + 1, k>>
      OBVIOUS
    <3> DEFINE L == disk.log
               M == mem.log
               c == <<>>
    <3>2. Settled(L) /\ M = Append(L, Assistant(c)) /\ c \in Seq(Call)
          /\ \A k \in DOMAIN c : c[k].id = <<Len(L) + 1, k>>
      BY <1>4, <3>1
    <3> HIDE DEF L, M, c
    <3>3. /\ Pending(M, Len(L) + 1, 1) /\ M # <<>> /\ Len(L) <= Len(M)
          /\ Occurrences(L) \subseteq Occurrences(M)
      BY <3>2, AppendAssistant
    <3>4. QED
      BY <3>3 DEF L, M
  <2>2. mem.log[Len(disk.log) + 1].calls = <<>>
    <3>1. Assistant(<<>>) \in Entry /\ Assistant(<<>>).calls = <<>>
      BY EntryConstructors
    <3>2. mem.log[Len(disk.log) + 1] = Assistant(<<>>)
      BY <1>1, <1>4, <3>1, AppendEntry
    <3>3. QED
      BY <3>1, <3>2, Zenon
  <2>3. Settled(mem.log)
    BY <2>1, <2>2, PendingEmpty
  <2>4. cont = "turn_check" => mem.wait = "none"
    BY <1>1 DEF Saving, SavingAnswer
  <2>5. Good(mem.log)
    BY <2>3 DEF Settled
  <2>6. QED
    BY <1>1, <1>4, <2>1, <2>3, <2>4, <2>5 DEF CommittedOk
<1>5. CASE cont = "responded"
  <2>1. /\ Settled(disk.log) /\ mem.wait = "none" /\ at = Len(disk.log) + 1
        /\ at \in DOMAIN mem.log
        /\ mem.log = Append(disk.log, Assistant(Calls))
        /\ \A k \in DOMAIN Calls : Calls[k].id = <<at, k>>
    BY <1>1, <1>5 DEF Saving, SavingAnswer
  <2>2. Calls \in Seq(Call)
    BY <1>1, <2>1, EntryType DEF Calls
  <2>3. /\ Pending(mem.log, at, 1) /\ mem.log # <<>>
        /\ Len(disk.log) <= Len(mem.log)
        /\ Occurrences(disk.log) \subseteq Occurrences(mem.log)
        /\ Occurrences(disk.log) \cap UnresolvedIds(mem.log) = {}
    <3> HIDE DEF Calls
    <3>1. QED
      BY <2>1, <2>2, AppendAssistant
  <2>4. Good(mem.log)
    BY <2>3 DEF Pending
  <2>5. QED
    BY <1>1, <1>5, <2>1, <2>3, <2>4 DEF CommittedOk
<1>6. ASSUME NEW n \in Nat, Pending(disk.log, at, n), n <= Len(disk.log[at].calls),
             mem.log = Append(disk.log, ResultOf(at, n)),
             Lost \subseteq {<<at, n>>}
      PROVE  /\ Pending(mem.log, at, n + 1) /\ at \in DOMAIN mem.log
             /\ mem.log[at] = disk.log[at]
             /\ effects \cap UnresolvedIds(mem.log) = {}
             /\ Good(mem.log) /\ effects \subseteq Occurrences(mem.log)
             /\ Len(disk.log) <= Len(mem.log)
  <2>1. /\ Pending(mem.log, at, n + 1) /\ Len(disk.log) <= Len(mem.log)
        /\ Occurrences(disk.log) \subseteq Occurrences(mem.log)
        /\ mem.log[at] = disk.log[at]
        /\ UnresolvedIds(mem.log) = UnresolvedIds(disk.log) \ {<<at, n>>}
    <3>1. \A L, M : (Pending(L, at, n) /\ n <= Len(L[at].calls) /\ M = Append(L, ResultOf(at, n)))
               => /\ Pending(M, at, n + 1) /\ Len(L) <= Len(M) /\ M[at] = L[at]
                  /\ Occurrences(M) = Occurrences(L)
                  /\ UnresolvedIds(M) = UnresolvedIds(L) \ {<<at, n>>}
      BY AppendResult
    <3>2. QED
      BY <1>6, <3>1
  <2>2. Good(mem.log) /\ at \in DOMAIN mem.log
    BY <2>1 DEF Pending
  <2>3. effects \cap UnresolvedIds(mem.log) = {}
    BY <1>6, <2>1 DEF Lost
  <2>4. QED
    BY <1>1, <2>1, <2>2, <2>3
<1>7. CASE cont \in {"tool_saved", "skip_saved"}
  <2>1. /\ Pending(disk.log, at, idx) /\ BatchDone(idx) /\ mem.wait = "none"
        /\ mem.log = Append(disk.log, ResultOf(at, idx))
        /\ Lost \subseteq {<<at, idx>>}
    BY <1>1, <1>7, Zenon DEF Saving, SavingResult
  <2>2. /\ idx \in 1 .. Len(disk.log[at].calls) /\ idx <= Len(disk.log[at].calls)
        /\ idx \in Nat
    BY <2>1 DEF BatchDone
  <2>3. /\ Pending(mem.log, at, idx + 1) /\ at \in DOMAIN mem.log
        /\ mem.log[at] = disk.log[at]
        /\ effects \cap UnresolvedIds(mem.log) = {}
        /\ Good(mem.log) /\ effects \subseteq Occurrences(mem.log)
        /\ Len(disk.log) <= Len(mem.log)
    BY <1>6, <2>1, <2>2
  <2>4. QED
    BY <1>7, <2>1, <2>2, <2>3 DEF CommittedOk
<1>8. CASE cont = "pause"
  <2>1. /\ Pending(disk.log, at, 1) /\ Len(disk.log[at].calls) = 1
        /\ mem.log = Append(disk.log, ResultOf(at, 1))
        /\ Lost = {}
    BY <1>1, <1>8, Zenon DEF Saving, SavingResult
  <2>2. /\ Pending(mem.log, at, 1 + 1) /\ Good(mem.log)
        /\ effects \subseteq Occurrences(mem.log) /\ Len(disk.log) <= Len(mem.log)
    <3>1. 1 <= Len(disk.log[at].calls) /\ Lost \subseteq {<<at, 1>>}
      BY <2>1
    <3>2. QED
      BY <1>6, <2>1, <3>1, Zenon
  <2>3. QED
    BY <1>8, <2>2 DEF CommittedOk
<1>9. QED
  BY <1>1, <1>2, <1>3, <1>4, <1>5, <1>7, <1>8
     DEF Continuations, Saving, SavingInput, SavingAnswer, SavingStatus

-----------------------------------------------------------------------------
(* Types. *)

LEMMA InitInv == Init => IInv
<1>1. Good(<<>>)
  BY DEF Good, WellFormed
<1>2. Init => TypeOK
  <2>1. Fresh \in State /\ "turn_start" \in Continuations
    BY DEF State, Fresh, Continuations
  <2>2. <<>> \in Seq(Works) /\ <<>> \in Seq(BOOLEAN)
    OBVIOUS
  <2>3. SUFFICES ASSUME Init PROVE TypeOK
    OBVIOUS
  <2>4. /\ disk \in State /\ conn \in State /\ mem \in State /\ dangling \in BOOLEAN
        /\ torn \in BOOLEAN /\ cont \in Continuations
        /\ pc = "idle" /\ loaded \in BOOLEAN /\ asked \in BOOLEAN /\ blocked \in BOOLEAN
    BY <2>1, <2>3 DEF Init
  <2>5. /\ lastSig \in Seq(Works) /\ inbox \in Seq(BOOLEAN)
    BY <2>2, <2>3 DEF Init
  <2>6. /\ turn \in Nat /\ at \in Nat /\ idx \in Nat /\ repeats \in Nat
        /\ submitted \in Nat /\ faults \in Nat /\ shown \in Nat
        /\ effects \in SUBSET (Nat \X Nat)
    BY <2>3 DEF Init
  <2>7. QED
    BY <2>4, <2>5, <2>6 DEF TypeOK
<1>3. QED
  BY <1>1, <1>2 DEF Init, IInv, AtRest, Fresh

LEMMA TypeOfEntries ==
  /\ Human \in Entry
  /\ \A c \in Seq(Call) : Assistant(c) \in Entry
  /\ \A I \in SUBSET CallId : Results(I) \in Entry
  /\ <<>> \in Seq(Call)
BY DEF Human, Assistant, Results, Entry

\* A message without calls, which the loop writes itself.
LEMMA FinalMessage ==
  ASSUME NEW L \in Seq(Entry)
  PROVE  Append(L, Assistant(<<>>)) \in Seq(Entry)
<1>1. Assistant(<<>>) \in Entry
  BY TypeOfEntries
<1>2. QED
  BY <1>1

LEMMA TypeOfSignature ==
  ASSUME NEW c \in Seq(Call)
  PROVE  Signature(c) \in Seq(Works) /\ \A k \in DOMAIN c : c[k].id \in CallId
<1>1. Len(c) \in Nat /\ DOMAIN c = 1 .. Len(c)
  OBVIOUS
<1>2. \A k \in 1 .. Len(c) : c[k] \in Call
  OBVIOUS
<1>3. \A x \in Call : x.work \in Works /\ x.id \in CallId
  BY DEF Call
<1>4. Signature(c) \in [1 .. Len(c) -> Works]
  BY <1>1, <1>2, <1>3 DEF Signature
<1>5. QED
  BY <1>1, <1>2, <1>3, <1>4

\* Where a result is appended, the batch and the call are there.
LEMMA CallInProgress ==
  ASSUME IInv, pc \in {"tool", "executing", "skip", "responded"}
  PROVE  /\ mem = disk /\ at \in DOMAIN mem.log /\ Calls \in Seq(Call)
         /\ Pending(mem.log, at, IF pc = "responded" THEN 1 ELSE idx)
         /\ mem.wait = "none" /\ Lost = IF pc = "executing" THEN {<<at, idx>>} ELSE {}
         /\ \A k \in DOMAIN Calls : Calls[k].id = <<at, k>> /\ Calls[k].id \in CallId
<1>1. mem = disk /\ at \in Nat /\ idx \in Nat
  BY DEF IInv, AtRest, TypeOK
<1>2. /\ Pending(disk.log, at, IF pc = "responded" THEN 1 ELSE idx)
      /\ disk.wait = "none" /\ Lost = IF pc = "executing" THEN {<<at, idx>>} ELSE {}
  BY DEF IInv, AtRest
<1>3. at \in DOMAIN disk.log /\ disk.log \in Seq(Entry)
      /\ \A k \in DOMAIN disk.log[at].calls : disk.log[at].calls[k].id = <<at, k>>
  BY <1>2 DEF Pending, Good
<1>4. Calls \in Seq(Call)
  BY <1>1, <1>3, EntryType DEF Calls
<1>5. \A k \in DOMAIN Calls : Calls[k].id \in CallId
  BY <1>4, TypeOfSignature
<1>6. QED
  BY <1>1, <1>2, <1>3, <1>4, <1>5 DEF Calls

LEMMA FreshType == Fresh \in State /\ Fresh.log = <<>>
BY DEF Fresh, State

\* The end of a run, whether it returns or unwinds, keeps the types.
LEMMA EndRunType ==
  ASSUME TypeOK, EndRun
  PROVE  /\ pc' = "idle" /\ cont' \in Continuations
         /\ turn' \in Nat /\ at' \in Nat /\ idx' \in Nat /\ repeats' \in Nat
         /\ blocked' \in BOOLEAN /\ lastSig' \in Seq(Works)
<1>1. <<>> \in Seq(Works)
  OBVIOUS
<1>2. QED
  BY <1>1 DEF EndRun, Continuations

LEMMA UnwindType ==
  ASSUME TypeOK, Unwind, disk' \in State, conn' \in State,
         dangling' \in BOOLEAN, torn' \in BOOLEAN,
         effects' \in SUBSET (Nat \X Nat), shown' \in Nat,
         inbox' \in Seq(BOOLEAN), faults' \in Nat, UNCHANGED <<asked, submitted>>
  PROVE  TypeOK'
<1>1. EndRun /\ mem' \in State /\ loaded' \in BOOLEAN
  BY FreshType DEF Unwind
<1>2. QED
  BY <1>1, EndRunType DEF TypeOK

LEMMA CommittedType ==
  ASSUME mem \in State
  PROVE  /\ Committed \in State /\ Committed.log = mem.log /\ Committed.wait = mem.wait
         /\ Committed.rev = mem.rev + 1
BY DEF State, Committed

\* A step to a commit that leaves the locals alone.
LEMMA SaveType ==
  ASSUME TypeOK, pc' = "commit", cont' \in Continuations, mem' \in State,
         UNCHANGED store, loaded' \in BOOLEAN, inbox' \in Seq(BOOLEAN), asked' \in BOOLEAN,
         submitted' \in Nat, faults' \in Nat, shown' \in Nat, effects' = effects,
         UNCHANGED locals
  PROVE  TypeOK'
BY DEF TypeOK, locals

\* The types of what a save leaves in the file and in the connection.
LEMMA ForgetType ==
  ASSUME TypeOK, NEW L \in Seq(Entry), Forget(L)
  PROVE  effects' \in SUBSET (Nat \X Nat) /\ shown' \in Nat /\ shown' <= Len(L)
         /\ shown' <= shown /\ effects' = effects \cap Occurrences(L)
<1>1. effects \in SUBSET (Nat \X Nat) /\ shown \in Nat /\ Len(L) \in Nat
  BY DEF TypeOK
<1>2. QED
  BY <1>1 DEF Forget

LEMMA StoredType ==
  ASSUME TypeOK, Stored
  PROVE  /\ disk' \in State /\ conn' \in State /\ dangling' = FALSE /\ torn' = FALSE
         /\ effects' \in SUBSET (Nat \X Nat) /\ shown' \in Nat
<1>1. Committed \in State /\ mem.log \in Seq(Entry)
  BY CommittedType DEF TypeOK, State
<1>2. CASE dangling
  BY <1>1, <1>2, ForgetType DEF Stored
<1>3. CASE ~ dangling
  BY <1>1, <1>3 DEF Stored, world, TypeOK
<1>4. QED
  BY <1>2, <1>3

LEMMA FaultType ==
  ASSUME TypeOK, Fault
  PROVE  TypeOK'
<1>1. /\ faults + 1 \in Nat /\ faults \in Nat /\ disk \in State /\ mem \in State
      /\ conn \in State /\ dangling \in BOOLEAN /\ torn \in BOOLEAN
      /\ inbox \in Seq(BOOLEAN) /\ asked \in BOOLEAN /\ submitted \in Nat
      /\ loaded \in BOOLEAN /\ shown \in Nat /\ effects \in SUBSET (Nat \X Nat)
  BY DEF TypeOK
<1>2. CASE CommitFails
  BY <1>1, <1>2, UnwindType DEF CommitFails, RolledBack, user, world
<1>3. CASE CommitCancelled
  <2>1. CASE Stored
    BY <1>1, <1>3, <2>1, StoredType, UnwindType DEF CommitCancelled, user
  <2>2. CASE UNCHANGED <<store, world>>
    BY <1>1, <1>3, <2>2, UnwindType DEF CommitCancelled, user, world
  <2>3. QED
    BY <1>3, <2>1, <2>2 DEF CommitCancelled
<1>4. CASE Crash
  <2>1. <<>> \in Seq(BOOLEAN)
    OBVIOUS
  <2>2. QED
    BY <1>1, <1>4, <2>1, UnwindType DEF Crash, RolledBack, world
<1>5. CASE Fail
  <2>1. mem' \in State /\ UNCHANGED <<store, loaded, locals, user, world>>
        /\ pc' = "commit" /\ cont' = "end_failed" /\ faults' = faults + 1
    BY <1>1, <1>5 DEF Fail, SaveThen, State
  <2>2. QED
    BY <1>1, <2>1, SaveType DEF Continuations, user, world
<1>6. CASE Cancel
  <2>1. mem' \in State /\ UNCHANGED <<store, loaded, locals, user, world>>
        /\ pc' = "commit" /\ cont' = "end_cancelled" /\ faults' = faults + 1
    BY <1>1, <1>6 DEF Cancel, SaveThen, State
  <2>2. QED
    BY <1>1, <2>1, SaveType DEF Continuations, user, world
<1>7. QED
  BY <1>2, <1>3, <1>4, <1>5, <1>6 DEF Fault

\* A step from a call in progress to the commit of its result.
LEMMA AnsweringFacts ==
  ASSUME IInv, pc \in {"tool", "executing", "skip"}, idx \in DOMAIN Calls
  PROVE  /\ Answering \in State
         /\ Answering.log = Append(mem.log, ResultOf(at, idx))
         /\ Answering.wait = mem.wait /\ Answering.rev = mem.rev
<1>1. mem \in State /\ mem.log \in Seq(Entry)
  BY DEF IInv, TypeOK, State
<1>2. Calls[idx].id = <<at, idx>> /\ {<<at, idx>>} \in SUBSET CallId
  BY CallInProgress
<1>3. Results({<<at, idx>>}) \in Entry
  BY <1>2, TypeOfEntries
<1>4. Answering = [mem EXCEPT !.log = Append(mem.log, ResultOf(at, idx))]
      /\ ResultOf(at, idx) \in Entry
  BY <1>2, <1>3 DEF Answering, ResultOf
<1>5. Append(mem.log, ResultOf(at, idx)) \in Seq(Entry)
  BY <1>1, <1>4
<1>6. QED
  BY <1>1, <1>4, <1>5 DEF State

LEMMA InDomain ==
  ASSUME IInv, pc \in {"tool", "executing"} \/ (pc = "skip" /\ idx <= Len(Calls))
  PROVE  idx \in DOMAIN Calls /\ idx \in Nat /\ idx \in 1 .. Len(disk.log[at].calls)
<1>1. Calls \in Seq(Call) /\ Calls = disk.log[at].calls /\ idx \in Nat
  BY CallInProgress DEF Calls, IInv, TypeOK
<1>2. idx \in 1 .. Len(Calls)
  <2>1. CASE pc \in {"tool", "executing"}
    BY <1>1, <2>1 DEF IInv, AtRest, BatchDone
  <2>2. CASE pc = "skip" /\ idx <= Len(Calls)
    <3>1. Pending(disk.log, at, idx) /\ Len(Calls) \in Nat
      BY <1>1, <2>2 DEF IInv, AtRest
    <3>2. QED
      BY <1>1, <2>2, <3>1 DEF Pending
  <2>3. QED
    BY <2>1, <2>2
<1>3. QED
  BY <1>1, <1>2

LEMMA AcceptType ==
  ASSUME TypeOK, Accept
  PROVE  TypeOK' /\ Current \in State
<1>1. /\ conn \in State /\ mem \in State /\ inbox \in Seq(BOOLEAN) /\ asked \in BOOLEAN
      /\ faults \in Nat /\ submitted \in Nat /\ shown \in Nat /\ effects \in SUBSET (Nat \X Nat)
  BY DEF TypeOK
<1>2. Current \in State /\ Current.log \in Seq(Entry)
  BY <1>1 DEF Current, State
<1>3. inbox # <<>>
  BY DEF Accept, AcceptUnknown, AcceptPrompt
<1>4. Tail(inbox) \in Seq(BOOLEAN)
  BY <1>1, <1>3
<1>5. CASE AcceptUnknown
  <2>1. mem' \in State
    BY <1>2, <1>5 DEF AcceptUnknown, State
  <2>2. QED
    BY <1>1, <1>2, <1>4, <1>5, <2>1, SaveType DEF AcceptUnknown, SaveThen, Continuations, world
<1>6. CASE AcceptPrompt
  <2>1. Continued \in Seq(Entry)
    <3>1. UnresolvedIds(Current.log) \subseteq CallId
      <4>1. RequestedIds(Current.log) \subseteq CallId
        <5>1. \A i \in DOMAIN Current.log : Current.log[i].calls \in Seq(Call)
          BY <1>2, EntryType
        <5>2. \A i \in DOMAIN Current.log : \A k \in DOMAIN Current.log[i].calls :
                 Current.log[i].calls[k].id \in CallId
          BY <5>1, TypeOfSignature
        <5>3. QED
          BY <5>2 DEF RequestedIds
      <4>2. QED
        BY <4>1 DEF UnresolvedIds
    <3>2. Human \in Entry /\ Results(UnresolvedIds(Current.log)) \in Entry
      BY <3>1, TypeOfEntries
    <3> DEFINE R == Results(UnresolvedIds(Current.log))
               H == Human
               L == Current.log
    <3>3. /\ R \in Entry /\ H \in Entry /\ L \in Seq(Entry)
          /\ Continued \in {Append(L, H), L \o <<R, H>>}
      BY <1>2, <3>2 DEF Continued
    <3> HIDE DEF R, H, L
    <3>4. Append(L, H) \in Seq(Entry) /\ L \o <<R, H>> \in Seq(Entry)
      BY <3>3
    <3>5. QED
      BY <3>3, <3>4
  <2>2. mem' \in State
    BY <1>2, <1>6, <2>1 DEF AcceptPrompt, State
  <2>3. QED
    BY <1>1, <1>2, <1>4, <1>6, <2>2, SaveType DEF AcceptPrompt, SaveThen, Continuations, world
<1>7. QED
  BY <1>2, <1>5, <1>6 DEF Accept

\* What the provider asks for, with the ids it gives.
LEMMA InferredCalls ==
  ASSUME NEW b \in Batches, NEW c \in Nat
  PROVE  LET calls == [k \in DOMAIN b |-> [work |-> b[k], id |-> <<c, k>>]]
         IN  /\ calls \in Seq(Call) /\ DOMAIN calls = DOMAIN b
             /\ \A k \in DOMAIN calls : calls[k].id = <<c, k>>
<1> DEFINE calls == [k \in DOMAIN b |-> [work |-> b[k], id |-> <<c, k>>]]
<1>1. PICK n \in 0 .. MaxCalls : b \in [1 .. n -> Works]
  BY DEF Batches
<1>2. n \in Nat /\ DOMAIN b = 1 .. n /\ \A k \in 1 .. n : b[k] \in Works
  BY <1>1, LoopAssumption
<1>3. \A k \in 1 .. n : [work |-> b[k], id |-> <<c, k>>] \in Call
  BY <1>2 DEF Call, CallId
<1>4. calls \in [1 .. n -> Call]
  BY <1>2, <1>3
<1>5. calls \in Seq(Call)
  BY <1>2, <1>4
<1>6. QED
  BY <1>5

LEMMA ToolType ==
  ASSUME IInv, ToolStep \/ SkipStep
  PROVE  TypeOK'
<1>1. TypeOK
  BY DEF IInv
<1>2. /\ mem \in State /\ mem.log \in Seq(Entry) /\ at \in Nat /\ idx \in Nat /\ blocked \in BOOLEAN
      /\ idx + 1 \in Nat /\ loaded \in BOOLEAN /\ inbox \in Seq(BOOLEAN) /\ asked \in BOOLEAN
      /\ submitted \in Nat /\ faults \in Nat /\ shown \in Nat /\ Len(mem.log) \in Nat
      /\ effects \in SUBSET (Nat \X Nat)
  BY <1>1 DEF TypeOK, State
<1>3. ASSUME mem' = Answering, idx \in DOMAIN Calls, pc \in {"tool", "executing", "skip"},
             SaveThen("tool_saved") \/ SaveThen("skip_saved"),
             UNCHANGED <<store, loaded, locals, user, world, faults>>
      PROVE  TypeOK'
  BY <1>1, <1>2, <1>3, AnsweringFacts, SaveType DEF SaveThen, Continuations, user, world
<1>4. CASE StartTool
  <2>1. effects \cup {<<at, idx>>} \in SUBSET (Nat \X Nat)
    BY <1>2
  <2>2. QED
    BY <1>1, <1>4, <2>1 DEF StartTool, TypeOK, state, locals, user
<1>5. CASE ToolReturns
  BY <1>3, <1>5, InDomain DEF ToolReturns, ResultBarrier
<1>6. CASE RefuseTool
  BY <1>3, <1>6, InDomain DEF RefuseTool, ResultBarrier
<1>7. CASE BlockTool
  <2>1. Answering \in State
    BY <1>7, InDomain, AnsweringFacts DEF BlockTool
  <2>2. mem' \in State
    BY <1>7, <2>1 DEF BlockTool, State
  <2>3. QED
    BY <1>1, <1>2, <1>7, <2>2 DEF BlockTool, SaveThen, TypeOK, Continuations, user, world
<1>8. CASE ToolSaved
  BY <1>1, <1>2, <1>8 DEF ToolSaved, TypeOK, state, user, Continuations
<1>9. CASE SkipCall
  BY <1>3, <1>9, InDomain DEF SkipCall
<1>10. CASE SkipSaved
  BY <1>1, <1>2, <1>10 DEF SkipSaved, TypeOK, state, user, Continuations
<1>11. CASE RepeatStop
  <2>1. Append(mem.log, Assistant(<<>>)) \in Seq(Entry)
    BY <1>2, FinalMessage
  <2>2. mem' \in State
    BY <1>2, <1>11, <2>1 DEF RepeatStop, State
  <2>3. QED
    BY <1>1, <1>2, <1>11, <2>2, SaveType DEF RepeatStop, SaveThen, Continuations, user, world
<1>12. QED
  BY <1>4, <1>5, <1>6, <1>7, <1>8, <1>9, <1>10, <1>11 DEF ToolStep, SkipStep

LEMMA TurnType ==
  ASSUME IInv, TurnStep
  PROVE  TypeOK'
<1>1. TypeOK
  BY DEF IInv
<1>2. /\ mem \in State /\ mem.log \in Seq(Entry) /\ turn \in Nat /\ turn + 1 \in Nat
      /\ loaded \in BOOLEAN /\ inbox \in Seq(BOOLEAN) /\ asked \in BOOLEAN
      /\ submitted \in Nat /\ faults \in Nat /\ shown \in Nat /\ Len(mem.log) \in Nat
      /\ Len(mem.log) + 1 \in Nat
  BY <1>1 DEF TypeOK, State
<1>3. CASE StartTurn
  BY <1>1, <1>2, <1>3 DEF StartTurn, TypeOK, state, user, world, Continuations
<1>4. CASE Infer
  <2>1. PICK b \in Batches :
          LET calls == [k \in DOMAIN b |-> [work |-> b[k], id |-> <<CallNumber, k>>]]
          IN mem' = [mem EXCEPT !.log = Append(@, Assistant(calls)),
                                !.finish = IF b = <<>> THEN "completed" ELSE @,
                                !.next = IF b = <<>> THEN "finish" ELSE @]
    BY <1>4 DEF Infer
  <2> DEFINE calls == [k \in DOMAIN b |-> [work |-> b[k], id |-> <<CallNumber, k>>]]
  <2>2. calls \in Seq(Call)
    <3>1. CallNumber \in Nat
      BY <1>2 DEF CallNumber
    <3>2. QED
      BY <3>1, InferredCalls
  <2>3. Append(mem.log, Assistant(calls)) \in Seq(Entry)
    <3>1. Assistant(calls) \in Entry
      BY <2>2, TypeOfEntries
    <3> HIDE DEF calls
    <3>2. QED
      BY <1>2, <3>1
  <2>4. mem' = [mem EXCEPT !.log = Append(mem.log, Assistant(calls)),
                           !.finish = IF b = <<>> THEN "completed" ELSE mem.finish,
                           !.next = IF b = <<>> THEN "finish" ELSE mem.next]
    BY <2>1
  <2> HIDE DEF calls
  <2>5. mem' \in State
    BY <1>2, <2>3, <2>4 DEF State
  <2>6. QED
    <3>1. /\ at' = Len(mem.log) + 1 /\ pc' = "commit" /\ cont' = "responded"
          /\ UNCHANGED <<store, loaded, turn, idx, blocked, lastSig, repeats, user, world, faults>>
      BY <1>4 DEF Infer, AssistantBarrier, SaveThen
    <3>2. QED
      BY <1>1, <1>2, <2>5, <3>1 DEF TypeOK, Continuations, user, world
<1>5. CASE TurnLimit
  <2>1. Append(mem.log, Assistant(<<>>)) \in Seq(Entry)
    BY <1>2, FinalMessage
  <2>2. mem' \in State
    BY <1>2, <1>5, <2>1 DEF TurnLimit, State
  <2>3. QED
    BY <1>1, <1>2, <1>5, <2>2 DEF TurnLimit, TypeOK, locals, user, world
<1>6. CASE LimitSave
  <2>1. mem' \in State
    BY <1>2, <1>6 DEF LimitSave, State
  <2>2. QED
    BY <1>1, <1>2, <1>6, <2>1, SaveType DEF LimitSave, SaveThen, Continuations, user, world
<1>7. CASE EndTurn
  BY <1>1, <1>2, <1>7, SaveType DEF EndTurn, SaveThen, Continuations, state, user, world
<1>8. CASE NextTurn
  BY <1>1, <1>8 DEF NextTurn, TypeOK, state, locals, user, world, Continuations
<1>9. QED
  BY <1>3, <1>4, <1>5, <1>6, <1>7, <1>8 DEF TurnStep

\* The wait call is the only one of its batch.
LEMMA PausedFacts ==
  ASSUME IInv, pc = "responded", Signature(Calls) = <<WaitWork>>
  PROVE  /\ Len(Calls) = 1 /\ 1 \in DOMAIN Calls
         /\ Paused = Append(mem.log, ResultOf(at, 1)) /\ Paused \in Seq(Entry)
<1>1. Calls \in Seq(Call) /\ mem.log \in Seq(Entry)
  BY CallInProgress DEF IInv, TypeOK, State
<1>2. DOMAIN Calls = DOMAIN Signature(Calls)
  BY DEF Signature
<1>3. DOMAIN Signature(Calls) = 1 .. 1
  OBVIOUS
<1>4. Len(Calls) = 1 /\ 1 \in DOMAIN Calls
  BY <1>1, <1>2, <1>3
<1>5. Calls[1].id = <<at, 1>> /\ {<<at, 1>>} \in SUBSET CallId
  BY <1>4, CallInProgress
<1>6. Results({<<at, 1>>}) \in Entry
  BY <1>5, TypeOfEntries
<1>7. Paused = Append(mem.log, ResultOf(at, 1)) /\ ResultOf(at, 1) \in Entry
  BY <1>5, <1>6 DEF Paused, ResultOf
<1>8. QED
  BY <1>1, <1>4, <1>7

LEMMA RespondType ==
  ASSUME IInv, Respond
  PROVE  TypeOK'
<1>1. TypeOK
  BY DEF IInv
<1>2. /\ mem \in State /\ mem.log \in Seq(Entry) /\ Len(mem.log) \in Nat
      /\ loaded \in BOOLEAN /\ inbox \in Seq(BOOLEAN) /\ asked \in BOOLEAN
      /\ submitted \in Nat /\ faults \in Nat /\ repeats + 1 \in Nat
  BY <1>1 DEF TypeOK, State
<1>3. CASE RespondFinal
  BY <1>1, <1>2, <1>3 DEF RespondFinal, TypeOK, state, locals, user, Continuations
<1>4. CASE RespondWait
  <2>1. Paused \in Seq(Entry)
    BY <1>4, PausedFacts DEF RespondWait
  <2>2. mem' \in State
    BY <1>2, <1>4, <2>1 DEF RespondWait, State
  <2>3. QED
    BY <1>1, <1>2, <1>4, <2>2, SaveType DEF RespondWait, SaveThen, Continuations, user
<1>5. CASE RespondCalls
  <2>1. Signature(Calls) \in Seq(Works)
    BY <1>5, CallInProgress, TypeOfSignature DEF RespondCalls
  <2>2. QED
    BY <1>1, <1>2, <1>5, <2>1 DEF RespondCalls, TypeOK, state, user, Continuations
<1>6. QED
  BY <1>3, <1>4, <1>5 DEF Respond

LEMMA CommitType ==
  ASSUME TypeOK, CommitOk
  PROVE  TypeOK'
<1>1. Committed \in State
  BY CommittedType DEF TypeOK
<1>2. QED
  BY <1>1, StoredType DEF CommitOk, TypeOK, locals, user

LEMMA TypeStep ==
  ASSUME Steady, IInv, [Quiet]_vars
  PROVE  TypeOK'
<1>1. TypeOK
  BY DEF IInv
<1>2. /\ mem \in State /\ disk \in State /\ Len(mem.log) \in Nat
      /\ inbox \in Seq(BOOLEAN) /\ asked \in BOOLEAN
      /\ submitted \in Nat /\ faults \in Nat /\ submitted + 1 \in Nat
  BY <1>1 DEF TypeOK, State
<1>3. CASE UNCHANGED vars
  BY <1>1, <1>3 DEF vars, TypeOK, state, control, locals, user, world
<1>4. CASE Submit
  <2>1. Append(inbox, asked) \in Seq(BOOLEAN)
    BY <1>2
  <2>2. QED
    BY <1>1, <1>2, <1>4, <2>1 DEF Submit, TypeOK, state, control, locals, world
<1>5. CASE CommitOk
  BY <1>1, <1>5, CommitType
<1>6. ASSUME EndRun, UNCHANGED <<state, inbox, submitted, effects, faults>>,
             asked' \in BOOLEAN, shown' \in Nat
      PROVE  TypeOK'
  BY <1>1, <1>6, EndRunType DEF TypeOK, state
<1>7. CASE ReportWait
  BY <1>1, <1>6, <1>7 DEF ReportWait, world, TypeOK
<1>8. CASE Pause
  BY <1>1, <1>2, <1>6, <1>8 DEF Pause, user
<1>9. CASE Finish
  BY <1>1, <1>2, <1>6, <1>9 DEF Finish, user, world, TypeOK
<1>10. CASE Raise
  BY <1>1, <1>2, <1>10, UnwindType DEF Raise, user, world, TypeOK
<1>11. QED
  BY <1>1, <1>3, <1>4, <1>5, <1>7, <1>8, <1>9, <1>10, AcceptType, FaultType, ToolType,
     TurnType, RespondType
     DEF Quiet, RunStep

-----------------------------------------------------------------------------
(* Every step keeps the invariant. *)

\* A step that commits nothing and starts nothing.
LEMMA SameStore ==
  ASSUME IInv, disk' = disk, effects' = effects, shown' \in {shown, Len(mem.log)},
         shown' = shown \/ mem = disk
  PROVE  /\ Good(disk'.log) /\ effects' \subseteq Occurrences(disk'.log)
         /\ shown' <= Len(disk'.log) /\ Lost' = Lost
<1>1. /\ Good(disk.log) /\ effects \subseteq Occurrences(disk.log) /\ shown <= Len(disk.log)
      /\ Len(disk.log) \in Nat
  BY DEF IInv, Good
<1>2. shown' <= Len(disk.log)
  BY <1>1
<1>3. QED
  BY <1>1, <1>2 DEF Lost

\* Back to idle without memory.
LEMMA UnwindStep ==
  ASSUME IInv, TypeOK', Unwind, disk' = disk, effects' = effects, shown' = shown
  PROVE  IInv'
<1>1. pc' = "idle" /\ loaded' = FALSE
  BY DEF Unwind, EndRun
<1>2. QED
  BY <1>1, SameStore DEF IInv, AtRest

\* Back to idle with the memory the store has.
LEMMA EndRunStep ==
  ASSUME IInv, TypeOK', EndRun, mem = disk, UNCHANGED <<store, mem, effects>>,
         shown' \in {shown, Len(mem.log)}
  PROVE  IInv'
<1>1. pc' = "idle"
  BY DEF EndRun
<1>2. /\ Good(disk'.log) /\ effects' \subseteq Occurrences(disk'.log)
      /\ shown' <= Len(disk'.log)
  BY SameStore
<1>3. AtRest'
  BY <1>1 DEF AtRest
<1>4. QED
  BY <1>1, <1>2, <1>3 DEF IInv

\* Towards a commit.
LEMMA SaveStep ==
  ASSUME IInv, TypeOK', pc' = "commit", loaded' = TRUE, UNCHANGED <<store, effects>>,
         shown' \in {shown, Len(mem.log)}, shown' = shown \/ mem = disk, Saving'
  PROVE  IInv'
<1>1. AtRest'
  BY DEF AtRest
<1>2. QED
  BY <1>1, SameStore DEF IInv

\* The store takes the state in flight.
LEMMA StoredStep ==
  ASSUME IInv, pc = "commit", disk' = Committed, effects' = effects, shown' = shown
  PROVE  /\ Good(disk'.log) /\ effects' \subseteq Occurrences(disk'.log)
         /\ shown' <= Len(disk'.log) /\ disk'.log = mem.log /\ disk'.wait = mem.wait
<1>1. CommittedOk
  BY CommitFacts
<1>2. mem \in State /\ disk \in State /\ shown \in Nat /\ shown <= Len(disk.log)
  BY DEF IInv, TypeOK
<1>3. disk'.log = mem.log /\ disk'.wait = mem.wait
  BY <1>2, CommittedType
<1>4. Len(disk.log) \in Nat /\ Len(mem.log) \in Nat
  BY <1>2 DEF State
<1>5. shown <= Len(mem.log)
  BY <1>1, <1>2, <1>4 DEF CommittedOk
<1>6. QED
  BY <1>1, <1>3, <1>5 DEF CommittedOk

LEMMA CommitStep ==
  ASSUME IInv, Steady, TypeOK', CommitOk
  PROVE  IInv'
<1>1. /\ disk' = Committed /\ mem' = Committed /\ pc' = cont /\ pc = "commit"
      /\ UNCHANGED <<loaded, cont, turn, at, idx, effects, shown>>
  BY DEF CommitOk, Stored, Steady, locals, world
<1>2. /\ Good(disk'.log) /\ effects' \subseteq Occurrences(disk'.log)
      /\ shown' <= Len(disk'.log) /\ disk'.log = mem.log /\ disk'.wait = mem.wait
  BY <1>1, StoredStep
<1>3. cont \in Continuations /\ loaded
  BY <1>1 DEF IInv, TypeOK, AtRest
<1>4. pc' \notin {"idle", "commit", "infer", "tool", "executing", "skip", "limit_save"}
  BY <1>1, <1>3 DEF Continuations
<1>5. CommittedOk
  BY <1>1, CommitFacts
<1>6. AtRest'
  <2>1. pc' \in {"turn_start", "turn_check", "turn_saved"} =>
           Settled(disk'.log) /\ disk'.wait = "none" /\ disk'.log # <<>>
    BY <1>1, <1>2, <1>5 DEF CommittedOk
  <2>2. Lost' = effects \cap UnresolvedIds(mem.log)
    BY <1>1, <1>2 DEF Lost
  <2>3. pc' = "responded" => Pending(disk'.log, at', 1) /\ disk'.wait = "none" /\ Lost' = {}
    BY <1>1, <1>2, <1>5, <2>2 DEF CommittedOk
  <2>4. pc' \in {"tool_saved", "skip_saved"} =>
          /\ Pending(disk'.log, at', idx' + 1) /\ BatchDone(idx)' /\ disk'.wait = "none"
          /\ Lost' = {}
    BY <1>1, <1>2, <1>5, <2>2 DEF CommittedOk, BatchDone
  <2>5. QED
    BY <1>1, <1>3, <1>4, <2>1, <2>3, <2>4 DEF AtRest
<1>7. QED
  BY <1>2, <1>4, <1>6 DEF IInv

LEMMA FaultStep ==
  ASSUME IInv, Steady, TypeOK', Fault
  PROVE  IInv'
<1>1. mem \in State /\ disk \in State
  BY DEF IInv, TypeOK
<1>2. CASE CommitFails
  BY <1>2, UnwindStep DEF CommitFails, RolledBack, world
<1>3. CASE CommitCancelled
  <2>1. CASE UNCHANGED <<store, world>>
    BY <1>3, <2>1, UnwindStep DEF CommitCancelled, world
  <2>2. CASE Stored
    <3>1. pc' = "idle" /\ loaded' = FALSE /\ pc = "commit" /\ UNCHANGED world
          /\ disk' = Committed
      BY <1>3, <2>2 DEF CommitCancelled, Stored, Steady, Unwind, EndRun
    <3>2. /\ Good(disk'.log) /\ effects' \subseteq Occurrences(disk'.log)
          /\ shown' <= Len(disk'.log)
      BY <3>1, StoredStep DEF world
    <3>3. QED
      BY <3>1, <3>2 DEF IInv, AtRest
  <2>3. QED
    BY <1>3, <2>1, <2>2 DEF CommitCancelled
<1>4. CASE Crash
  BY <1>4, UnwindStep DEF Crash, RolledBack, world
<1>5. CASE Fail
  <2>1. /\ mem' = [mem EXCEPT !.next = "finish", !.finish = "error"]
        /\ pc \in {"turn_start", "infer", "tool"} /\ pc' = "commit" /\ cont' = "end_failed"
        /\ UNCHANGED <<store, loaded, effects, shown>>
    BY <1>5 DEF Fail, SaveThen, world
  <2>2. mem'.log = mem.log /\ mem'.wait = mem.wait /\ mem'.rev = mem.rev
    BY <1>1, <2>1 DEF State
  <2>3. loaded /\ mem = disk /\ loaded \in BOOLEAN
    BY <2>1 DEF IInv, AtRest, TypeOK
  <2>4. Saving'
    BY <2>1, <2>2, <2>3 DEF Saving, SavingInput, SavingAnswer, SavingResult, SavingStatus
  <2>5. QED
    BY <2>1, <2>3, <2>4, SaveStep
<1>6. CASE Cancel
  <2>1. /\ mem' = [mem EXCEPT !.next = "finish", !.finish = "cancelled"]
        /\ pc \in {"turn_start", "infer", "tool", "executing"}
        /\ pc' = "commit" /\ cont' = "end_cancelled"
        /\ UNCHANGED <<store, loaded, effects, shown>>
    BY <1>6 DEF Cancel, SaveThen, world
  <2>2. mem'.log = mem.log /\ mem'.wait = mem.wait /\ mem'.rev = mem.rev
    BY <1>1, <2>1 DEF State
  <2>3. loaded /\ mem = disk /\ loaded \in BOOLEAN
    BY <2>1 DEF IInv, AtRest, TypeOK
  <2>4. Saving'
    BY <2>1, <2>2, <2>3 DEF Saving, SavingInput, SavingAnswer, SavingResult, SavingStatus
  <2>5. QED
    BY <2>1, <2>3, <2>4, SaveStep
<1>7. QED
  BY <1>2, <1>3, <1>4, <1>5, <1>6 DEF Fault

LEMMA AcceptStep ==
  ASSUME IInv, Steady, TypeOK', Accept
  PROVE  IInv'
<1>1. /\ disk \in State /\ mem \in State /\ Current = disk /\ pc = "idle"
  BY DEF Steady, IInv, TypeOK, AtRest, Current, Accept, AcceptUnknown, AcceptPrompt
<1>2. CASE AcceptUnknown
  <2>1. /\ mem' = [disk EXCEPT !.wait = "unknown_tool_effect", !.next = "wait",
                               !.finish = "unknown_tool_effect"]
        /\ UnresolvedIds(disk.log) # {}
        /\ pc' = "commit" /\ cont' = "report_wait" /\ loaded' = TRUE
        /\ UNCHANGED <<store, effects, shown>>
    BY <1>1, <1>2 DEF AcceptUnknown, SaveThen, world
  <2>2. mem'.log = disk.log /\ mem'.wait = "unknown_tool_effect" /\ mem'.rev = disk.rev
    BY <1>1, <2>1 DEF State
  <2>3. Saving'
    BY <2>1, <2>2 DEF Saving, SavingInput, SavingAnswer, SavingResult, SavingStatus
  <2>4. QED
    BY <2>1, <2>3, SaveStep
<1>3. CASE AcceptPrompt
  <2>1. /\ mem' = [disk EXCEPT !.log = Continued, !.next = "none", !.wait = "none",
                               !.finish = "running"]
        /\ UnresolvedIds(disk.log) = {} \/ disk.wait = "unknown_tool_effect"
        /\ pc' = "commit" /\ cont' = "turn_start" /\ loaded' = TRUE
        /\ UNCHANGED <<store, effects, shown>>
    BY <1>1, <1>3 DEF AcceptPrompt, MayContinue, SaveThen, world
  <2>2. mem'.log = Continued /\ mem'.wait = "none" /\ mem'.rev = disk.rev
    BY <1>1, <2>1 DEF State
  <2>3. Continued = IF UnresolvedIds(disk.log) = {}
                      THEN Append(disk.log, Human)
                      ELSE disk.log \o <<Results(UnresolvedIds(disk.log)), Human>>
    BY <1>1 DEF Continued
  <2>4. SavingInput(disk)'
    <3>1. CASE UnresolvedIds(disk.log) = {}
      <4>1. mem'.log = Append(disk.log, Human)
        BY <2>2, <2>3, <3>1
      <4>2. QED
        BY <2>1, <2>2, <3>1, <4>1 DEF SavingInput
    <3>2. CASE UnresolvedIds(disk.log) # {}
      <4>1. mem'.log = disk.log \o <<Results(UnresolvedIds(disk.log)), Human>>
        BY <2>2, <2>3, <3>2
      <4>2. QED
        BY <2>1, <2>2, <3>2, <4>1 DEF SavingInput
    <3>3. QED
      BY <3>1, <3>2
  <2>5. Saving'
    BY <2>1, <2>2, <2>4 DEF Saving, SavingAnswer, SavingResult, SavingStatus
  <2>6. QED
    BY <2>1, <2>5, SaveStep
<1>4. QED
  BY <1>2, <1>3 DEF Accept

\* A step inside a turn that commits nothing: memory and store still agree.
LEMMA KeepStep ==
  ASSUME IInv, TypeOK', mem = disk, UNCHANGED <<store, mem>>, effects' = effects,
         shown' \in {shown, Len(mem.log)}, pc' # "commit", AtRest'
  PROVE  IInv'
BY SameStore DEF IInv

\* The calls of the batch from the n-th on are open; the batch is over, or not.
LEMMA BatchEnd ==
  ASSUME NEW L, NEW a, NEW n \in Nat, Pending(L, a, n), ~ n <= Len(L[a].calls)
  PROVE  Settled(L) /\ L # <<>>
<1>1. Len(L[a].calls) \in Nat /\ L # <<>>
  BY EntryType DEF Pending, Good
<1>2. n > Len(L[a].calls)
  BY <1>1
<1>3. QED
  BY <1>1, <1>2, PendingEmpty

LEMMA RespondStep ==
  ASSUME IInv, TypeOK', Respond
  PROVE  IInv'
<1>1. pc = "responded" /\ loaded /\ loaded \in BOOLEAN
  BY DEF IInv, TypeOK, AtRest, Respond, RespondFinal, RespondWait, RespondCalls
<1>2. /\ mem = disk /\ Calls \in Seq(Call) /\ Pending(disk.log, at, 1)
      /\ disk.wait = "none" /\ Lost = {} /\ mem \in State /\ Calls = disk.log[at].calls
  BY <1>1, CallInProgress DEF Calls, IInv, TypeOK
<1>3. CASE RespondFinal
  <2>1. /\ pc' = "turn_check" /\ shown' = Len(mem.log)
        /\ UNCHANGED <<store, mem, loaded, at, idx, effects>>
    BY <1>3 DEF RespondFinal, state, locals
  <2>2. Settled(disk.log) /\ disk.log # <<>>
    <3>1. ~ 1 <= Len(disk.log[at].calls)
      BY <1>2, <1>3 DEF RespondFinal
    <3>2. QED
      BY <1>2, <3>1, BatchEnd
  <2>3. AtRest'
    BY <1>1, <1>2, <2>1, <2>2 DEF AtRest
  <2>4. QED
    BY <1>2, <2>1, <2>3, KeepStep
<1>4. CASE RespondWait
  <2>1. /\ mem' = [mem EXCEPT !.log = Paused, !.wait = "external_input", !.next = "wait",
                              !.finish = "wait"]
        /\ pc' = "commit" /\ cont' = "pause" /\ shown' = Len(mem.log)
        /\ UNCHANGED <<store, loaded, at, idx, effects>>
    BY <1>4 DEF RespondWait, SaveThen, locals
  <2>2. /\ Len(Calls) = 1 /\ Paused = Append(disk.log, ResultOf(at, 1))
    BY <1>1, <1>2, <1>4, PausedFacts DEF RespondWait
  <2>3. mem'.log = Append(disk.log, ResultOf(at, 1)) /\ mem'.wait = "external_input"
        /\ mem'.rev = disk.rev
    BY <1>2, <2>1, <2>2 DEF State
  <2>4. Lost' = {}
    BY <1>2, <2>1 DEF Lost
  <2>5. SavingResult'
    BY <1>2, <2>1, <2>2, <2>3, <2>4 DEF SavingResult
  <2>6. Saving'
    BY <2>1, <2>3, <2>5 DEF Saving, SavingInput, SavingAnswer, SavingStatus
  <2>7. QED
    BY <1>1, <1>2, <2>1, <2>6, SaveStep
<1>5. CASE RespondCalls
  <2>1. /\ pc' \in {"skip", "tool"} /\ shown' = Len(mem.log) /\ idx' = 1
        /\ UNCHANGED <<store, mem, loaded, at, effects>>
    BY <1>5 DEF RespondCalls, state
  <2>2. 1 \in 1 .. Len(disk.log[at].calls)
    BY <1>2, <1>5 DEF RespondCalls
  <2>3. BatchDone(idx)' /\ Lost' = {}
    BY <1>2, <2>1, <2>2 DEF BatchDone, Lost, Pending
  <2>4. AtRest'
    BY <1>1, <1>2, <2>1, <2>3 DEF AtRest
  <2>5. QED
    BY <1>2, <2>1, <2>4, KeepStep
<1>6. QED
  BY <1>3, <1>4, <1>5 DEF Respond

\* A result goes to its commit.
LEMMA ResultStep ==
  ASSUME IInv, TypeOK', pc \in {"tool", "executing", "skip"}, idx \in DOMAIN Calls,
         mem'.log = Answering.log, mem'.wait = Answering.wait, mem'.rev = Answering.rev,
         SaveThen("tool_saved") \/ SaveThen("skip_saved"),
         UNCHANGED <<store, loaded, at, idx, effects, shown>>
  PROVE  IInv'
<1>1. /\ mem = disk /\ Pending(disk.log, at, idx) /\ disk.wait = "none"
      /\ Lost \subseteq {<<at, idx>>} /\ Calls = disk.log[at].calls
      /\ Calls \in Seq(Call) /\ at \in DOMAIN disk.log
  BY CallInProgress DEF Calls
<1>2. /\ mem'.log = Append(disk.log, ResultOf(at, idx)) /\ mem'.wait = "none"
      /\ mem'.rev = disk.rev
  BY <1>1, AnsweringFacts
<1>3. BatchDone(idx)' /\ Lost' \subseteq {<<at, idx>>}
  BY <1>1 DEF BatchDone, Lost
<1>4. pc' = "commit" /\ cont' \in {"tool_saved", "skip_saved"} /\ loaded' = TRUE
  BY DEF SaveThen, IInv, TypeOK, AtRest
<1>5. SavingResult'
  BY <1>1, <1>2, <1>3, <1>4 DEF SavingResult
<1>6. Saving'
  BY <1>2, <1>4, <1>5 DEF Saving, SavingInput, SavingAnswer, SavingStatus
<1>7. QED
  BY <1>4, <1>6, SaveStep

LEMMA ToolLoopStep ==
  ASSUME IInv, TypeOK', ToolStep \/ SkipStep
  PROVE  IInv'
<1>1. /\ mem \in State /\ idx \in Nat /\ at \in Nat /\ loaded \in BOOLEAN
  BY DEF IInv, TypeOK
<1>2. ASSUME pc = "tool" \/ pc = "executing" \/ (pc = "skip" /\ idx <= Len(Calls)),
             mem' = Answering, SaveThen("tool_saved") \/ SaveThen("skip_saved"),
             UNCHANGED <<store, loaded, at, idx, effects, shown>>
      PROVE  IInv'
  BY <1>2, InDomain, ResultStep
<1>3. CASE StartTool
  <2>1. /\ effects' = effects \cup {<<at, idx>>} /\ pc = "tool" /\ pc' = "executing"
        /\ UNCHANGED <<store, mem, loaded, at, idx, shown>>
    BY <1>3 DEF StartTool, state, locals
  <2>2. /\ mem = disk /\ Pending(disk.log, at, idx) /\ BatchDone(idx) /\ disk.wait = "none"
        /\ Lost = {} /\ Good(disk.log) /\ effects \subseteq Occurrences(disk.log)
        /\ shown <= Len(disk.log) /\ loaded
    BY <2>1 DEF IInv, AtRest
  <2>3. idx \in 1 .. Len(disk.log[at].calls) /\ at \in DOMAIN disk.log
        /\ disk.log[at].calls \in Seq(Call)
        /\ UnresolvedIds(disk.log) = { <<at, k>> : k \in idx .. Len(disk.log[at].calls) }
    BY <2>1, <2>2, CallInProgress DEF BatchDone, Pending, Calls
  <2>4. <<at, idx>> \in Occurrences(disk.log) /\ <<at, idx>> \in UnresolvedIds(disk.log)
    BY <2>3 DEF Occurrences
  <2>5. Lost' = {<<at, idx>>}
    BY <2>1, <2>2, <2>4 DEF Lost
  <2>6. effects' \subseteq Occurrences(disk.log)
    BY <2>1, <2>2, <2>4
  <2>7. AtRest'
    BY <2>1, <2>2, <2>5 DEF AtRest, BatchDone
  <2>8. QED
    BY <2>1, <2>2, <2>6, <2>7 DEF IInv
<1>4. CASE ToolReturns
  BY <1>2, <1>4 DEF ToolReturns, ResultBarrier, locals, world
<1>5. CASE RefuseTool
  BY <1>2, <1>5 DEF RefuseTool, ResultBarrier, locals, world
<1>6. CASE BlockTool
  <2>1. idx \in DOMAIN Calls /\ Answering \in State /\ pc = "tool"
    BY <1>6, InDomain, AnsweringFacts DEF BlockTool
  <2>2. /\ mem'.log = Answering.log /\ mem'.wait = Answering.wait
        /\ mem'.rev = Answering.rev
    BY <1>6, <2>1 DEF BlockTool, State
  <2>3. SaveThen("tool_saved") /\ UNCHANGED <<store, loaded, at, idx, effects, shown>>
    BY <1>6 DEF BlockTool, world
  <2>4. QED
    BY <2>1, <2>2, <2>3, ResultStep
<1>7. CASE SkipCall
  BY <1>2, <1>7 DEF SkipCall, locals, world
<1>8. ASSUME pc \in {"tool_saved", "skip_saved"}
      PROVE  /\ mem = disk /\ Pending(disk.log, at, idx + 1) /\ disk.wait = "none"
             /\ Lost = {} /\ at \in DOMAIN disk.log /\ Calls = disk.log[at].calls
             /\ Calls \in Seq(Call) /\ loaded
  <2>1. /\ mem = disk /\ Pending(disk.log, at, idx + 1) /\ disk.wait = "none"
        /\ Lost = {} /\ at \in DOMAIN disk.log /\ loaded
    BY <1>8 DEF IInv, AtRest, BatchDone
  <2>2. Calls = disk.log[at].calls /\ Calls \in Seq(Call)
    BY <2>1, EntryType DEF Calls, Pending, Good
  <2>3. QED
    BY <2>1, <2>2
<1>9. CASE ToolSaved
  <2>1. /\ pc = "tool_saved" /\ shown' = Len(mem.log) /\ idx' = idx + 1
        /\ pc' = (IF idx < Len(Calls) THEN "tool" ELSE "turn_check")
        /\ UNCHANGED <<store, mem, loaded, at, effects>>
    BY <1>9 DEF ToolSaved, state
  <2>2. Lost' = {} /\ mem' = disk' /\ Len(Calls) \in Nat
    BY <1>8, <2>1 DEF Lost
  <2>3. CASE idx < Len(Calls)
    <3>1. BatchDone(idx)'
      BY <1>1, <1>8, <2>1, <2>2, <2>3 DEF BatchDone
    <3>2. AtRest'
      BY <1>8, <2>1, <2>2, <2>3, <3>1 DEF AtRest
    <3>3. QED
      BY <1>8, <2>1, <2>3, <3>2, KeepStep
  <2>4. CASE ~ idx < Len(Calls)
    <3>1. Settled(disk.log) /\ disk.log # <<>>
      <4>1. ~ idx + 1 <= Len(disk.log[at].calls) /\ idx + 1 \in Nat
        BY <1>1, <1>8, <2>1, <2>2, <2>4
      <4>2. QED
        BY <1>8, <2>1, <4>1, BatchEnd
    <3>2. AtRest'
      BY <1>8, <2>1, <2>2, <2>4, <3>1 DEF AtRest
    <3>3. QED
      BY <1>8, <2>1, <2>4, <3>2, KeepStep
  <2>5. QED
    BY <2>3, <2>4
<1>10. CASE SkipSaved
  <2>1. /\ pc = "skip_saved" /\ shown' = Len(mem.log) /\ idx' = idx + 1 /\ pc' = "skip"
        /\ UNCHANGED <<store, mem, loaded, at, effects>>
    BY <1>10 DEF SkipSaved, state
  <2>2. AtRest'
    BY <1>8, <2>1 DEF AtRest, Lost
  <2>3. QED
    BY <1>8, <2>1, <2>2, KeepStep
<1>11. CASE RepeatStop
  <2>1. /\ mem' = [mem EXCEPT !.log = Append(@, Assistant(<<>>)), !.next = "finish",
                              !.finish = "repeated_tool_calls"]
        /\ pc = "skip" /\ ~ idx <= Len(Calls) /\ pc' = "commit" /\ cont' = "turn_check"
        /\ UNCHANGED <<store, loaded, at, idx, effects, shown>>
    <3>1. Len(Calls) \in Nat
      BY <1>11, CallInProgress DEF RepeatStop
    <3>2. QED
      BY <1>1, <1>11, <3>1 DEF RepeatStop, SaveThen, locals, world
  <2>2. /\ mem = disk /\ Pending(disk.log, at, idx) /\ disk.wait = "none"
        /\ Calls = disk.log[at].calls /\ loaded
    BY <2>1, CallInProgress DEF Calls, IInv, AtRest
  <2>3. Settled(disk.log) /\ disk.log # <<>>
    BY <1>1, <2>1, <2>2, BatchEnd
  <2>4. mem'.log = Append(disk.log, Assistant(<<>>)) /\ mem'.wait = "none"
        /\ mem'.rev = disk.rev
    BY <1>1, <2>1, <2>2 DEF State
  <2>5. Saving'
    BY <2>1, <2>2, <2>3, <2>4 DEF Saving, SavingInput, SavingAnswer, SavingResult, SavingStatus
  <2>6. QED
    BY <1>1, <2>1, <2>2, <2>5, SaveStep
<1>12. QED
  BY <1>3, <1>4, <1>5, <1>6, <1>7, <1>9, <1>10, <1>11 DEF ToolStep, SkipStep

LEMMA TurnLoopStep ==
  ASSUME IInv, TypeOK', UniqueIds, TurnStep
  PROVE  IInv'
<1>1. /\ mem \in State /\ disk \in State /\ mem.log \in Seq(Entry) /\ disk.log \in Seq(Entry)
      /\ loaded \in BOOLEAN
  BY DEF IInv, TypeOK, State
<1>2. /\ pc \in {"turn_start", "infer", "turn_check", "turn_saved"} =>
            mem = disk /\ Settled(disk.log) /\ disk.wait = "none" /\ disk.log # <<>> /\ loaded
      /\ pc = "limit_save" => loaded
  BY DEF IInv, AtRest
<1>3. CASE StartTurn \/ NextTurn
  <2>1. /\ pc \in {"turn_start", "turn_saved"} /\ pc' \in {"infer", "turn_start"}
        /\ UNCHANGED <<store, mem, loaded, effects, shown>>
    BY <1>3 DEF StartTurn, NextTurn, state, world
  <2>2. AtRest'
    BY <1>2, <2>1 DEF AtRest
  <2>3. QED
    BY <1>2, <2>1, <2>2, KeepStep
<1>4. CASE Infer
  <2>1. PICK b \in Batches :
          LET calls == [k \in DOMAIN b |-> [work |-> b[k], id |-> <<CallNumber, k>>]]
          IN mem' = [mem EXCEPT !.log = Append(@, Assistant(calls)),
                                !.finish = IF b = <<>> THEN "completed" ELSE @,
                                !.next = IF b = <<>> THEN "finish" ELSE @]
    BY <1>4 DEF Infer
  <2>2. /\ pc = "infer" /\ at' = Len(disk.log) + 1 /\ pc' = "commit" /\ cont' = "responded"
        /\ CallNumber = Len(disk.log) + 1
        /\ UNCHANGED <<store, loaded, idx, effects, shown>>
    BY <1>2, <1>4 DEF Infer, AssistantBarrier, SaveThen, CallNumber, world
  <2> DEFINE calls == [k \in DOMAIN b |-> [work |-> b[k], id |-> <<CallNumber, k>>]]
  <2>3. calls \in Seq(Call) /\ \A k \in DOMAIN calls : calls[k].id = <<CallNumber, k>>
    <3>1. CallNumber \in Nat
      BY <1>1, <2>2
    <3>2. QED
      BY <3>1, InferredCalls
  <2>4. /\ mem'.log = Append(disk.log, Assistant(calls)) /\ mem'.wait = "none"
        /\ mem'.rev = disk.rev
    BY <1>1, <1>2, <2>1, <2>2 DEF State
  <2> HIDE DEF calls
  <2>5. Assistant(calls) \in Entry /\ Assistant(calls).calls = calls
    BY <2>3, EntryConstructors
  <2>6. at' \in DOMAIN mem'.log /\ mem'.log[at'] = Assistant(calls)
    BY <1>1, <2>2, <2>4, <2>5, AppendEntry
  <2>7. Calls' = calls
    BY <2>5, <2>6 DEF Calls
  <2>8. SavingAnswer'
    BY <1>2, <2>2, <2>3, <2>4, <2>6, <2>7 DEF SavingAnswer
  <2>9. Saving'
    BY <2>2, <2>4, <2>8 DEF Saving, SavingInput, SavingResult, SavingStatus
  <2>10. QED
    BY <1>1, <1>2, <2>2, <2>9, SaveStep
<1>5. CASE TurnLimit
  <2>1. /\ mem' = [mem EXCEPT !.log = Append(@, Assistant(<<>>)), !.next = "finish",
                              !.finish = "max_turns"]
        /\ pc = "turn_check" /\ pc' = "limit_save"
        /\ UNCHANGED <<store, loaded, effects, shown>>
    BY <1>5 DEF TurnLimit, world
  <2>2. mem'.log = Append(disk.log, Assistant(<<>>)) /\ mem'.wait = "none"
        /\ mem'.rev = disk.rev
    BY <1>1, <1>2, <2>1 DEF State
  <2>3. AtRest'
    BY <1>2, <2>1, <2>2 DEF AtRest
  <2>4. QED
    BY <2>1, <2>3, SameStore DEF IInv
<1>6. CASE LimitSave
  <2>1. /\ mem' = [mem EXCEPT !.next = "finish", !.finish = "error"]
        /\ pc = "limit_save" /\ pc' = "commit" /\ cont' = "end_failed"
        /\ UNCHANGED <<store, loaded, effects, shown>>
    BY <1>6 DEF LimitSave, SaveThen, world
  <2>2. /\ Settled(disk.log) /\ disk.log # <<>> /\ mem.log = Append(disk.log, Assistant(<<>>))
        /\ mem.rev = disk.rev /\ mem.wait = "none" /\ disk.wait = "none"
    BY <2>1 DEF IInv, AtRest
  <2>3. mem'.log = mem.log /\ mem'.wait = mem.wait /\ mem'.rev = mem.rev
    BY <1>1, <2>1 DEF State
  <2>4. Saving'
    BY <2>1, <2>2, <2>3 DEF Saving, SavingInput, SavingAnswer, SavingResult, SavingStatus
  <2>5. QED
    BY <1>1, <1>2, <2>1, <2>4, SaveStep
<1>7. CASE EndTurn
  <2>1. /\ pc = "turn_check" /\ pc' = "commit" /\ cont' = "turn_saved"
        /\ UNCHANGED <<store, mem, loaded, effects, shown>>
    BY <1>7 DEF EndTurn, SaveThen, state, world
  <2>2. Saving'
    BY <1>2, <2>1 DEF Saving, SavingInput, SavingAnswer, SavingResult, SavingStatus
  <2>3. QED
    BY <1>1, <1>2, <2>1, <2>2, SaveStep
<1>8. QED
  BY <1>3, <1>4, <1>5, <1>6, <1>7 DEF TurnStep

LEMMA InvStep ==
  ASSUME Steady, IInv, UniqueIds, [Quiet]_vars
  PROVE  IInv'
<1>1. TypeOK'
  BY TypeStep
<1>2. CASE UNCHANGED vars \/ Submit
  <2>1. UNCHANGED <<store, mem, loaded, pc, cont, at, idx, effects, shown>>
    BY <1>2 DEF vars, Submit, state, control, locals, world
  <2>2. AtRest' = AtRest
    BY <2>1 DEF AtRest, Lost, BatchDone
  <2>3. SavingInput(disk)' = SavingInput(disk) /\ SavingAnswer' = SavingAnswer
    BY <2>1 DEF SavingInput, SavingAnswer, Calls
  <2>4. SavingResult' = SavingResult /\ SavingStatus' = SavingStatus
    BY <2>1 DEF SavingResult, SavingStatus, Lost, BatchDone
  <2>5. QED
    BY <1>1, <2>1, <2>2, <2>3, <2>4 DEF IInv, Saving
<1>4. CASE ReportWait \/ Pause \/ Finish
  <2>1. mem = disk
    BY <1>4 DEF IInv, AtRest, ReportWait, Pause, Finish
  <2>2. QED
    BY <1>1, <1>4, <2>1, EndRunStep DEF ReportWait, Pause, Finish, state, world
<1>5. CASE Raise
  BY <1>1, <1>5, UnwindStep DEF Raise, world
<1>6. QED
  BY <1>1, <1>2, <1>4, <1>5, AcceptStep, FaultStep, CommitStep, RespondStep, ToolLoopStep,
     TurnLoopStep
     DEF Quiet, RunStep

\* Such a step leaves no transaction open, and connection and file alike.
LEMMA QuietDangling ==
  ASSUME dangling = FALSE, [Quiet]_vars
  PROVE  dangling' = FALSE
BY DEF Quiet, Stored, RolledBack, vars, Accept, RunStep, Fault, Respond, ToolStep,
         SkipStep, TurnStep, CommitOk,
         CommitFails, CommitCancelled, Submit, AcceptUnknown, AcceptPrompt, ReportWait, StartTurn,
         Infer, RespondFinal, RespondWait, RespondCalls, Pause, StartTool, ToolReturns, RefuseTool,
         BlockTool, ToolSaved, SkipCall, SkipSaved, RepeatStop, TurnLimit, LimitSave, EndTurn,
         NextTurn, Finish, Fail, Cancel, Raise, Crash, state

LEMMA QuietSteady ==
  ASSUME Steady, dangling \in BOOLEAN, [Quiet]_vars
  PROVE  Steady'
<1>1. dangling' = FALSE
  BY QuietDangling DEF Steady
<1>2. \/ UNCHANGED <<conn, disk>>
      \/ conn' = disk' /\ disk' = disk
      \/ conn' = Committed /\ disk' = Committed
  BY DEF Quiet, Stored, RolledBack, vars, Accept, RunStep, Fault, Respond, ToolStep,
         SkipStep, TurnStep, CommitOk,
         CommitFails, CommitCancelled, Submit, AcceptUnknown, AcceptPrompt, ReportWait, StartTurn,
         Infer, RespondFinal, RespondWait, RespondCalls, Pause, StartTool, ToolReturns, RefuseTool,
         BlockTool, ToolSaved, SkipCall, SkipSaved, RepeatStop, TurnLimit, LimitSave, EndTurn,
         NextTurn, Finish, Fail, Cancel, Raise, Crash, state
<1>3. QED
  BY <1>1, <1>2 DEF Steady

\* But for broken saves the durable state only changes by a commit, and a commit
\* that a crash or a cancel interrupts is all or nothing.
LEMMA DiskSteps ==
  ASSUME [Quiet]_vars
  PROVE  (disk' = disk /\ torn' = torn) \/ (pc = "commit" /\ disk' = Committed)
BY DEF Quiet, Stored, RolledBack, vars, Accept, RunStep, Fault, Respond, ToolStep, SkipStep, TurnStep, CommitOk,
         CommitFails, CommitCancelled, Submit, AcceptUnknown, AcceptPrompt, ReportWait, StartTurn,
         Infer, RespondFinal, RespondWait, RespondCalls, Pause, StartTool, ToolReturns, RefuseTool,
         BlockTool, ToolSaved, SkipCall, SkipSaved, RepeatStop, TurnLimit, LimitSave, EndTurn,
         NextTurn, Finish, Fail, Cancel, Raise, Crash, state

-----------------------------------------------------------------------------
(* Saves that break off. *)

\* What a broken save has written of a good transcript is a good transcript.
LEMMA GoodPrefix ==
  ASSUME NEW L, Good(L), NEW n \in 0 .. Len(L), NEW P, P = SubSeq(L, 1, n)
  PROVE  /\ Good(P) /\ DOMAIN P \subseteq DOMAIN L
         /\ \A i \in DOMAIN P : P[i] = L[i]
<1>1. L \in Seq(Entry) /\ Len(L) \in Nat /\ DOMAIN L = 1 .. Len(L) /\ n \in Nat
  BY DEF Good
<1>2. /\ P \in Seq(Entry) /\ Len(P) = n /\ DOMAIN P = 1 .. n
      /\ \A i \in 1 .. n : P[i] = L[i]
  BY <1>1
<1>3. DOMAIN P \subseteq DOMAIN L
  BY <1>1, <1>2
<1>4. \A i \in DOMAIN P : \A k \in DOMAIN P[i].calls : P[i].calls[k].id = <<i, k>>
  BY <1>2, <1>3 DEF Good
<1>5. \A j \in DOMAIN P : P[j].kind # "tool" => P[j].ids = {}
  BY <1>2, <1>3 DEF Good
<1>6. ASSUME NEW j \in DOMAIN P, NEW id \in P[j].ids
      PROVE  \E i \in DOMAIN P : \E k \in DOMAIN P[i].calls :
                /\ id = <<i, k>> /\ i < j
                /\ \A m \in i+1 .. j : P[m].kind = "tool"
  <2>1. j \in DOMAIN L /\ id \in L[j].ids
    BY <1>2, <1>3, <1>6
  <2>2. PICK i \in DOMAIN L : \E k \in DOMAIN L[i].calls :
                /\ id = <<i, k>> /\ i < j
                /\ \A m \in i+1 .. j : L[m].kind = "tool"
    BY <2>1 DEF Good
  <2>3. i \in DOMAIN P /\ \A m \in i+1 .. j : m \in DOMAIN P
    BY <1>1, <1>2, <1>6, <2>2
  <2>4. QED
    BY <1>2, <2>2, <2>3
<1>7. ASSUME NEW i \in DOMAIN P, NEW j \in DOMAIN P, i < j, P[j].kind # "tool",
             NEW k \in DOMAIN P[i].calls
      PROVE  AnsweredBy(P, i, k, j - 1)
  <2>1. AnsweredBy(L, i, k, j - 1)
    BY <1>2, <1>3, <1>7 DEF Good, WellFormed
  <2>2. PICK g \in i+1 .. j - 1 : /\ L[i].calls[k].id \in L[g].ids
                                  /\ \A m \in i+1 .. g : L[m].kind = "tool"
    BY <2>1 DEF AnsweredBy
  <2>3. g \in 1 .. n /\ \A m \in i+1 .. g : m \in 1 .. n
    BY <1>2, <1>7, <2>2
  <2>4. QED
    BY <1>2, <1>7, <2>2, <2>3 DEF AnsweredBy
<1>8. WellFormed(P)
  BY <1>7 DEF WellFormed
<1>9. QED
  BY <1>2, <1>3, <1>4, <1>5, <1>6, <1>8 DEF Good

\* What a broken save leaves the connection to read.
LEMMA Broken ==
  ASSUME TypeOK, SaveBreaks, Good(mem.log)
  PROVE  /\ conn' \in State /\ Good(conn'.log) /\ conn'.rev = mem.rev + 1
         /\ DOMAIN conn'.log \subseteq DOMAIN mem.log
         /\ \A i \in DOMAIN conn'.log : conn'.log[i] = mem.log[i]
<1>1. PICK n \in 0 .. Len(mem.log) :
         conn' = [Committed EXCEPT !.log = SubSeq(mem.log, 1, n)]
  BY DEF SaveBreaks
<1>2. Committed \in State /\ Committed.rev = mem.rev + 1
  BY CommittedType DEF TypeOK
<1>3. conn'.log = SubSeq(mem.log, 1, n) /\ conn'.rev = mem.rev + 1
  BY <1>1, <1>2 DEF State
<1>4. Good(conn'.log) /\ DOMAIN conn'.log \subseteq DOMAIN mem.log
      /\ \A i \in DOMAIN conn'.log : conn'.log[i] = mem.log[i]
  BY <1>3, GoodPrefix
<1>5. conn' \in State
  BY <1>1, <1>2, <1>3, <1>4 DEF State, Good
<1>6. QED
  BY <1>3, <1>4, <1>5

LEMMA BreakStep ==
  ASSUME TypeOK, SaveBreaks, Good(mem.log), Good(disk.log), mem.rev >= disk.rev,
         effects \subseteq Occurrences(disk.log), shown <= Len(disk.log)
  PROVE  LoopInv'
<1>1. conn' \in State /\ Good(conn'.log) /\ conn'.rev = mem.rev + 1
  BY Broken
<1>2. /\ Unwind /\ UNCHANGED <<disk, torn, user, world>> /\ dangling' = TRUE
      /\ faults' = faults + 1
  BY DEF SaveBreaks
<1>3. TypeOK'
  BY <1>1, <1>2, UnwindType DEF TypeOK, user, world
<1>4. conn'.rev > disk'.rev
  BY <1>1, <1>2 DEF TypeOK, State
<1>5. OpenInv'
  BY <1>1, <1>2, <1>4 DEF OpenInv, Unwind, EndRun, world
<1>6. QED
  BY <1>2, <1>3, <1>5 DEF LoopInv

\* The store is quiet again between runs.
LEMMA IdleInv ==
  ASSUME TypeOK', pc' = "idle", ~ loaded', Good(disk'.log),
         effects' \subseteq Occurrences(disk'.log), shown' <= Len(disk'.log)
  PROVE  IInv'
BY DEF IInv, AtRest

\* What the first save after a broken one would make durable.
LEMMA OpenSaved ==
  ASSUME TypeOK, OpenInv, pc = "commit"
  PROVE  /\ Good(mem.log) /\ mem.rev = conn.rev /\ conn.rev > disk.rev
         /\ cont = "turn_start" => Settled(mem.log) /\ mem.wait = "none" /\ mem.log # <<>>
<1>1. /\ Good(conn.log) /\ SavingInput(conn) /\ cont \in {"report_wait", "turn_start"}
      /\ mem.rev = conn.rev /\ conn.rev > disk.rev
  BY DEF OpenInv
<1>2. CASE cont = "report_wait"
  BY <1>1, <1>2 DEF SavingInput
<1>3. CASE cont = "turn_start"
  <2>1. CASE UnresolvedIds(conn.log) = {} /\ mem.log = Append(conn.log, Human)
    <3>1. Settled(conn.log)
      BY <1>1, <2>1 DEF Settled
    <3>2. Settled(mem.log) /\ mem.log # <<>>
      BY <2>1, <3>1, AppendHuman
    <3>3. QED
      BY <1>1, <1>3, <3>2 DEF SavingInput, Settled
  <2>2. CASE mem.log = conn.log \o <<Results(UnresolvedIds(conn.log)), Human>>
    <3>1. Settled(mem.log) /\ mem.log # <<>>
      BY <1>1, <2>2, AppendConfirmed
    <3>2. QED
      BY <1>1, <1>3, <3>1 DEF SavingInput, Settled
  <2>3. QED
    BY <1>1, <1>3, <2>1, <2>2 DEF SavingInput
<1>4. QED
  BY <1>1, <1>2, <1>3

\* All that can happen while a transaction is open.
LEMMA OpenActions ==
  ASSUME OpenInv, dangling, [Next]_vars
  PROVE  \/ UNCHANGED vars \/ Submit \/ Accept \/ CommitOk \/ CommitFails
         \/ CommitCancelled \/ Crash \/ SaveBreaks \/ OthersSave
<1>1. pc \in {"idle", "commit"}
  BY DEF OpenInv
<1>2. QED
  BY <1>1 DEF Next, Quiet, RunStep, Fault, Respond, ToolStep, SkipStep, TurnStep,
     ReportWait, StartTurn, Infer, RespondFinal, RespondWait, RespondCalls, Pause,
     StartTool, ToolReturns, RefuseTool, BlockTool, ToolSaved, SkipCall, SkipSaved, RepeatStop,
     TurnLimit, LimitSave, EndTurn, NextTurn, Finish, Fail, Cancel, Raise

\* A save that gets through after a broken one.
LEMMA StoredOpen ==
  ASSUME TypeOK, OpenInv, dangling, pc = "commit", Stored
  PROVE  /\ disk' \in State /\ conn' = disk' /\ dangling' = FALSE /\ torn' = FALSE
         /\ disk'.log = mem.log /\ disk'.wait = mem.wait /\ disk'.rev = mem.rev + 1
         /\ disk'.finish = mem.finish
         /\ Good(disk'.log) /\ effects' = effects \cap Occurrences(disk'.log)
         /\ shown' <= Len(disk'.log)
<1>1. /\ mem \in State /\ Committed \in State /\ Committed.log = mem.log
      /\ Committed.wait = mem.wait /\ Committed.rev = mem.rev + 1
      /\ Committed.finish = mem.finish /\ mem.log \in Seq(Entry)
  BY CommittedType DEF TypeOK, State, Committed
<1>2. Good(mem.log)
  BY OpenSaved
<1>3. shown' <= Len(mem.log) /\ effects' = effects \cap Occurrences(mem.log)
  BY <1>1, ForgetType DEF Stored
<1>4. QED
  BY <1>1, <1>2, <1>3 DEF Stored

\* The next run takes what the connection reads.
LEMMA OpenAccept ==
  ASSUME TypeOK, OpenInv, dangling, Accept
  PROVE  OpenInv'
<1>1. /\ Current = conn /\ conn \in State /\ pc = "idle"
  BY DEF OpenInv, TypeOK, Current, Accept, AcceptUnknown, AcceptPrompt
<1>2. CASE AcceptUnknown
  <2>1. /\ mem' = [conn EXCEPT !.wait = "unknown_tool_effect", !.next = "wait",
                               !.finish = "unknown_tool_effect"]
        /\ UnresolvedIds(conn.log) # {}
        /\ pc' = "commit" /\ cont' = "report_wait" /\ loaded' = TRUE
        /\ UNCHANGED <<store, effects, shown>>
    BY <1>1, <1>2 DEF AcceptUnknown, SaveThen, world
  <2>2. mem'.log = conn.log /\ mem'.wait = "unknown_tool_effect" /\ mem'.rev = conn.rev
    BY <1>1, <2>1 DEF State
  <2>3. SavingInput(conn)'
    BY <2>1, <2>2 DEF SavingInput
  <2>4. QED
    BY <2>1, <2>2, <2>3 DEF OpenInv
<1>3. CASE AcceptPrompt
  <2>1. /\ mem' = [conn EXCEPT !.log = Continued, !.next = "none", !.wait = "none",
                               !.finish = "running"]
        /\ UnresolvedIds(conn.log) = {} \/ conn.wait = "unknown_tool_effect"
        /\ pc' = "commit" /\ cont' = "turn_start" /\ loaded' = TRUE
        /\ UNCHANGED <<store, effects, shown>>
    BY <1>1, <1>3 DEF AcceptPrompt, MayContinue, SaveThen, world
  <2>2. mem'.log = Continued /\ mem'.wait = "none" /\ mem'.rev = conn.rev
    BY <1>1, <2>1 DEF State
  <2>3. Continued = IF UnresolvedIds(conn.log) = {}
                      THEN Append(conn.log, Human)
                      ELSE conn.log \o <<Results(UnresolvedIds(conn.log)), Human>>
    BY <1>1 DEF Continued
  <2>4. SavingInput(conn)'
    BY <2>1, <2>2, <2>3 DEF SavingInput
  <2>5. QED
    BY <2>1, <2>2, <2>4 DEF OpenInv
<1>4. QED
  BY <1>2, <1>3 DEF Accept

LEMMA OpenStep ==
  ASSUME TypeOK, OpenInv, dangling, [Next]_vars
  PROVE  LoopInv'
<1>1. /\ Good(disk.log) /\ effects \subseteq Occurrences(disk.log) /\ shown <= Len(disk.log)
      /\ Good(conn.log) /\ conn.rev > disk.rev /\ conn.log \in Seq(Entry)
      /\ mem \in State /\ disk \in State /\ conn \in State
  BY DEF OpenInv, TypeOK, State
<1>2. CASE UNCHANGED vars \/ Submit
  <2>1. UNCHANGED <<store, mem, loaded, pc, cont, effects, shown>>
    BY <1>2 DEF vars, Submit, state, control, world
  <2>2. TypeOK'
    <3>1. CASE Submit
      <4>1. Append(inbox, asked) \in Seq(BOOLEAN) /\ submitted + 1 \in Nat
        BY DEF TypeOK
      <4>2. QED
        BY <3>1, <4>1 DEF Submit, TypeOK, state, control, locals, world
    <3>2. CASE UNCHANGED vars
      BY <3>2 DEF vars, TypeOK, state, control, locals, user, world
    <3>3. QED
      BY <1>2, <3>1, <3>2
  <2>3. SavingInput(conn)' = SavingInput(conn)
    BY <2>1 DEF SavingInput
  <2>4. OpenInv'
    BY <2>1, <2>3 DEF OpenInv
  <2>5. QED
    BY <2>1, <2>2, <2>4 DEF LoopInv
<1>3. CASE Accept
  <2>1. UNCHANGED store
    BY <1>3 DEF Accept, AcceptUnknown, AcceptPrompt
  <2>2. QED
    BY <1>3, <2>1, AcceptType, OpenAccept DEF LoopInv
<1>4. CASE CommitOk
  <2>1. /\ Stored /\ pc = "commit" /\ pc' = cont /\ mem' = disk' /\ UNCHANGED <<loaded, cont>>
    BY <1>4 DEF CommitOk, Stored
  <2>2. /\ conn' = disk' /\ dangling' = FALSE /\ disk'.log = mem.log /\ disk'.wait = mem.wait
        /\ Good(disk'.log) /\ effects' = effects \cap Occurrences(disk'.log)
        /\ shown' <= Len(disk'.log)
    BY <2>1, StoredOpen
  <2>3. loaded /\ cont \in {"report_wait", "turn_start"}
    BY <2>1 DEF OpenInv
  <2>4. cont = "turn_start" => Settled(mem.log) /\ mem.wait = "none" /\ mem.log # <<>>
    BY <2>1, OpenSaved
  <2>5. AtRest'
    BY <2>1, <2>2, <2>3, <2>4 DEF AtRest
  <2>6. TypeOK'
    BY <1>4, CommitType
  <2>7. QED
    BY <2>1, <2>2, <2>3, <2>5, <2>6 DEF LoopInv, IInv
<1>5. CASE CommitFails
  <2>1. TypeOK'
    BY <1>5, FaultType DEF Fault
  <2>2. /\ pc' = "idle" /\ ~ loaded' /\ UNCHANGED <<disk, effects, shown>>
    BY <1>5 DEF CommitFails, RolledBack, Unwind, EndRun, world
  <2>3. CASE UNCHANGED store
    BY <1>1, <2>1, <2>2, <2>3 DEF LoopInv, OpenInv
  <2>4. CASE RolledBack
    BY <1>1, <2>1, <2>2, <2>4, IdleInv DEF LoopInv, RolledBack
  <2>5. QED
    BY <1>5, <2>3, <2>4 DEF CommitFails
<1>6. CASE CommitCancelled
  <2>1. TypeOK'
    BY <1>6, FaultType DEF Fault
  <2>2. pc = "commit" /\ pc' = "idle" /\ ~ loaded'
    BY <1>6 DEF CommitCancelled, Unwind, EndRun
  <2>3. CASE UNCHANGED <<store, world>>
    BY <1>1, <2>1, <2>2, <2>3 DEF LoopInv, OpenInv, world
  <2>4. CASE Stored
    BY <2>1, <2>2, <2>4, StoredOpen, IdleInv DEF LoopInv
  <2>5. QED
    BY <1>6, <2>3, <2>4 DEF CommitCancelled
<1>7. CASE Crash
  <2>1. TypeOK'
    BY <1>7, FaultType DEF Fault
  <2>2. /\ pc' = "idle" /\ ~ loaded' /\ UNCHANGED <<disk, effects, shown>> /\ ~ dangling'
        /\ conn' = disk'
    BY <1>7 DEF Crash, RolledBack, Unwind, EndRun, world
  <2>3. QED
    BY <1>1, <2>1, <2>2, IdleInv DEF LoopInv
<1>8. CASE SaveBreaks
  <2>1. Good(mem.log) /\ mem.rev >= disk.rev
    <3>1. pc = "commit" /\ mem.rev \in Nat /\ disk.rev \in Nat
      BY <1>1, <1>8 DEF SaveBreaks, State
    <3>2. QED
      BY <3>1, OpenSaved
  <2>2. QED
    BY <1>1, <1>8, <2>1, BreakStep
<1>9. CASE OthersSave
  <2>1. /\ pc' = "idle" /\ ~ loaded' /\ conn' = disk' /\ ~ dangling' /\ dangling' \in BOOLEAN
        /\ UNCHANGED <<mem, loaded, control, locals, user, faults>>
    BY <1>9 DEF OthersSave, RolledBack, control, OpenInv
  <2>2. /\ disk' \in State /\ torn' \in BOOLEAN /\ effects' \in SUBSET (Nat \X Nat)
        /\ shown' \in Nat
        /\ Good(disk'.log) /\ effects' \subseteq Occurrences(disk'.log)
        /\ shown' <= Len(disk'.log)
    <3>1. CASE disk' = conn /\ torn' = TRUE /\ Forget(conn.log)
      BY <1>1, <3>1, ForgetType
    <3>2. CASE RolledBack /\ UNCHANGED world
      BY <1>1, <3>2 DEF RolledBack, world, TypeOK
    <3>3. QED
      BY <1>9, <3>1, <3>2 DEF OthersSave
  <2>3. TypeOK'
    BY <2>1, <2>2 DEF TypeOK, control, locals, user
  <2>4. QED
    BY <2>1, <2>2, <2>3, IdleInv DEF LoopInv
<1>10. QED
  BY <1>2, <1>3, <1>4, <1>5, <1>6, <1>7, <1>8, <1>9, OpenActions

\* Without an open transaction, every step that opens none is one of those
\* above, and nothing but a save can open one.
LEMMA LoopStep ==
  ASSUME LoopInv, UniqueIds, [Next]_vars
  PROVE  LoopInv'
<1>1. CASE dangling
  BY <1>1, OpenStep DEF LoopInv
<1>2. CASE ~ dangling
  <2>1. Steady /\ IInv /\ TypeOK
    BY <1>2 DEF LoopInv, Steady
  <2>2. CASE [Quiet]_vars
    <3>1. dangling \in BOOLEAN
      BY <2>1 DEF TypeOK
    <3>2. Steady'
      BY <2>1, <2>2, <3>1, QuietSteady
    <3>3. IInv'
      BY <2>1, <2>2, InvStep
    <3>4. QED
      BY <3>2, <3>3 DEF LoopInv, Steady, IInv
  <2>3. CASE SaveBreaks
    <3>1. pc = "commit" /\ mem.rev \in Nat
      BY <2>1, <2>3 DEF SaveBreaks, TypeOK, State
    <3>2. Good(mem.log) /\ mem.rev = disk.rev
      BY <2>1, <3>1, CommitFacts DEF CommittedOk, IInv, Saving
    <3>3. QED
      BY <2>1, <2>3, <3>1, <3>2, BreakStep DEF IInv
  <2>4. QED
    BY <1>2, <2>2, <2>3 DEF Next, OthersSave
<1>3. QED
  BY <1>1, <1>2

-----------------------------------------------------------------------------
(* The theorems. *)

\* What memory, checkpointer and started calls have to do with each other at
\* every step, with unique ids.
THEOREM Inductive == UniqueIds /\ Spec => []LoopInv
<1>1. SUFFICES ASSUME UniqueIds PROVE Spec => []LoopInv
  OBVIOUS
<1>2. Init => LoopInv
  BY InitInv DEF Init, LoopInv, IInv
<1>3. LoopInv /\ [Next]_vars => LoopInv'
  BY <1>1, LoopStep
<1>4. QED
  BY <1>2, <1>3, PTL DEF Spec

\* Without a durable answer is, by position, what is unresolved by id.
LEMMA UnansweredIsLost == ASSUME IInv PROVE Unanswered = Lost
<1>1. Good(disk.log) /\ effects \subseteq Occurrences(disk.log)
  BY DEF IInv
<1>2. ASSUME NEW e \in effects
      PROVE  Answered(disk.log, e[1], e[2]) <=> e \notin UnresolvedIds(disk.log)
  <2>1. PICK i \in DOMAIN disk.log : \E k \in DOMAIN disk.log[i].calls : e = <<i, k>>
    BY <1>1, <1>2 DEF Occurrences
  <2> PICK k \in DOMAIN disk.log[i].calls : e = <<i, k>>
    BY <2>1
  <2>2. e[1] = i /\ e[2] = k
    BY <2>1
  <2>3. Answered(disk.log, i, k) <=> <<i, k>> \in ResolvedIds(disk.log)
    BY <1>1, AnsweredIsResolved
  <2>4. e \in RequestedIds(disk.log)
    BY <1>1, <1>2, OccurrencesAreIds
  <2>5. QED
    BY <2>1, <2>2, <2>3, <2>4 DEF UnresolvedIds
<1>3. QED
  BY <1>2 DEF Unanswered, Lost

\* The types of the states that are saved and of the locals of a run.
THEOREM TypeCorrect == UniqueIds /\ Spec => []TypeOK
<1>1. LoopInv => TypeOK
  BY DEF LoopInv
<1>2. QED
  BY <1>1, Inductive, PTL

\* No tool is started for a call the checkpointer does not hold, whatever
\* crashes, cancels and failed commits came before.
THEOREM IntentDurable == UniqueIds /\ Spec => []IntentBeforeEffect
<1>1. LoopInv => IntentBeforeEffect
  BY DEF LoopInv, OpenInv, IInv, IntentBeforeEffect
<1>2. QED
  BY <1>1, Inductive, PTL

\* Every inference and every tool starts with a durable outcome for every
\* call started before it.
THEOREM OutcomeDurable == UniqueIds /\ Spec => []ResultBeforeNextStep
<1>1. LoopInv => ResultBeforeNextStep
  <2> SUFFICES ASSUME LoopInv PROVE ResultBeforeNextStep
    OBVIOUS
  <2>0. CASE dangling
    BY <2>0 DEF LoopInv, OpenInv, ResultBeforeNextStep
  <2>1. SUFFICES ASSUME IInv PROVE ResultBeforeNextStep
    BY <2>0 DEF LoopInv
  <2>2. pc \in {"turn_start", "infer", "tool", "skip"} => Lost = {}
    BY <2>1 DEF IInv, AtRest, Settled, Lost
  <2>3. pc = "executing" => Lost = {<<at, idx>>}
    BY <2>1 DEF IInv, AtRest
  <2>4. QED
    BY <2>1, <2>2, <2>3, UnansweredIsLost DEF ResultBeforeNextStep
<1>2. QED
  BY <1>1, Inductive, PTL

\* The tool loop never reaches a call that was started before.
THEOREM NeverReplayed == UniqueIds /\ Spec => []NoReplay
<1>1. LoopInv => NoReplay
  <2>1. SUFFICES ASSUME IInv, pc = "tool" PROVE <<at, idx>> \notin effects
    BY DEF NoReplay, LoopInv, OpenInv
  <2>2. Lost = {} /\ Pending(disk.log, at, idx)
    BY <2>1 DEF IInv, AtRest
  <2>3. idx \in 1 .. Len(disk.log[at].calls)
    BY <2>1, InDomain
  <2>4. <<at, idx>> \in UnresolvedIds(disk.log)
    BY <2>2, <2>3 DEF Pending
  <2>5. QED
    BY <2>2, <2>4 DEF Lost
<1>2. QED
  BY <1>1, Inductive, PTL

\* A provider accepts the durable transcript at every moment.
THEOREM TranscriptAccepted == UniqueIds /\ Spec => []TranscriptAnswered
<1>1. LoopInv => TranscriptAnswered
  BY DEF LoopInv, OpenInv, IInv, Good, TranscriptAnswered
<1>2. QED
  BY <1>1, Inductive, PTL

\* An event or a result tells only of what a crash cannot take back.
THEOREM OnlyDurableShown == UniqueIds /\ Spec => []ShownIsDurable
<1>1. LoopInv => ShownIsDurable
  BY DEF LoopInv, OpenInv, IInv, ShownIsDurable
<1>2. QED
  BY <1>1, Inductive, PTL

\* What the next run starts from is durable, unless a save that raised left its
\* transaction open: after a failed or interrupted commit too.
THEOREM MemoryIsDurable == UniqueIds /\ Spec => []IdleMemoryIsDurable
<1>1. LoopInv => IdleMemoryIsDurable
  BY DEF LoopInv, IInv, AtRest, IdleMemoryIsDurable, Current
<1>2. QED
  BY <1>1, Inductive, PTL

-----------------------------------------------------------------------------
(* How a run ends. *)

\* A message without calls leaves a settled transcript settled.
LEMMA ClosingMessage ==
  ASSUME NEW L, Settled(L)
  PROVE  UnresolvedIds(Append(L, Assistant(<<>>))) = {}
<1> DEFINE e == Assistant(<<>>)
<1>1. e \in Entry /\ e.kind = "ai" /\ e.ids = {} /\ e.calls = <<>>
  BY EntryConstructors
<1>2. e.kind # "tool" /\ DOMAIN e.calls = {}
  BY <1>1
<1> HIDE DEF e
<1>3. UnresolvedIds(Append(L, e)) = { <<Len(L) + 1, k>> : k \in DOMAIN e.calls }
  BY <1>1, <1>2, AppendToSettled
<1>4. QED
  BY <1>2, <1>3 DEF e

\* The last result of a batch settles the transcript.
LEMMA LastResult ==
  ASSUME NEW L, NEW a, Pending(L, a, 1), Len(L[a].calls) = 1
  PROVE  UnresolvedIds(Append(L, ResultOf(a, 1))) = {}
<1> DEFINE M == Append(L, ResultOf(a, 1))
           n == 1
<1>1. n \in Nat /\ Pending(L, a, n) /\ n <= Len(L[a].calls) /\ M = Append(L, ResultOf(a, n))
  OBVIOUS
<1> HIDE DEF M, n
<1>2. UnresolvedIds(M) = UnresolvedIds(L) \ {<<a, n>>}
  BY <1>1, AppendResult
<1>3. UnresolvedIds(L) = { <<a, k>> : k \in 1 .. 1 }
  BY DEF Pending
<1>4. QED
  BY <1>2, <1>3 DEF M, n

\* The store's half of EndingInv: what is committed was in order in memory.
LEMMA EndingStored ==
  ASSUME Steady, IInv, EndingInv, [Quiet]_vars
  PROVE  ~ torn' /\ disk'.finish \in SettledEnds => UnresolvedIds(disk'.log) = {}
<1>1. (disk' = disk /\ torn' = torn) \/ (pc = "commit" /\ disk' = Committed)
  BY DiskSteps
<1>2. mem \in State
  BY DEF IInv, TypeOK
<1>3. Committed.log = mem.log /\ Committed.finish = mem.finish
  BY <1>2 DEF Committed, State
<1>4. QED
  BY <1>1, <1>3 DEF EndingInv

\* A step to a commit that owes nothing by its status.
LEMMA EndingUnsettled ==
  ASSUME pc' = "commit", mem'.finish \in {"cancelled", "error", "max_turns",
           "unknown_tool_effect"}, cont' \in {"report_wait", "end_failed", "end_cancelled"},
         ~ torn' /\ disk'.finish \in SettledEnds => UnresolvedIds(disk'.log) = {}
  PROVE  EndingInv'
BY DEF EndingInv, Stage, SettledEnds

\* The run is over or has nothing in flight.
LEMMA EndingRest ==
  ASSUME pc' \in {"idle", "report_wait", "pause", "limit_save", "end_cancelled", "end_failed"},
         ~ torn' /\ disk'.finish \in SettledEnds => UnresolvedIds(disk'.log) = {}
  PROVE  EndingInv'
BY DEF EndingInv, Stage

LEMMA EndingStep ==
  ASSUME Steady, IInv, EndingInv, [Quiet]_vars
  PROVE  EndingInv'
<1>1. ~ torn' /\ disk'.finish \in SettledEnds => UnresolvedIds(disk'.log) = {}
  BY EndingStored
<1>2. mem \in State /\ disk \in State /\ cont \in Continuations
  BY DEF IInv, TypeOK
<1>3. CASE UNCHANGED vars \/ Submit
  <2>1. UNCHANGED <<store, mem, pc, cont, at>>
    BY <1>3 DEF vars, Submit, state, control, locals
  <2>2. QED
    BY <2>1 DEF EndingInv, Stage, Calls
<1>4. CASE CommitOk
  <2>1. /\ mem' = Committed /\ pc' = cont /\ cont' = cont /\ at' = at /\ pc = "commit"
    BY <1>4 DEF CommitOk, locals
  <2>2. /\ mem'.finish = mem.finish /\ mem'.next = mem.next /\ mem'.log = mem.log
    BY <1>2, <2>1 DEF Committed, State
  <2>3. Stage = cont /\ Stage' = cont /\ pc' # "commit" /\ Calls' = Calls
    BY <1>2, <2>1, <2>2 DEF Stage, Continuations, Calls
  <2>4. QED
    BY <1>1, <2>2, <2>3 DEF EndingInv
<1>5. CASE CommitFails \/ CommitCancelled \/ Crash \/ Raise \/ Finish \/ ReportWait \/ Pause
  <2>1. pc' = "idle"
    BY <1>5 DEF CommitFails, CommitCancelled, Crash, Raise, Finish, ReportWait, Pause, Unwind, EndRun
  <2>2. QED
    BY <1>1, <2>1, EndingRest
<1>6. CASE Fail \/ Cancel \/ LimitSave
  <2>1. /\ pc' = "commit" /\ cont' \in {"end_cancelled", "end_failed"}
        /\ mem'.finish \in {"cancelled", "error"}
    BY <1>2, <1>6 DEF Fail, Cancel, LimitSave, SaveThen, State
  <2>2. QED
    BY <1>1, <2>1, EndingUnsettled
<1>7. CASE Accept
  <2>1. Current \in State
    BY <1>2 DEF Current, Steady
  <2>2. CASE AcceptUnknown
    <3>1. /\ pc' = "commit" /\ cont' = "report_wait" /\ mem'.finish = "unknown_tool_effect"
      BY <2>1, <2>2 DEF AcceptUnknown, SaveThen, State
    <3>2. QED
      BY <1>1, <3>1, EndingUnsettled
  <2>3. CASE AcceptPrompt
    <3>1. /\ pc' = "commit" /\ cont' = "turn_start" /\ mem'.finish = "running"
      BY <2>1, <2>3 DEF AcceptPrompt, SaveThen, State
    <3>2. QED
      BY <1>1, <3>1 DEF EndingInv, Stage, SettledEnds
  <2>4. QED
    BY <1>7, <2>2, <2>3 DEF Accept
<1>8. CASE TurnStep
  <2>1. CASE StartTurn \/ NextTurn
    <3>1. /\ mem' = mem /\ pc' # "commit" /\ pc' \in {"infer", "turn_start"}
          /\ pc \in {"turn_start", "turn_saved"}
          /\ pc = "turn_saved" => mem.next # "finish"
      BY <2>1 DEF StartTurn, NextTurn, state
    <3>2. mem.finish = "running"
      BY <3>1 DEF EndingInv, Stage
    <3>3. QED
      BY <1>1, <3>1, <3>2 DEF EndingInv, Stage
  <2>2. CASE Infer
    <3>1. PICK b \in Batches :
            LET calls == [k \in DOMAIN b |-> [work |-> b[k], id |-> <<CallNumber, k>>]]
            IN mem' = [mem EXCEPT !.log = Append(@, Assistant(calls)),
                                  !.finish = IF b = <<>> THEN "completed" ELSE @,
                                  !.next = IF b = <<>> THEN "finish" ELSE @]
      BY <2>2 DEF Infer
    <3> DEFINE calls == [k \in DOMAIN b |-> [work |-> b[k], id |-> <<CallNumber, k>>]]
    <3>2. /\ pc = "infer" /\ pc' = "commit" /\ cont' = "responded" /\ at' = Len(mem.log) + 1
          /\ mem = disk /\ Settled(mem.log) /\ mem.finish = "running"
      BY <2>2 DEF Infer, AssistantBarrier, SaveThen, IInv, AtRest, EndingInv, Stage
    <3>3. /\ mem'.log = Append(mem.log, Assistant(calls))
          /\ mem'.finish = IF b = <<>> THEN "completed" ELSE mem.finish
          /\ mem'.next = IF b = <<>> THEN "finish" ELSE mem.next
      BY <1>2, <3>1 DEF State
    <3>4. calls = <<>> <=> b = <<>>
      BY DEF Batches
    <3>5. Calls' = calls
      <4>1. mem.log \in Seq(Entry) /\ mem'.log[Len(mem.log) + 1] = Assistant(calls)
        BY <1>2, <3>3 DEF State
      <4>2. QED
        BY <3>2, <4>1 DEF Calls, Assistant
    <3>6. b = <<>> => UnresolvedIds(mem'.log) = {}
      BY <3>2, <3>3, <3>4, ClosingMessage
    <3> HIDE DEF calls
    <3>7. QED
      BY <1>1, <3>2, <3>3, <3>4, <3>5, <3>6 DEF EndingInv, Stage, SettledEnds
  <2>3. CASE TurnLimit
    BY <1>1, <2>3, EndingRest DEF TurnLimit
  <2>4. CASE EndTurn
    <3>1. /\ mem' = mem /\ pc = "turn_check" /\ pc' = "commit" /\ cont' = "turn_saved"
          /\ mem = disk /\ Settled(mem.log)
      BY <2>4 DEF EndTurn, state, SaveThen, IInv, AtRest
    <3>2. mem.finish = "running" \/ mem.next = "finish"
      BY <3>1 DEF EndingInv, Stage
    <3>3. UnresolvedIds(mem'.log) = {}
      BY <3>1 DEF Settled
    <3>4. QED
      BY <1>1, <3>1, <3>2, <3>3 DEF EndingInv, Stage
  <2>5. QED
    BY <1>6, <1>8, <2>1, <2>2, <2>3, <2>4 DEF TurnStep
<1>9. CASE Respond
  <2>1. CASE RespondFinal
    <3>1. /\ mem' = mem /\ pc = "responded" /\ Calls = <<>> /\ pc' = "turn_check"
      BY <2>1 DEF RespondFinal, state
    <3>2. mem.next = "finish"
      BY <3>1 DEF EndingInv, Stage
    <3>3. QED
      BY <1>1, <3>1, <3>2 DEF EndingInv, Stage
  <2>2. CASE RespondWait
    <3>1. /\ mem'.log = Paused /\ mem'.finish = "wait" /\ pc' = "commit" /\ cont' = "pause"
          /\ pc = "responded" /\ Signature(Calls) = <<WaitWork>>
      BY <1>2, <2>2 DEF RespondWait, SaveThen, State
    <3>2. /\ Paused = Append(mem.log, ResultOf(at, 1)) /\ Len(Calls) = 1
      BY <3>1, PausedFacts
    <3>3. Pending(mem.log, at, 1) /\ Calls = mem.log[at].calls
      BY <3>1, CallInProgress DEF Calls
    <3>4. UnresolvedIds(mem'.log) = {}
      BY <3>1, <3>2, <3>3, LastResult
    <3>5. QED
      BY <1>1, <3>1, <3>4 DEF EndingInv, Stage
  <2>3. CASE RespondCalls
    <3>1. /\ mem' = mem /\ pc = "responded" /\ Calls # <<>> /\ pc' \in {"skip", "tool"}
      BY <2>3 DEF RespondCalls, state
    <3>2. mem.finish = "running"
      BY <3>1 DEF EndingInv, Stage
    <3>3. QED
      BY <1>1, <3>1, <3>2 DEF EndingInv, Stage
  <2>4. QED
    BY <1>9, <2>1, <2>2, <2>3 DEF Respond
<1>10. CASE ToolStep \/ SkipStep
  <2>1. pc \in {"tool", "executing", "tool_saved", "skip", "skip_saved"}
    BY <1>10 DEF ToolStep, SkipStep, StartTool, ToolReturns, RefuseTool, BlockTool, ToolSaved,
                 SkipCall, SkipSaved, RepeatStop
  <2>2. mem.finish = "running" \/ (mem.finish = "bash_blocked" /\ mem.next = "finish")
    BY <2>1 DEF EndingInv, Stage
  <2>3. Answering.finish = mem.finish /\ Answering.next = mem.next
    BY <1>2 DEF Answering, State
  <2>4. CASE StartTool \/ ToolSaved \/ SkipSaved
    <3>1. /\ mem' = mem /\ pc' \in {"executing", "tool", "turn_check", "skip"}
      BY <2>4 DEF StartTool, ToolSaved, SkipSaved, state
    <3>2. QED
      BY <1>1, <2>2, <3>1 DEF EndingInv, Stage
  <2>5. CASE ToolReturns \/ RefuseTool \/ SkipCall
    <3>1. /\ mem' = Answering /\ pc' = "commit" /\ cont' \in {"tool_saved", "skip_saved"}
      BY <2>5 DEF ToolReturns, RefuseTool, SkipCall, ResultBarrier, SaveThen
    <3>2. QED
      BY <1>1, <2>2, <2>3, <3>1 DEF EndingInv, Stage, SettledEnds
  <2>6. CASE BlockTool
    <3>1. /\ mem' = [Answering EXCEPT !.finish = "bash_blocked", !.next = "finish"]
          /\ pc' = "commit" /\ cont' = "tool_saved"
      BY <2>6 DEF BlockTool, SaveThen
    <3>2. mem'.finish = "bash_blocked" /\ mem'.next = "finish"
      BY <1>2, <3>1 DEF Answering, State
    <3>3. QED
      BY <1>1, <3>1, <3>2 DEF EndingInv, Stage, SettledEnds
  <2>7. CASE RepeatStop
    <3>1. /\ mem'.log = Append(mem.log, Assistant(<<>>)) /\ mem'.next = "finish"
          /\ pc = "skip" /\ ~ idx <= Len(Calls) /\ pc' = "commit" /\ cont' = "turn_check"
      <4>1. pc = "skip" /\ idx > Len(Calls) /\ pc' = "commit" /\ cont' = "turn_check"
        BY <2>7 DEF RepeatStop, SaveThen
      <4>2. Len(Calls) \in Nat /\ idx \in Nat
        BY <4>1, CallInProgress DEF IInv, TypeOK
      <4>3. QED
        BY <1>2, <2>7, <4>1, <4>2 DEF RepeatStop, State
    <3>2. Pending(mem.log, at, idx) /\ Calls = mem.log[at].calls /\ idx \in Nat
      BY <3>1, CallInProgress DEF Calls, IInv, TypeOK
    <3>3. Settled(mem.log)
      BY <3>1, <3>2, BatchEnd
    <3>4. UnresolvedIds(mem'.log) = {}
      BY <3>1, <3>3, ClosingMessage
    <3>5. QED
      BY <1>1, <3>1, <3>4 DEF EndingInv, Stage
  <2>8. QED
    BY <1>10, <2>4, <2>5, <2>6, <2>7 DEF ToolStep, SkipStep
<1>11. QED
  BY <1>3, <1>4, <1>5, <1>6, <1>7, <1>8, <1>9, <1>10 DEF Quiet, RunStep, Fault

\* A save that breaks off ends its run; the one that gets through after it holds
\* no final status.
LEMMA EndingBroken ==
  ASSUME TypeOK, EndingInv, SaveBreaks
  PROVE  EndingInv'
<1>1. pc' = "idle" /\ UNCHANGED <<disk, torn>>
  BY DEF SaveBreaks, Unwind, EndRun
<1>2. QED
  BY <1>1, EndingRest DEF EndingInv

LEMMA EndingOpenStep ==
  ASSUME TypeOK, OpenInv, dangling, EndingInv, [Next]_vars
  PROVE  EndingInv'
<1>1. mem \in State /\ conn \in State
  BY DEF TypeOK
<1>2. CASE UNCHANGED vars \/ Submit
  <2>1. UNCHANGED <<store, mem, pc, cont, at>>
    BY <1>2 DEF vars, Submit, state, control, locals
  <2>2. QED
    BY <2>1 DEF EndingInv, Stage, Calls
<1>3. CASE Accept
  <2>1. Current \in State /\ UNCHANGED <<disk, torn>>
    BY <1>1, <1>3 DEF Current, Accept, AcceptUnknown, AcceptPrompt
  <2>2. CASE AcceptUnknown
    <3>1. /\ pc' = "commit" /\ cont' = "report_wait" /\ mem'.finish = "unknown_tool_effect"
      BY <2>1, <2>2 DEF AcceptUnknown, SaveThen, State
    <3>2. QED
      BY <2>1, <3>1, EndingUnsettled DEF EndingInv
  <2>3. CASE AcceptPrompt
    <3>1. /\ pc' = "commit" /\ cont' = "turn_start" /\ mem'.finish = "running"
      BY <2>1, <2>3 DEF AcceptPrompt, SaveThen, State
    <3>2. QED
      BY <2>1, <3>1 DEF EndingInv, Stage, SettledEnds
  <2>4. QED
    BY <1>3, <2>2, <2>3 DEF Accept
<1>4. ASSUME Stored, pc = "commit"
      PROVE  ~ torn' /\ disk'.finish \in SettledEnds => UnresolvedIds(disk'.log) = {}
  <2>1. disk'.log = mem.log /\ disk'.finish = mem.finish
    BY <1>4, StoredOpen
  <2>2. QED
    BY <1>4, <2>1 DEF EndingInv
<1>5. CASE CommitOk
  <2>1. /\ mem' = Committed /\ pc' = cont /\ cont' = cont /\ at' = at /\ pc = "commit" /\ Stored
    BY <1>5 DEF CommitOk, locals
  <2>2. /\ mem'.finish = mem.finish /\ mem'.next = mem.next /\ mem'.log = mem.log
    BY <1>1, <2>1 DEF Committed, State
  <2>3. Stage = cont /\ Stage' = cont /\ pc' # "commit" /\ Calls' = Calls
    BY <2>1, <2>2 DEF Stage, OpenInv, Calls
  <2>4. QED
    BY <1>4, <2>1, <2>2, <2>3 DEF EndingInv
<1>6. CASE CommitFails \/ CommitCancelled \/ Crash
  <2>1. pc' = "idle"
    BY <1>6 DEF CommitFails, CommitCancelled, Crash, Unwind, EndRun
  <2>2. UNCHANGED <<disk, torn>> \/ (pc = "commit" /\ Stored)
    BY <1>6 DEF CommitFails, CommitCancelled, Crash, RolledBack
  <2>3. QED
    BY <1>4, <2>1, <2>2, EndingRest DEF EndingInv
<1>7. CASE OthersSave
  <2>1. pc' = "idle" /\ (UNCHANGED <<disk, torn>> \/ torn' = TRUE)
    BY <1>7 DEF OthersSave, RolledBack, control
  <2>2. QED
    BY <2>1, EndingRest DEF EndingInv
<1>8. QED
  BY <1>2, <1>3, <1>5, <1>6, <1>7, EndingBroken, OpenActions

LEMMA EndingLoopStep ==
  ASSUME LoopInv, EndingInv, [Next]_vars
  PROVE  EndingInv'
<1>1. CASE dangling
  BY <1>1, EndingOpenStep DEF LoopInv
<1>2. CASE ~ dangling
  BY <1>2, EndingStep, EndingBroken DEF LoopInv, Steady, Next, OthersSave
<1>3. QED
  BY <1>1, <1>2

\* A thread that durably says it completed, waits for input or stopped
\* repeating owes no result, whatever happened to the runs before.
THEOREM SettledOwesNothing == UniqueIds /\ Spec => []SettledMeansAnswered
<1>1. Init => EndingInv
  BY DEF Init, Fresh, EndingInv, Stage, SettledEnds
<1>2. LoopInv /\ EndingInv => SettledMeansAnswered
  BY OpenIsUnresolved DEF LoopInv, OpenInv, IInv, EndingInv, SettledEnds, SettledMeansAnswered
<1>3. LoopInv /\ EndingInv /\ [Next]_vars => EndingInv'
  BY EndingLoopStep
<1>4. QED
  BY <1>1, <1>2, <1>3, Inductive, PTL DEF Spec

-----------------------------------------------------------------------------
(* Repetitions. *)

\* What comes after an entry has no part in its being a repetition.
Extends(M, L) ==
  /\ DOMAIN L \subseteq DOMAIN M
  /\ \A i \in DOMAIN L : M[i] = L[i]

LEMMA ExtendsByOne ==
  ASSUME NEW L \in Seq(Entry), NEW e \in Entry
  PROVE  Extends(Append(L, e), L)
BY AppendEntry DEF Extends

LEMMA PrefixRelations ==
  ASSUME NEW L \in Seq(Entry), NEW M \in Seq(Entry), Extends(M, L), NEW i \in DOMAIN L
  PROVE  /\ \A h \in DOMAIN M : NextBatch(M, h, i) <=> h \in DOMAIN L /\ NextBatch(L, h, i)
         /\ Repeats(M, i) <=> Repeats(L, i)
         /\ ThirdInARow(M, i) <=> ThirdInARow(L, i)
<1>1. /\ DOMAIN L = 1 .. Len(L) /\ DOMAIN M = 1 .. Len(M) /\ Len(L) \in Nat /\ Len(M) \in Nat
      /\ \A j \in DOMAIN L : M[j] = L[j]
      /\ DOMAIN L \subseteq DOMAIN M
  BY DEF Extends
<1>2. ASSUME NEW j \in DOMAIN L, NEW h \in DOMAIN M
      PROVE  NextBatch(M, h, j) <=> h \in DOMAIN L /\ NextBatch(L, h, j)
  <2>1. h < j => h \in DOMAIN L /\ (\A m \in h+1 .. j-1 : m \in DOMAIN L) /\ h \in Nat
    BY <1>1
  <2>2. QED
    BY <1>1, <2>1 DEF NextBatch
<1>3. Repeats(M, i) <=> Repeats(L, i)
  BY <1>1, <1>2 DEF Repeats
<1>4. ThirdInARow(M, i) <=> ThirdInARow(L, i)
  BY <1>1, <1>2 DEF ThirdInARow
<1>5. QED
  BY <1>2, <1>3, <1>4

\* A result leaves the last batch the last.
LEMMA LastBatchKept ==
  ASSUME NEW L \in Seq(Entry), NEW e \in Entry, e.calls = <<>>,
         NEW h \in DOMAIN Append(L, e), LastBatch(Append(L, e), h)
  PROVE  h \in DOMAIN L /\ LastBatch(L, h) /\ e.kind = "tool"
<1> DEFINE M == Append(L, e)
<1>1. /\ DOMAIN L = 1 .. Len(L) /\ DOMAIN M = 1 .. Len(L) + 1 /\ Len(L) \in Nat
      /\ Len(M) = Len(L) + 1
      /\ \A j \in 1 .. Len(L) : M[j] = L[j]
      /\ M[Len(L) + 1] = e
  BY AppendEntry
<1>2. LastBatch(M, h) /\ h \in DOMAIN M
  OBVIOUS
<1> HIDE DEF M
<1>3. h # Len(L) + 1
  BY <1>1, <1>2 DEF LastBatch
<1>4. h \in 1 .. Len(L)
  BY <1>1, <1>2, <1>3
<1>5. \A m \in h+1 .. Len(L) : M[m] = L[m] /\ m \in h+1 .. Len(M)
  BY <1>1, <1>4
<1>6. Len(L) + 1 \in h+1 .. Len(M)
  BY <1>1, <1>4
<1>7. QED
  BY <1>1, <1>2, <1>4, <1>5, <1>6 DEF LastBatch

\* The batch before a new assistant message was the last one.
LEMMA PrecedingBatch ==
  ASSUME NEW L \in Seq(Entry), NEW e \in Entry,
         NEW h \in DOMAIN Append(L, e), NextBatch(Append(L, e), h, Len(L) + 1)
  PROVE  h \in DOMAIN L /\ LastBatch(L, h)
<1> DEFINE M == Append(L, e)
<1>1. /\ DOMAIN L = 1 .. Len(L) /\ DOMAIN M = 1 .. Len(L) + 1 /\ Len(L) \in Nat
      /\ \A j \in 1 .. Len(L) : M[j] = L[j]
  BY AppendEntry
<1>2. NextBatch(M, h, Len(L) + 1) /\ h \in DOMAIN M
  OBVIOUS
<1> HIDE DEF M
<1>3. h \in 1 .. Len(L) /\ Len(L) + 1 - 1 = Len(L)
  BY <1>1, <1>2 DEF NextBatch
<1>4. \A m \in h+1 .. Len(L) : M[m] = L[m]
  BY <1>1, <1>3
<1>5. QED
  BY <1>1, <1>2, <1>3, <1>4 DEF NextBatch, LastBatch

\* The messages the loop appends.
LEMMA CommitExtends ==
  ASSUME IInv, pc = "commit"
  PROVE  Extends(mem.log, disk.log)
<1>1. /\ mem.log \in Seq(Entry) /\ disk.log \in Seq(Entry) /\ cont \in Continuations /\ Saving
      /\ Good(disk.log) /\ at \in Nat /\ idx \in Nat
  BY DEF IInv, TypeOK, State
<1>2. CASE mem.log = disk.log
  BY <1>2 DEF Extends
<1>3. ASSUME NEW e, mem.log = Append(disk.log, e)
      PROVE  Extends(mem.log, disk.log)
  <2>1. /\ DOMAIN disk.log = 1 .. Len(disk.log) /\ Len(disk.log) \in Nat
        /\ DOMAIN mem.log = 1 .. Len(disk.log) + 1
        /\ \A i \in 1 .. Len(disk.log) : mem.log[i] = disk.log[i]
    BY <1>1, <1>3
  <2>2. QED
    BY <2>1 DEF Extends
<1>4. ASSUME NEW e, NEW f, mem.log = disk.log \o <<e, f>>
      PROVE  Extends(mem.log, disk.log)
  <2>1. /\ DOMAIN disk.log = 1 .. Len(disk.log) /\ Len(disk.log) \in Nat
        /\ DOMAIN mem.log = 1 .. Len(disk.log) + 2
        /\ \A i \in 1 .. Len(disk.log) : mem.log[i] = disk.log[i]
    BY <1>1, <1>4
  <2>2. QED
    BY <2>1 DEF Extends
<1>5. QED
  BY <1>1, <1>2, <1>3, <1>4
     DEF Saving, SavingInput, SavingAnswer, SavingResult, SavingStatus, Continuations

\* A message without calls adds no batch to remember.
LEMMA KnownKept ==
  ASSUME NEW L \in Seq(Entry), NEW e \in Entry, e.calls = <<>>, Known(L)
  PROVE  Known(Append(L, e))
<1> DEFINE M == Append(L, e)
<1>1. M \in Seq(Entry) /\ Extends(M, L) /\ \A i \in DOMAIN L : M[i] = L[i]
  BY AppendEntry, ExtendsByOne
<1>2. ASSUME NEW h \in DOMAIN M, LastBatch(M, h) PROVE h \in DOMAIN L /\ LastBatch(L, h)
  BY <1>2, LastBatchKept
<1> HIDE DEF M
<1>3. ASSUME NEW h \in DOMAIN M, LastBatch(M, h) PROVE Remembered(M, h)
  <2>1. h \in DOMAIN L /\ Remembered(L, h)
    BY <1>2, <1>3 DEF Known
  <2>2. (Repeats(M, h) <=> Repeats(L, h)) /\ M[h] = L[h]
    BY <1>1, <2>1, PrefixRelations
  <2>3. QED
    BY <2>1, <2>2 DEF Remembered
<1>4. QED
  BY <1>3 DEF Known, M

\* After a human message there is no batch to repeat.
LEMMA KnownAfterHuman ==
  ASSUME NEW M \in Seq(Entry), M # <<>>, M[Len(M)].kind = "human"
  PROVE  Known(M)
<1>1. Len(M) \in DOMAIN M /\ DOMAIN M = 1 .. Len(M) /\ Len(M) \in Nat
  OBVIOUS
<1>2. ASSUME NEW h \in DOMAIN M, LastBatch(M, h) PROVE FALSE
  <2>1. h # Len(M)
    BY <1>2 DEF LastBatch
  <2>2. Len(M) \in h+1 .. Len(M)
    BY <1>1, <2>1
  <2>3. QED
    BY <1>2, <2>2 DEF LastBatch
<1>3. QED
  BY <1>2 DEF Known

\* A status, or the end of the run: nothing to remember.
LEMMA RepeatRest ==
  ASSUME ThirdBatchNotRun',
         Stage' \in {"idle", "report_wait", "pause", "limit_save", "end_cancelled", "end_failed"}
  PROVE  RepeatInv'
BY DEF RepeatInv

\* No call of a third identical batch is started, and none that was started
\* becomes one.
LEMMA ThirdStep ==
  ASSUME Steady, IInv, RepeatInv, [Quiet]_vars
  PROVE  ThirdBatchNotRun'
<1>1. disk' = disk \/ (pc = "commit" /\ disk' = Committed)
  BY DiskSteps
<1>2. /\ mem \in State /\ disk.log \in Seq(Entry) /\ mem.log \in Seq(Entry) /\ Good(disk.log)
      /\ effects \subseteq Occurrences(disk.log)
  BY DEF IInv, TypeOK, State
<1>3. disk'.log \in Seq(Entry) /\ Extends(disk'.log, disk.log)
  <2>1. CASE disk' = disk
    BY <1>2, <2>1 DEF Extends
  <2>2. CASE pc = "commit" /\ disk' = Committed
    BY <1>2, <2>2, CommittedType, CommitExtends
  <2>3. QED
    BY <1>1, <2>1, <2>2
<1>4. effects' = effects \/ (StartTool /\ effects' = effects \cup {<<at, idx>>})
  BY DEF Quiet, vars, Accept, RunStep, Fault, Respond, ToolStep, SkipStep, TurnStep, CommitOk,
         CommitFails, CommitCancelled, Submit, AcceptUnknown, AcceptPrompt, ReportWait, StartTurn,
         Infer, RespondFinal, RespondWait, RespondCalls, Pause, StartTool, ToolReturns, RefuseTool,
         BlockTool, ToolSaved, SkipCall, SkipSaved, RepeatStop, TurnLimit, LimitSave, EndTurn,
         NextTurn, Finish, Fail, Cancel, Raise, Crash, Stored, Steady, world
<1>5. ASSUME NEW e \in effects PROVE ~ ThirdInARow(disk'.log, e[1])
  <2>1. e[1] \in DOMAIN disk.log
    BY <1>2 DEF Occurrences
  <2>2. ~ ThirdInARow(disk.log, e[1])
    BY <1>5 DEF RepeatInv, ThirdBatchNotRun
  <2>3. QED
    BY <1>2, <1>3, <2>1, <2>2, PrefixRelations
<1>6. StartTool => disk' = disk /\ ~ ThirdInARow(disk.log, at)
  BY CallInProgress DEF StartTool, state, RepeatInv, Stage
<1>7. QED
  BY <1>4, <1>5, <1>6 DEF ThirdBatchNotRun

\* Steps that append a message without calls.
LEMMA RepeatAppend ==
  ASSUME NEW e \in Entry, e.calls = <<>>, mem.log \in Seq(Entry), RepeatInv, ThirdBatchNotRun',
         Stage \in {"tool", "executing", "skip"}, mem'.log = Append(mem.log, e),
         Stage' \in {"tool_saved", "skip_saved", "turn_check"},
         Stage' = "tool_saved" => Stage # "skip" /\ at \in DOMAIN mem.log,
         UNCHANGED <<at, lastSig, repeats>>
  PROVE  RepeatInv'
<1>1. Known(mem.log)
  BY DEF RepeatInv
<1>2. Known(mem'.log)
  BY <1>1, KnownKept
<1>3. Known(mem.log)'
  BY <1>2 DEF Known, Remembered
<1>4. ASSUME Stage' = "tool_saved" PROVE ~ ThirdInARow(mem'.log, at)
  <2>1. ~ ThirdInARow(mem.log, at) /\ at \in DOMAIN mem.log
    BY <1>4 DEF RepeatInv
  <2>2. Append(mem.log, e) \in Seq(Entry) /\ Extends(Append(mem.log, e), mem.log)
    BY ExtendsByOne
  <2>3. QED
    BY <2>1, <2>2, PrefixRelations
<1>5. QED
  BY <1>3, <1>4 DEF RepeatInv

\* A batch is compared with the one before it, and counted.
LEMMA RepeatRespond ==
  ASSUME IInv, RepeatInv, ThirdBatchNotRun', RepeatLimit <= 3, Respond
  PROVE  RepeatInv'
<1>1. /\ pc = "responded" /\ Stage = "responded"
      /\ mem.log \in Seq(Entry) /\ repeats \in Nat /\ RepeatLimit \in Nat
  BY LoopAssumption
     DEF Respond, RespondFinal, RespondWait, RespondCalls, Stage, IInv, TypeOK, State
<1>2. /\ at = Len(mem.log) /\ at \in DOMAIN mem.log /\ mem.log[at].kind = "ai"
      /\ \A h \in DOMAIN mem.log : NextBatch(mem.log, h, at) => Remembered(mem.log, h)
      /\ DOMAIN mem.log = 1 .. Len(mem.log) /\ Len(mem.log) \in Nat
  BY <1>1 DEF RepeatInv
<1>3. ASSUME NEW h \in DOMAIN mem.log, LastBatch(mem.log, h)
      PROVE  h = at /\ Calls # <<>>
  <2>1. ASSUME h # at PROVE FALSE
    <3>1. at \in h+1 .. Len(mem.log)
      BY <1>2, <2>1
    <3>2. QED
      BY <1>2, <1>3, <3>1 DEF LastBatch
  <2>2. QED
    BY <1>3, <2>1 DEF LastBatch, Calls
<1>4. CASE RespondFinal
  <2>1. /\ mem' = mem /\ pc' = "turn_check" /\ Calls = <<>>
    BY <1>4 DEF RespondFinal, state
  <2>2. Known(mem.log)'
    BY <1>3, <2>1 DEF Known, LastBatch
  <2>3. QED
    BY <2>1, <2>2 DEF RepeatInv, Stage
<1>5. CASE RespondWait
  <2>1. Stage' = "pause"
    BY <1>5 DEF RespondWait, SaveThen, Stage
  <2>2. QED
    BY <2>1, RepeatRest
<1>6. CASE RespondCalls
  <2>1. /\ mem' = mem /\ at' = at /\ lastSig' = Signature(mem.log[at].calls)
        /\ repeats' = IF Signature(mem.log[at].calls) = lastSig THEN repeats + 1 ELSE 1
        /\ pc' = IF repeats' >= RepeatLimit THEN "skip" ELSE "tool"
    BY <1>6 DEF RespondCalls, state, Calls, Repeated
  <2>2. Repeats(mem.log, at) => repeats' >= 2
    <3>1. SUFFICES ASSUME Repeats(mem.log, at) PROVE repeats' >= 2
      OBVIOUS
    <3>2. PICK g \in DOMAIN mem.log :
            NextBatch(mem.log, g, at)
              /\ Signature(mem.log[g].calls) = Signature(mem.log[at].calls)
      BY <3>1 DEF Repeats
    <3>3. lastSig = Signature(mem.log[at].calls) /\ repeats >= 1
      BY <1>2, <3>2 DEF Remembered
    <3>4. QED
      BY <1>1, <2>1, <3>3
  <2>3. repeats' >= 1
    BY <1>1, <2>1
  <2>4. Known(mem.log)'
    <3>1. ASSUME NEW h \in DOMAIN mem.log, LastBatch(mem.log, h)
          PROVE  /\ lastSig' = Signature(mem.log[h].calls) /\ repeats' >= 1
                 /\ Repeats(mem.log, h) => repeats' >= 2
      BY <1>3, <2>1, <2>2, <2>3, <3>1
    <3>2. QED
      BY <2>1, <3>1 DEF Known, Remembered
  <2>5. ASSUME pc' = "tool" PROVE ~ ThirdInARow(mem.log, at)
    <3>1. SUFFICES ASSUME ThirdInARow(mem.log, at) PROVE repeats' >= 3
      BY <1>1, <2>1, <2>5
    <3>2. PICK g \in DOMAIN mem.log, h \in DOMAIN mem.log :
            /\ NextBatch(mem.log, g, h) /\ NextBatch(mem.log, h, at)
            /\ Signature(mem.log[g].calls) = Signature(mem.log[h].calls)
            /\ Signature(mem.log[h].calls) = Signature(mem.log[at].calls)
      BY <3>1 DEF ThirdInARow
    <3>3. Repeats(mem.log, h)
      BY <3>2 DEF Repeats
    <3>4. lastSig = Signature(mem.log[at].calls) /\ repeats >= 2
      BY <1>2, <3>2, <3>3 DEF Remembered
    <3>5. QED
      BY <1>1, <2>1, <3>4
  <2>6. Stage' = pc' /\ pc' \in {"tool", "skip"}
    BY <2>1 DEF Stage
  <2>7. QED
    BY <2>1, <2>4, <2>5, <2>6 DEF RepeatInv
<1>7. QED
  BY <1>4, <1>5, <1>6 DEF Respond

\* Steps that leave the transcript and the memory of the batches alone.
LEMMA RepeatSame ==
  ASSUME RepeatInv, ThirdBatchNotRun', mem'.log = mem.log, UNCHANGED <<at, lastSig, repeats>>,
         \/ Stage' = Stage
         \/ Stage \in {"tool", "executing", "tool_saved"} /\ Stage' \in {"tool", "executing", "turn_check"}
         \/ /\ Stage \in {"turn_start", "turn_check", "turn_saved", "skip_saved"}
            /\ Stage' \in {"infer", "turn_saved", "turn_start", "skip"}
  PROVE  RepeatInv'
<1>1. /\ Known(mem.log)' <=> Known(mem.log)
      /\ \A h : Remembered(mem.log, h)' <=> Remembered(mem.log, h)
  BY DEF Known, Remembered
<1>2. QED
  BY <1>1 DEF RepeatInv

\* After its prompt a run has no batch to repeat.
LEMMA AcceptedKnown ==
  ASSUME TypeOK, TypeOK', AcceptPrompt, ThirdBatchNotRun'
  PROVE  RepeatInv'
<1>0. mem \in State /\ conn \in State /\ mem'.log \in Seq(Entry)
  BY DEF TypeOK, State
<1>1. Current \in State /\ Current.log \in Seq(Entry) /\ Human \in Entry /\ Human.kind = "human"
  BY <1>0, EntryConstructors DEF Current, State
<1>2. mem'.log = Continued /\ Stage' = "turn_start"
  BY <1>1 DEF AcceptPrompt, SaveThen, Stage, State
<1>3. mem'.log # <<>> /\ mem'.log[Len(mem'.log)] = Human
  <2> DEFINE L == Current.log
  <2>1. L \in Seq(Entry) /\ (mem'.log = Append(L, Human) \/ \E e : mem'.log = L \o <<e, Human>>)
    BY <1>1, <1>2 DEF Continued
  <2> HIDE DEF L
  <2>2. CASE mem'.log = Append(L, Human)
    BY <2>1, <2>2
  <2>3. ASSUME NEW e, mem'.log = L \o <<e, Human>> PROVE mem'.log # <<>> /\ mem'.log[Len(mem'.log)] = Human
    BY <2>1, <2>3
  <2>4. QED
    BY <2>1, <2>2, <2>3
<1>4. Known(mem'.log)
  BY <1>0, <1>1, <1>3, KnownAfterHuman
<1>5. Known(mem.log)'
  BY <1>4 DEF Known, Remembered, AcceptPrompt, locals
<1>6. QED
  BY <1>2, <1>5 DEF RepeatInv

LEMMA RepeatStep ==
  ASSUME Steady, IInv, TypeOK', RepeatInv, RepeatLimit <= 3, [Quiet]_vars
  PROVE  RepeatInv'
<1>1. ThirdBatchNotRun'
  BY ThirdStep
<1>2. /\ mem \in State /\ disk \in State /\ mem.log \in Seq(Entry) /\ disk.log \in Seq(Entry)
      /\ cont \in Continuations /\ mem'.log \in Seq(Entry)
  BY DEF IInv, TypeOK, State
<1>3. CASE UNCHANGED vars \/ Submit
  <2>1. UNCHANGED <<mem, pc, cont, at, lastSig, repeats>>
    BY <1>3 DEF vars, Submit, state, control, locals
  <2>2. mem'.log = mem.log /\ Stage' = Stage
    BY <2>1 DEF Stage
  <2>3. QED
    BY <1>1, <2>1, <2>2, RepeatSame
<1>4. CASE CommitOk
  <2>1. /\ mem' = Committed /\ pc' = cont /\ pc = "commit" /\ UNCHANGED <<at, lastSig, repeats>>
    BY <1>4 DEF CommitOk, locals
  <2>2. mem'.log = mem.log /\ Stage' = Stage
    BY <1>2, <2>1, CommittedType DEF Stage, Continuations
  <2>3. QED
    BY <1>1, <2>1, <2>2, RepeatSame
<1>5. CASE \/ Fault \/ Raise \/ Finish \/ ReportWait \/ Pause \/ LimitSave \/ TurnLimit
           \/ AcceptUnknown
  <2>1. Stage' \in {"idle", "report_wait", "limit_save", "end_cancelled", "end_failed"}
    BY <1>5 DEF Fault, CommitFails, CommitCancelled, Crash, Fail, Cancel, Raise, Finish,
         ReportWait, Pause, LimitSave, TurnLimit, AcceptUnknown, Unwind, EndRun, SaveThen, Stage
  <2>2. QED
    BY <1>1, <2>1, RepeatRest
<1>6. CASE AcceptPrompt
  BY <1>1, <1>2, <1>6, AcceptedKnown DEF IInv
<1>7. CASE StartTurn \/ NextTurn \/ EndTurn
  <2>1. /\ mem' = mem /\ UNCHANGED <<at, lastSig, repeats>>
        /\ Stage \in {"turn_start", "turn_check", "turn_saved"}
        /\ Stage' \in {"infer", "turn_saved", "turn_start"}
    BY <1>7 DEF StartTurn, NextTurn, EndTurn, state, locals, SaveThen, Stage
  <2>2. QED
    BY <1>1, <2>1, RepeatSame
<1>8. CASE Infer
  <2>1. PICK c \in Seq(Call) : mem'.log = Append(mem.log, Assistant(c))
    <3>1. PICK b \in Batches :
            LET calls == [k \in DOMAIN b |-> [work |-> b[k], id |-> <<CallNumber, k>>]]
            IN mem' = [mem EXCEPT !.log = Append(@, Assistant(calls)),
                                  !.finish = IF b = <<>> THEN "completed" ELSE @,
                                  !.next = IF b = <<>> THEN "finish" ELSE @]
      BY <1>8 DEF Infer
    <3> DEFINE calls == [k \in DOMAIN b |-> [work |-> b[k], id |-> <<CallNumber, k>>]]
    <3>2. mem'.log = Append(mem.log, Assistant(calls))
      BY <1>2, <3>1 DEF State
    <3>3. CallNumber \in Nat
      BY <1>2 DEF CallNumber, IInv, TypeOK
    <3>4. calls \in Seq(Call)
      BY <3>3, InferredCalls
    <3> HIDE DEF calls
    <3>5. QED
      BY <3>2, <3>4
  <2> DEFINE e == Assistant(c)
             L == mem.log
  <2>2. e \in Entry /\ e.kind = "ai" /\ L \in Seq(Entry) /\ mem'.log = Append(L, e)
    BY <1>2, <2>1, EntryConstructors
  <2>3. /\ at' = Len(L) + 1 /\ Stage = "infer" /\ Stage' = "responded"
        /\ UNCHANGED <<lastSig, repeats>>
    BY <1>8 DEF Infer, AssistantBarrier, SaveThen, Stage
  <2>4. Known(L)
    BY <2>3 DEF RepeatInv
  <2> HIDE DEF e, L
  <2>5. /\ Len(mem'.log) = Len(L) + 1 /\ mem'.log[Len(L) + 1] = e
        /\ Extends(mem'.log, L) /\ mem'.log \in Seq(Entry)
        /\ \A i \in DOMAIN L : mem'.log[i] = L[i]
    BY <2>2, AppendEntry, ExtendsByOne
  <2>6. ASSUME NEW h \in DOMAIN mem'.log, NextBatch(mem'.log, h, Len(L) + 1)
        PROVE  Remembered(mem'.log, h)
    <3>1. h \in DOMAIN L /\ LastBatch(L, h)
      BY <2>2, <2>6, PrecedingBatch
    <3>2. Remembered(L, h)
      BY <2>4, <3>1 DEF Known
    <3>3. mem'.log[h] = L[h] /\ (Repeats(mem'.log, h) <=> Repeats(L, h))
      BY <2>2, <2>5, <3>1, PrefixRelations
    <3>4. QED
      BY <3>2, <3>3 DEF Remembered
  <2>7. \A h \in DOMAIN mem'.log : NextBatch(mem'.log, h, at') => Remembered(mem.log, h)'
    BY <2>3, <2>6 DEF Remembered
  <2>8. at' = Len(mem'.log) /\ mem'.log # <<>> /\ mem'.log[at'].kind = "ai"
    <3>1. Len(L) + 1 # 0
      BY <2>2
    <3>2. QED
      BY <2>2, <2>3, <2>5, <3>1
  <2>9. QED
    BY <1>1, <2>3, <2>7, <2>8 DEF RepeatInv
<1>9. CASE Respond
  BY <1>1, <1>9, RepeatRespond
<1>10. CASE StartTool \/ ToolSaved \/ SkipSaved
  <2>1. /\ mem' = mem /\ UNCHANGED <<at, lastSig, repeats>>
        /\ \/ Stage \in {"tool", "tool_saved"} /\ Stage' \in {"executing", "tool", "turn_check"}
           \/ Stage = "skip_saved" /\ Stage' = "skip"
    BY <1>10 DEF StartTool, ToolSaved, SkipSaved, state, locals, Stage
  <2>2. QED
    BY <1>1, <2>1, RepeatSame
<1>11. CASE ToolReturns \/ RefuseTool \/ BlockTool \/ SkipCall
  <2>1. /\ pc \in {"tool", "executing"} \/ (pc = "skip" /\ idx <= Len(Calls))
        /\ mem'.log = Answering.log /\ UNCHANGED <<at, lastSig, repeats>>
        /\ Stage = pc /\ Stage' \in {"tool_saved", "skip_saved"}
        /\ Stage' = "tool_saved" => pc # "skip"
    <3>1. CASE BlockTool
      <4>1. mem'.log = Answering.log
        BY <1>2, <3>1 DEF BlockTool, Answering, State
      <4>2. QED
        BY <3>1, <4>1 DEF BlockTool, SaveThen, locals, Stage
    <3>2. CASE SkipCall
      BY <3>2 DEF SkipCall, SaveThen, locals, Stage
    <3>3. CASE ToolReturns \/ RefuseTool
      BY <3>3 DEF ToolReturns, RefuseTool, ResultBarrier, SaveThen, locals, Stage
    <3>4. QED
      BY <1>11, <3>1, <3>2, <3>3
  <2>2. idx \in DOMAIN Calls
    BY <2>1, InDomain
  <2>3. Answering.log = Append(mem.log, ResultOf(at, idx))
    BY <2>1, <2>2, AnsweringFacts
  <2>4. at \in DOMAIN mem.log /\ <<at, idx>> \in CallId
    BY <2>1, <2>2, CallInProgress
  <2>5. ResultOf(at, idx) \in Entry /\ ResultOf(at, idx).calls = <<>>
    BY <2>4 DEF ResultOf, Results, Entry
  <2>6. QED
    BY <1>1, <1>2, <2>1, <2>3, <2>4, <2>5, RepeatAppend
<1>12. CASE RepeatStop
  <2>1. /\ mem'.log = Append(mem.log, Assistant(<<>>)) /\ Stage = "skip" /\ Stage' = "turn_check"
        /\ UNCHANGED <<at, lastSig, repeats>>
    BY <1>2, <1>12 DEF RepeatStop, SaveThen, locals, Stage, State
  <2>2. Assistant(<<>>) \in Entry /\ Assistant(<<>>).calls = <<>>
    BY EntryConstructors
  <2>3. QED
    BY <1>1, <1>2, <2>1, <2>2, RepeatAppend
<1>13. QED
  BY <1>3, <1>4, <1>5, <1>6, <1>7, <1>8, <1>9, <1>10, <1>11, <1>12
     DEF Quiet, Accept, RunStep, Fault, TurnStep, ToolStep, SkipStep

\* A broken save adds no batch, and what it drops was not started any more.
OpenRepeat ==
  dangling => \A e \in effects \cap Occurrences(conn.log) : ~ ThirdInARow(conn.log, e[1])

LEMMA RepeatBroken ==
  ASSUME TypeOK, SaveBreaks, Good(mem.log), RepeatInv,
         \A e \in effects \cap Occurrences(mem.log) : ~ ThirdInARow(mem.log, e[1])
  PROVE  RepeatInv' /\ OpenRepeat'
<1>1. /\ Good(conn'.log) /\ DOMAIN conn'.log \subseteq DOMAIN mem.log
      /\ \A i \in DOMAIN conn'.log : conn'.log[i] = mem.log[i]
  BY Broken
<1>2. pc' = "idle" /\ UNCHANGED <<disk, effects>>
  BY DEF SaveBreaks, Unwind, EndRun, world
<1>3. Extends(mem.log, conn'.log) /\ conn'.log \in Seq(Entry) /\ mem.log \in Seq(Entry)
  BY <1>1 DEF Extends, Good
<1>4. ASSUME NEW e \in effects \cap Occurrences(conn'.log)
      PROVE  ~ ThirdInARow(conn'.log, e[1])
  <2>1. e[1] \in DOMAIN conn'.log /\ e \in Occurrences(mem.log)
    BY <1>1 DEF Occurrences
  <2>2. ~ ThirdInARow(mem.log, e[1])
    BY <2>1
  <2>3. QED
    BY <1>3, <2>1, <2>2, PrefixRelations
<1>5. RepeatInv'
  BY <1>2, RepeatRest DEF RepeatInv, ThirdBatchNotRun, Stage
<1>6. QED
  BY <1>2, <1>4, <1>5 DEF OpenRepeat

\* What the saves after a broken one append holds no batch.
LEMMA OpenThird ==
  ASSUME TypeOK, OpenInv, dangling, OpenRepeat, pc = "commit"
  PROVE  \A e \in effects \cap Occurrences(mem.log) : ~ ThirdInARow(mem.log, e[1])
<1>1. /\ Good(conn.log) /\ SavingInput(conn) /\ cont \in {"report_wait", "turn_start"}
      /\ conn.log \in Seq(Entry) /\ mem.log \in Seq(Entry)
  BY DEF OpenInv, TypeOK, State
<1> DEFINE L == conn.log
           M == mem.log
           R == Results(UnresolvedIds(L))
<1>2. \/ M = L \/ M = Append(L, Human) \/ M = L \o <<R, Human>>
  BY <1>1 DEF SavingInput
<1>3. R.calls = <<>> /\ Human.calls = <<>>
  BY DEF Results, Human
<1>4. L \in Seq(Entry) /\ M \in Seq(Entry)
  BY <1>1
<1> HIDE DEF L, M, R
<1>5. Extends(M, L) /\ \A i \in DOMAIN M \ DOMAIN L : M[i].calls = <<>>
  <2>1. CASE M = L
    BY <2>1 DEF Extends
  <2>2. CASE M = Append(L, Human)
    <3>1. DOMAIN L = 1 .. Len(L) /\ Len(L) \in Nat /\ DOMAIN M = 1 .. Len(L) + 1
          /\ (\A i \in 1 .. Len(L) : M[i] = L[i]) /\ M[Len(L) + 1] = Human
      BY <1>4, <2>2
    <3>2. QED
      BY <1>3, <3>1 DEF Extends
  <2>3. CASE M = L \o <<R, Human>>
    <3>1. DOMAIN L = 1 .. Len(L) /\ Len(L) \in Nat /\ DOMAIN M = 1 .. Len(L) + 2
          /\ (\A i \in 1 .. Len(L) : M[i] = L[i])
          /\ M[Len(L) + 1] = R /\ M[Len(L) + 2] = Human
      BY <1>4, <2>3
    <3>2. QED
      BY <1>3, <3>1 DEF Extends
  <2>4. QED
    BY <1>2, <2>1, <2>2, <2>3
<1>6. ASSUME NEW e \in effects \cap Occurrences(M)
      PROVE  ~ ThirdInARow(M, e[1])
  <2>1. PICK i \in DOMAIN M : \E k \in DOMAIN M[i].calls : e = <<i, k>>
    BY <1>6 DEF Occurrences
  <2>2. e[1] = i /\ i \in DOMAIN L
    BY <1>5, <2>1
  <2>3. e \in Occurrences(L)
    BY <1>5, <2>1, <2>2 DEF Occurrences, Extends
  <2>4. ~ ThirdInARow(L, e[1])
    BY <1>6, <2>3 DEF OpenRepeat, L
  <2>5. QED
    BY <1>4, <1>5, <2>2, <2>4, PrefixRelations
<1>7. QED
  BY <1>6 DEF M

\* What the loop's next save holds is no third repetition of a started batch.
LEMMA SavedThird ==
  ASSUME IInv, RepeatInv, pc = "commit"
  PROVE  \A e \in effects \cap Occurrences(mem.log) : ~ ThirdInARow(mem.log, e[1])
<1>1. /\ disk.log \in Seq(Entry) /\ mem.log \in Seq(Entry)
      /\ effects \subseteq Occurrences(disk.log) /\ Extends(mem.log, disk.log)
  BY CommitExtends DEF IInv, TypeOK, State
<1>2. ASSUME NEW e \in effects PROVE ~ ThirdInARow(mem.log, e[1])
  <2>1. e[1] \in DOMAIN disk.log
    BY <1>1 DEF Occurrences
  <2>2. ~ ThirdInARow(disk.log, e[1])
    BY <1>2 DEF RepeatInv, ThirdBatchNotRun
  <2>3. QED
    BY <1>1, <2>1, <2>2, PrefixRelations
<1>3. QED
  BY <1>2

LEMMA RepeatOpenStep ==
  ASSUME TypeOK, OpenInv, dangling, RepeatInv, OpenRepeat, [Next]_vars, TypeOK'
  PROVE  RepeatInv' /\ OpenRepeat'
<1>1. mem \in State /\ conn \in State /\ mem'.log \in Seq(Entry)
  BY DEF TypeOK, State
<1>2. CASE UNCHANGED vars \/ Submit
  <2>1. UNCHANGED <<store, mem, pc, cont, at, lastSig, repeats, effects>>
    BY <1>2 DEF vars, Submit, state, control, locals, world
  <2>2. mem'.log = mem.log /\ Stage' = Stage
    BY <2>1 DEF Stage
  <2>3. ThirdBatchNotRun' /\ OpenRepeat'
    BY <2>1 DEF RepeatInv, ThirdBatchNotRun, OpenRepeat
  <2>4. QED
    BY <2>1, <2>2, <2>3, RepeatSame
<1>3. CASE Accept
  <2>1. UNCHANGED <<store, effects>>
    BY <1>3 DEF Accept, AcceptUnknown, AcceptPrompt, world
  <2>2. ThirdBatchNotRun' /\ OpenRepeat'
    BY <2>1 DEF RepeatInv, ThirdBatchNotRun, OpenRepeat
  <2>3. CASE AcceptUnknown
    <3>1. Stage' = "report_wait"
      BY <2>3 DEF AcceptUnknown, SaveThen, Stage
    <3>2. QED
      BY <2>2, <3>1, RepeatRest
  <2>4. CASE AcceptPrompt
    BY <1>1, <2>2, <2>4, AcceptedKnown
  <2>5. QED
    BY <1>3, <2>3, <2>4 DEF Accept
<1>4. ASSUME Stored, pc = "commit" PROVE ThirdBatchNotRun' /\ OpenRepeat'
  <2>1. disk'.log = mem.log /\ effects' = effects \cap Occurrences(disk'.log) /\ ~ dangling'
    BY <1>4, StoredOpen
  <2>2. QED
    BY <1>4, <2>1, OpenThird DEF ThirdBatchNotRun, OpenRepeat
<1>5. CASE CommitOk
  <2>1. /\ mem' = Committed /\ pc' = cont /\ pc = "commit" /\ UNCHANGED <<at, lastSig, repeats>>
        /\ Stored
    BY <1>5 DEF CommitOk, locals
  <2>2. mem'.log = mem.log /\ Stage' = Stage
    BY <1>1, <2>1, CommittedType DEF Stage, OpenInv
  <2>3. QED
    BY <1>4, <2>1, <2>2, RepeatSame
<1>6. CASE CommitFails \/ CommitCancelled \/ Crash
  <2>1. pc' = "idle"
    BY <1>6 DEF CommitFails, CommitCancelled, Crash, Unwind, EndRun
  <2>2. \/ UNCHANGED <<store, effects>>
        \/ RolledBack /\ UNCHANGED effects
        \/ pc = "commit" /\ Stored
    BY <1>6 DEF CommitFails, CommitCancelled, Crash, world
  <2>3. ThirdBatchNotRun' /\ OpenRepeat'
    BY <1>4, <2>2 DEF RepeatInv, ThirdBatchNotRun, OpenRepeat, RolledBack
  <2>4. QED
    BY <2>1, <2>3, RepeatRest DEF Stage
<1>7. CASE SaveBreaks
  <2>1. pc = "commit"
    BY <1>7 DEF SaveBreaks
  <2>2. QED
    BY <1>7, <2>1, OpenSaved, OpenThird, RepeatBroken
<1>8. CASE OthersSave
  <2>1. pc' = "idle" /\ ~ dangling'
    BY <1>8 DEF OthersSave, RolledBack, control
  <2>2. \/ disk' = conn /\ effects' = effects \cap Occurrences(conn.log)
        \/ UNCHANGED <<disk, effects>>
    BY <1>8 DEF OthersSave, RolledBack, Forget, world
  <2>3. ThirdBatchNotRun'
    BY <2>2 DEF RepeatInv, ThirdBatchNotRun, OpenRepeat
  <2>4. QED
    BY <2>1, <2>3, RepeatRest DEF Stage, OpenRepeat
<1>9. QED
  BY <1>2, <1>3, <1>5, <1>6, <1>7, <1>8, OpenActions

LEMMA RepeatLoopStep ==
  ASSUME LoopInv, LoopInv', RepeatInv, OpenRepeat, RepeatLimit <= 3, [Next]_vars
  PROVE  RepeatInv' /\ OpenRepeat'
<1>1. TypeOK /\ TypeOK'
  BY DEF LoopInv
<1>2. CASE dangling
  BY <1>1, <1>2, RepeatOpenStep DEF LoopInv
<1>3. CASE ~ dangling
  <2>1. Steady /\ IInv
    BY <1>3 DEF LoopInv, Steady
  <2>2. CASE [Quiet]_vars
    <3>1. dangling \in BOOLEAN
      BY <1>1 DEF TypeOK
    <3>2. Steady'
      BY <2>1, <2>2, <3>1, QuietSteady
    <3>3. RepeatInv'
      BY <1>1, <2>1, <2>2, RepeatStep
    <3>4. QED
      BY <3>2, <3>3 DEF OpenRepeat, Steady
  <2>3. CASE SaveBreaks
    <3>1. pc = "commit"
      BY <2>3 DEF SaveBreaks
    <3>2. QED
      BY <1>1, <2>1, <2>3, <3>1, CommitFacts, SavedThird, RepeatBroken DEF CommittedOk
  <2>4. QED
    BY <1>3, <2>2, <2>3 DEF Next, OthersSave
<1>4. QED
  BY <1>2, <1>3

\* The third identical batch in a row of a run is never started, with the
\* limit the loop has (three) or a lower one.
THEOREM ThirdNeverStarted ==
  UniqueIds /\ RepeatLimit <= 3 /\ Spec => []ThirdBatchNotRun
<1>1. Init => RepeatInv /\ OpenRepeat
  BY DEF Init, RepeatInv, ThirdBatchNotRun, Stage, OpenRepeat
<1>2. RepeatInv => ThirdBatchNotRun
  BY DEF RepeatInv
<1>3. SUFFICES ASSUME RepeatLimit <= 3 PROVE UniqueIds /\ Spec => []ThirdBatchNotRun
  OBVIOUS
<1>4. LoopInv /\ LoopInv' /\ RepeatInv /\ OpenRepeat /\ [Next]_vars
        => RepeatInv' /\ OpenRepeat'
  BY <1>3, RepeatLoopStep
<1>5. QED
  BY <1>1, <1>2, <1>4, Inductive, PTL DEF Spec

-----------------------------------------------------------------------------
(* The durable thread implements the protocol. *)

\* The protocol's own copies of the transcript's operators are these.
LEMMA SameOperators ==
  /\ Protocol!Human = Human
  /\ \A c : Protocol!Assistant(c) = Assistant(c)
  /\ \A I : Protocol!Results(I) = Results(I)
  /\ \A L : Protocol!Open(L) = Open(L) /\ Protocol!OpenIds(L) = OpenIds(L)
BY DEF Protocol!Human, Human, Protocol!Assistant, Assistant, Protocol!Results, Results,
       Protocol!Open, Open, Protocol!OpenIds, OpenIds, Protocol!Occurrences, Occurrences,
       Protocol!Answered, Answered, Protocol!AnsweredBy, AnsweredBy

\* What a commit stores is a step of the protocol.
LEMMA StoredIsProtocol ==
  ASSUME IInv, pc = "commit", disk' = Committed, ~ dangling, ~ dangling', dangling' \in BOOLEAN,
         dangling \in BOOLEAN
  PROVE  Protocol!Next
<1>1. /\ mem \in State /\ disk \in State /\ Good(disk.log) /\ Saving /\ cont \in Continuations
      /\ disk.log \in Seq(Entry)
  BY DEF IInv, TypeOK, State
<1>2. disk'.log = mem.log /\ disk'.wait = mem.wait /\ disk'.rev = disk.rev + 1
  BY <1>1, CommittedType DEF Saving
<1>3. Open(disk.log) = UnresolvedIds(disk.log) /\ OpenIds(disk.log) = UnresolvedIds(disk.log)
  BY <1>1, OpenIsUnresolved
<1>4. CASE cont = "report_wait"
  <2>1. /\ mem.log = disk.log /\ UnresolvedIds(disk.log) # {}
        /\ mem.wait = "unknown_tool_effect"
    BY <1>1, <1>4 DEF Saving, SavingInput
  <2>2. Protocol!Ask
    BY <1>2, <1>3, <2>1, SameOperators DEF Protocol!Ask
  <2>3. QED
    BY <2>2 DEF Protocol!Next, Protocol!Fact
<1>5. CASE cont = "turn_start"
  <2>1. /\ mem.wait = "none"
        /\ \/ /\ UnresolvedIds(disk.log) = {}
              /\ mem.log = Append(disk.log, Human)
           \/ /\ UnresolvedIds(disk.log) # {}
              /\ disk.wait = "unknown_tool_effect"
              /\ mem.log = disk.log \o <<Results(UnresolvedIds(disk.log)), Human>>
    BY <1>1, <1>5 DEF Saving, SavingInput
  <2>2. \/ /\ Protocol!Open(disk.log) = {}
           /\ disk'.log = Append(disk.log, Protocol!Human)
        \/ /\ Protocol!Open(disk.log) # {}
           /\ disk.wait = "unknown_tool_effect"
           /\ disk'.log = disk.log \o <<Protocol!Results(Protocol!OpenIds(disk.log)), Protocol!Human>>
    <3>1. /\ Protocol!Open(disk.log) = UnresolvedIds(disk.log)
          /\ Protocol!OpenIds(disk.log) = UnresolvedIds(disk.log)
          /\ Protocol!Human = Human
          /\ Protocol!Results(UnresolvedIds(disk.log)) = Results(UnresolvedIds(disk.log))
      BY <1>3, SameOperators
    <3>2. QED
      BY <1>2, <2>1, <3>1
  <2>3. Protocol!Prompt
    BY <1>2, <2>1, <2>2 DEF Protocol!Prompt
  <2>4. QED
    BY <2>3 DEF Protocol!Next, Protocol!Fact
<1>6. ASSUME NEW c \in Seq(Call), Settled(disk.log), disk.log # <<>>,
             mem.log = Append(disk.log, Assistant(c)), mem.wait = disk.wait
      PROVE  Protocol!Next
  <2>1. Assistant(c) \in Entry /\ Assistant(c).calls = c
    BY EntryConstructors
  <2>2. Len(mem.log) = Len(disk.log) + 1 /\ mem.log[Len(disk.log) + 1] = Assistant(c)
    BY <1>1, <1>6, <2>1, AppendEntry
  <2>3. Protocol!Open(disk.log) = {}
    BY <1>3, <1>6, SameOperators DEF Settled
  <2>4. disk'.log = Append(disk.log, Protocol!Assistant(disk'.log[Len(disk.log) + 1].calls))
    <3>1. disk'.log[Len(disk.log) + 1].calls = c
      BY <1>2, <2>1, <2>2
    <3>2. Protocol!Assistant(c) = Assistant(c)
      BY SameOperators
    <3>3. QED
      BY <1>2, <1>6, <3>1, <3>2
  <2>5. Protocol!Answer
    BY <1>2, <1>6, <2>2, <2>3, <2>4 DEF Protocol!Answer
  <2>6. QED
    BY <2>5 DEF Protocol!Next, Protocol!Fact
<1>7. CASE cont = "responded"
  <2>1. /\ Settled(disk.log) /\ disk.log # <<>>
        /\ disk.wait = "none" /\ mem.wait = "none" /\ at \in DOMAIN mem.log
        /\ mem.log = Append(disk.log, Assistant(Calls))
    BY <1>1, <1>7 DEF Saving, SavingAnswer
  <2>2. Calls \in Seq(Call)
    BY <1>1, <2>1, EntryType DEF Calls, State
  <2>3. QED
    BY <1>6, <2>1, <2>2
<1>8. <<>> \in Seq(Call)
  BY EntryConstructors
<1>9. CASE cont = "turn_check"
  BY <1>1, <1>6, <1>8, <1>9 DEF Saving, SavingAnswer
<1>10. ASSUME NEW n \in Nat, Pending(disk.log, at, n), n <= Len(disk.log[at].calls),
              mem.log = Append(disk.log, ResultOf(at, n)),
              mem.wait \in {"none", "external_input"}
       PROVE  Protocol!Next
  <2>1. /\ at \in DOMAIN disk.log /\ n \in 1 .. Len(disk.log[at].calls)
        /\ disk.log[at].calls \in Seq(Call)
        /\ UnresolvedIds(disk.log) = { <<at, k>> : k \in n .. Len(disk.log[at].calls) }
    BY <1>1, <1>10, EntryType DEF Pending
  <2>2. <<at, n>> \in Open(disk.log)
    BY <1>3, <2>1
  <2>3. disk.log[at].calls[n].id = <<at, n>>
    BY <1>1, <2>1 DEF Good
  <2> DEFINE o == <<at, n>>
  <2>4. o \in Protocol!Open(disk.log) /\ disk.log[o[1]].calls[o[2]].id = <<at, n>>
    BY <2>2, <2>3, SameOperators
  <2>5. Protocol!Results({<<at, n>>}) = ResultOf(at, n)
    BY SameOperators DEF ResultOf
  <2>6. disk'.log = Append(disk.log, Protocol!Results({disk.log[o[1]].calls[o[2]].id}))
    BY <1>2, <1>10, <2>4, <2>5
  <2>7. Protocol!Result
    BY <1>2, <1>10, <2>4, <2>6 DEF Protocol!Result
  <2>8. QED
    BY <2>7 DEF Protocol!Next, Protocol!Fact
<1>11. CASE cont \in {"tool_saved", "skip_saved"}
  <2>1. /\ Pending(disk.log, at, idx) /\ BatchDone(idx) /\ mem.wait = "none"
        /\ mem.log = Append(disk.log, ResultOf(at, idx))
    BY <1>1, <1>11, Zenon DEF Saving, SavingResult
  <2>2. idx \in Nat /\ idx <= Len(disk.log[at].calls)
    BY <2>1 DEF BatchDone
  <2>3. QED
    BY <1>10, <2>1, <2>2
<1>12. CASE cont = "pause"
  <2>1. /\ Pending(disk.log, at, 1) /\ Len(disk.log[at].calls) = 1
        /\ mem.wait = "external_input" /\ mem.log = Append(disk.log, ResultOf(at, 1))
    BY <1>1, <1>12, Zenon DEF Saving, SavingResult
  <2>2. 1 \in Nat /\ 1 <= Len(disk.log[at].calls)
    BY <2>1
  <2>3. QED
    BY <1>10, <2>1, <2>2
<1>13. ASSUME mem.log = disk.log, mem.wait = disk.wait PROVE Protocol!Next
  <2>1. Protocol!Status
    BY <1>2, <1>13 DEF Protocol!Status
  <2>2. QED
    BY <2>1 DEF Protocol!Next, Protocol!Fact
<1>14. CASE cont \in {"turn_saved", "end_cancelled"}
  BY <1>1, <1>13, <1>14 DEF Saving, SavingStatus
<1>15. CASE cont = "end_failed"
  BY <1>1, <1>6, <1>8, <1>13, <1>15 DEF Saving, SavingStatus
<1>16. QED
  BY <1>1, <1>4, <1>5, <1>7, <1>9, <1>11, <1>12, <1>14, <1>15 DEF Continuations

\* While a transaction is open the thread does nothing the protocol sees, until
\* it is undone or kept.
LEMMA ProtocolOpenStep ==
  ASSUME TypeOK, OpenInv, dangling, [Next]_vars
  PROVE  [Protocol!Next]_Protocol!vars
<1>1. mem \in State /\ conn \in State /\ disk \in State /\ dangling = TRUE
  BY DEF TypeOK
<1>2. CASE \/ UNCHANGED vars \/ Submit \/ Accept \/ SaveBreaks
  <2>1. UNCHANGED <<disk, dangling>>
    BY <1>1, <1>2 DEF vars, Submit, state, Accept, AcceptUnknown, AcceptPrompt, SaveBreaks
  <2>2. QED
    BY <2>1 DEF Protocol!vars
<1>3. ASSUME Good(disk'.log), disk'.wait \in Protocol!Reasons, disk'.rev > disk.rev,
             dangling' = FALSE
      PROVE  Protocol!Next
  <2>1. WellFormed(disk'.log)
    BY <1>3 DEF Good
  <2>2. Protocol!WellFormed(disk'.log)
    BY <2>1 DEF Protocol!WellFormed, WellFormed, Protocol!AnsweredBy, AnsweredBy
  <2>3. QED
    BY <1>1, <1>3, <2>2 DEF Protocol!Next, Protocol!Keep
<1>4. \A s \in State : s.wait \in Protocol!Reasons /\ s.rev \in Nat
  BY DEF State, Protocol!Reasons
<1>5. CASE CommitOk \/ CommitFails \/ CommitCancelled \/ Crash \/ OthersSave
  <2>1. \/ UNCHANGED store
        \/ RolledBack
        \/ pc = "commit" /\ Stored
        \/ disk' = conn /\ dangling' = FALSE
    BY <1>5 DEF CommitOk, CommitFails, CommitCancelled, Crash, OthersSave
  <2>2. CASE UNCHANGED store
    BY <2>2 DEF Protocol!vars
  <2>3. CASE RolledBack
    BY <2>3 DEF RolledBack, Protocol!Next, Protocol!Undo
  <2>4. CASE pc = "commit" /\ Stored
    <3>1. /\ disk' \in State /\ dangling' = FALSE /\ Good(disk'.log)
          /\ disk'.rev = mem.rev + 1
      BY <2>4, StoredOpen
    <3>2. mem.rev = conn.rev /\ conn.rev > disk.rev
      BY <2>4, OpenSaved
    <3>3. disk.rev \in Nat /\ conn.rev \in Nat /\ mem.rev \in Nat
      BY <1>1, <1>4
    <3>4. disk'.rev > disk.rev
      BY <3>1, <3>2, <3>3
    <3>5. QED
      BY <1>3, <1>4, <3>1, <3>4
  <2>5. CASE disk' = conn /\ dangling' = FALSE
    BY <1>1, <1>3, <1>4, <2>5 DEF OpenInv
  <2>6. QED
    BY <2>1, <2>2, <2>3, <2>4, <2>5
<1>6. QED
  BY <1>2, <1>5, OpenActions

\* A step of the thread is a step of the protocol, or none.
LEMMA ProtocolStep ==
  ASSUME LoopInv, [Next]_vars
  PROVE  [Protocol!Next]_Protocol!vars
<1>1. CASE dangling
  BY <1>1, ProtocolOpenStep DEF LoopInv
<1>2. CASE ~ dangling /\ [Quiet]_vars
  <2>1. Steady /\ IInv /\ dangling = FALSE
    BY <1>2 DEF LoopInv, Steady, TypeOK
  <2>2. dangling' = FALSE
    BY <1>2, <2>1, QuietDangling
  <2>3. CASE disk' = disk
    BY <2>1, <2>2, <2>3 DEF Protocol!vars
  <2>4. QED
    BY <1>2, <2>1, <2>2, <2>3, DiskSteps, StoredIsProtocol
<1>3. CASE SaveBreaks
  BY <1>3 DEF SaveBreaks, Protocol!Next, Protocol!Break
<1>4. QED
  BY <1>1, <1>2, <1>3 DEF Next, OthersSave

\* The checkpointer's content is a history of the thread protocol: one fact a
\* revision, answered before the conversation moves on, and a lost outcome
\* only written off after the user was asked; a save that breaks off may leave
\* another transcript, once, that is answered too.
THEOREM ImplementsProtocol == UniqueIds /\ Spec => ThreadProtocolSpec
<1>1. Init => Protocol!Init
  BY DEF Init, Protocol!Init, Fresh
<1>2. LoopInv /\ [Next]_vars => [Protocol!Next]_Protocol!vars
  BY ProtocolStep
<1>3. QED
  BY <1>1, <1>2, Inductive, PTL DEF Spec, ThreadProtocolSpec, Protocol!Spec
=============================================================================
