-------------------------- MODULE TranscriptProof ---------------------------
(***************************************************************************)
(* Transcripts whose call ids are unique: what _unresolved_tool_calls      *)
(* finds by id is what a provider would miss by position.                  *)
(***************************************************************************)
EXTENDS Transcript, TLAPS

\* Every id names its call's entry and index, results follow their batch
\* directly, and the transcript is one a provider accepts.
Good(L) ==
  /\ L \in Seq(Entry)
  /\ \A i \in DOMAIN L : \A k \in DOMAIN L[i].calls : L[i].calls[k].id = <<i, k>>
  /\ \A j \in DOMAIN L : L[j].kind # "tool" => L[j].ids = {}
  /\ \A j \in DOMAIN L : \A id \in L[j].ids :
        \E i \in DOMAIN L : \E k \in DOMAIN L[i].calls :
           /\ id = <<i, k>> /\ i < j
           /\ \A m \in i+1 .. j : L[m].kind = "tool"
  /\ WellFormed(L)

ResultOf(a, n) == Results({<<a, n>>})

Settled(L) == Good(L) /\ UnresolvedIds(L) = {}

\* The calls from the n-th on of batch a are the unresolved ones.
Pending(L, a, n) ==
  /\ Good(L)
  /\ a \in DOMAIN L
  /\ n \in 1 .. Len(L[a].calls) + 1
  /\ UnresolvedIds(L) = { <<a, k>> : k \in n .. Len(L[a].calls) }

-----------------------------------------------------------------------------
LEMMA EntryType == ASSUME NEW e \in Entry
                   PROVE  /\ e.kind \in {"human", "ai", "tool"}
                          /\ e.calls \in Seq(Call)
                          /\ e.ids \in SUBSET CallId
BY DEF Entry

\* In a good transcript the occurrences of calls are their ids.
LEMMA OccurrencesAreIds ==
  ASSUME NEW L, Good(L)
  PROVE  /\ RequestedIds(L) = Occurrences(L)
         /\ Occurrences(L) \subseteq Nat \X Nat
         /\ \A i, k : <<i, k>> \in Occurrences(L)
                        <=> i \in DOMAIN L /\ k \in DOMAIN L[i].calls
<1>1. \A i \in DOMAIN L : /\ i \in Nat
                          /\ DOMAIN L[i].calls \subseteq Nat
                          /\ \A k \in DOMAIN L[i].calls : L[i].calls[k].id = <<i, k>>
  BY EntryType DEF Good
<1>2. \A i \in DOMAIN L :
        { L[i].calls[k].id : k \in DOMAIN L[i].calls }
          = { <<i, k>> : k \in DOMAIN L[i].calls }
  BY <1>1
<1>3. RequestedIds(L) = Occurrences(L)
  BY <1>2 DEF RequestedIds, Occurrences
<1>4. \A i, k : <<i, k>> \in Occurrences(L)
                  <=> i \in DOMAIN L /\ k \in DOMAIN L[i].calls
  BY DEF Occurrences
<1>5. Occurrences(L) \subseteq Nat \X Nat
  BY <1>1 DEF Occurrences
<1>6. QED
  BY <1>3, <1>4, <1>5

\* A call is answered in its place exactly if its id is resolved.
LEMMA AnsweredIsResolved ==
  ASSUME NEW L, Good(L), NEW i \in DOMAIN L, NEW k \in DOMAIN L[i].calls
  PROVE  Answered(L, i, k) <=> <<i, k>> \in ResolvedIds(L)
<1>1. L[i].calls[k].id = <<i, k>> /\ DOMAIN L = 1..Len(L) /\ Len(L) \in Nat
  BY DEF Good
<1>2. ASSUME Answered(L, i, k) PROVE <<i, k>> \in ResolvedIds(L)
  <2>1. PICK j \in i+1 .. Len(L) : /\ <<i, k>> \in L[j].ids
                                   /\ \A m \in i+1 .. j : L[m].kind = "tool"
    BY <1>1, <1>2 DEF Answered, AnsweredBy
  <2>2. j \in DOMAIN L /\ L[j].kind = "tool"
    BY <1>1, <2>1
  <2>3. QED
    BY <2>1, <2>2 DEF ResolvedIds
<1>3. ASSUME <<i, k>> \in ResolvedIds(L) PROVE Answered(L, i, k)
  <2>1. PICK j \in DOMAIN L : <<i, k>> \in L[j].ids
    BY <1>3 DEF ResolvedIds
  <2>2. i < j /\ \A m \in i+1 .. j : L[m].kind = "tool"
    BY <2>1 DEF Good
  <2>3. j \in i+1 .. Len(L)
    BY <1>1, <2>2
  <2>4. QED
    BY <1>1, <2>1, <2>2, <2>3 DEF Answered, AnsweredBy
<1>4. QED
  BY <1>2, <1>3

\* So the calls without an answer are the ones _unresolved_tool_calls returns.
LEMMA OpenIsUnresolved ==
  ASSUME NEW L, Good(L)
  PROVE  Open(L) = UnresolvedIds(L) /\ OpenIds(L) = UnresolvedIds(L)
<1>1. \A o \in Occurrences(L) : /\ o = <<o[1], o[2]>>
                                /\ o[1] \in DOMAIN L
                                /\ o[2] \in DOMAIN L[o[1]].calls
                                /\ L[o[1]].calls[o[2]].id = o
  <2>1. SUFFICES ASSUME NEW o \in Occurrences(L)
                 PROVE  /\ o = <<o[1], o[2]>>
                        /\ o[1] \in DOMAIN L
                        /\ o[2] \in DOMAIN L[o[1]].calls
                        /\ L[o[1]].calls[o[2]].id = o
    OBVIOUS
  <2>2. PICK i \in DOMAIN L : \E k \in DOMAIN L[i].calls : o = <<i, k>>
    BY DEF Occurrences
  <2>3. PICK k \in DOMAIN L[i].calls : o = <<i, k>>
    BY <2>2
  <2>4. L[i].calls[k].id = <<i, k>>
    BY DEF Good
  <2>5. QED
    BY <2>3, <2>4
<1>2. \A o \in Occurrences(L) : Answered(L, o[1], o[2]) <=> o \in ResolvedIds(L)
  BY <1>1, AnsweredIsResolved
<1>3. Open(L) = UnresolvedIds(L)
  BY <1>2, OccurrencesAreIds DEF Open, UnresolvedIds
<1>4. OpenIds(L) = Open(L)
  BY <1>1 DEF OpenIds, Open
<1>5. QED
  BY <1>3, <1>4

-----------------------------------------------------------------------------
(***************************************************************************)
(* Growth by one entry.                                                    *)
(***************************************************************************)

LEMMA AppendEntry ==
  ASSUME NEW L \in Seq(Entry), NEW e \in Entry
  PROVE  /\ Append(L, e) \in Seq(Entry)
         /\ Len(Append(L, e)) = Len(L) + 1
         /\ DOMAIN L = 1 .. Len(L)
         /\ DOMAIN Append(L, e) = 1 .. Len(L) + 1
         /\ Len(L) \in Nat
         /\ \A i \in 1 .. Len(L) : Append(L, e)[i] = L[i]
         /\ Append(L, e)[Len(L) + 1] = e
OBVIOUS

LEMMA AppendOccurrences ==
  ASSUME NEW L \in Seq(Entry), NEW e \in Entry
  PROVE  Occurrences(Append(L, e))
           = Occurrences(L) \cup { <<Len(L) + 1, k>> : k \in DOMAIN e.calls }
<1> DEFINE M == Append(L, e)
<1>1. /\ DOMAIN L = 1 .. Len(L) /\ DOMAIN M = DOMAIN L \cup {Len(L) + 1}
      /\ \A i \in DOMAIN L : M[i] = L[i]
      /\ M[Len(L) + 1] = e
  BY AppendEntry
<1> HIDE DEF M
<1>2. Occurrences(M) = Occurrences(L) \cup { <<Len(L) + 1, k>> : k \in DOMAIN e.calls }
  BY <1>1 DEF Occurrences
<1>3. QED
  BY <1>2 DEF M

LEMMA AppendResolved ==
  ASSUME NEW L \in Seq(Entry), NEW e \in Entry, e.kind # "tool" => e.ids = {}
  PROVE  ResolvedIds(Append(L, e)) = ResolvedIds(L) \cup e.ids
<1> DEFINE M == Append(L, e)
<1>1. /\ DOMAIN L = 1 .. Len(L) /\ DOMAIN M = DOMAIN L \cup {Len(L) + 1}
      /\ Len(L) + 1 \notin DOMAIN L
      /\ \A i \in DOMAIN L : M[i] = L[i]
      /\ M[Len(L) + 1] = e
  BY AppendEntry
<1> HIDE DEF M
<1>2. ASSUME NEW x \in ResolvedIds(M) PROVE x \in ResolvedIds(L) \cup e.ids
  <2>1. PICK j \in DOMAIN M : M[j].kind = "tool" /\ x \in M[j].ids
    BY DEF ResolvedIds
  <2>2. QED
    BY <1>1, <2>1 DEF ResolvedIds
<1>3. ASSUME NEW x \in ResolvedIds(L) PROVE x \in ResolvedIds(M)
  <2>1. PICK j \in DOMAIN L : L[j].kind = "tool" /\ x \in L[j].ids
    BY DEF ResolvedIds
  <2>2. QED
    BY <1>1, <2>1 DEF ResolvedIds
<1>4. ASSUME NEW x \in e.ids PROVE x \in ResolvedIds(M)
  <2>1. M[Len(L) + 1].kind = "tool" /\ x \in M[Len(L) + 1].ids
    BY <1>1
  <2>2. QED
    BY <1>1, <2>1 DEF ResolvedIds
<1>5. QED
  BY <1>2, <1>3, <1>4 DEF M

LEMMA AppendAnsweredBy ==
  ASSUME NEW L \in Seq(Entry), NEW e \in Entry,
         NEW i \in DOMAIN L, NEW k, NEW n \in Nat, n <= Len(L)
  PROVE  AnsweredBy(Append(L, e), i, k, n) <=> AnsweredBy(L, i, k, n)
<1> DEFINE M == Append(L, e)
<1>1. /\ DOMAIN L = 1 .. Len(L) /\ Len(L) \in Nat
      /\ \A m \in 1 .. Len(L) : M[m] = L[m]
  BY AppendEntry
<1> HIDE DEF M
<1>2. \A j \in i+1 .. n : /\ M[j] = L[j]
                          /\ \A m \in i+1 .. j : M[m] = L[m]
  BY <1>1
<1>3. M[i] = L[i]
  BY <1>1
<1>4. AnsweredBy(M, i, k, n) <=> AnsweredBy(L, i, k, n)
  BY <1>2, <1>3 DEF AnsweredBy
<1>5. QED
  BY <1>4 DEF M

\* A human message, or an assistant message whose calls have fresh ids, on a
\* transcript without unresolved calls.
LEMMA AppendToSettled ==
  ASSUME NEW L, Settled(L), NEW e \in Entry,
         e.kind # "tool", e.ids = {},
         \A k \in DOMAIN e.calls : e.calls[k].id = <<Len(L) + 1, k>>
  PROVE  /\ Good(Append(L, e))
         /\ UnresolvedIds(Append(L, e)) = { <<Len(L) + 1, k>> : k \in DOMAIN e.calls }
<1> DEFINE M == Append(L, e)
           N == Len(L) + 1
<1>1. L \in Seq(Entry) /\ Good(L)
  BY DEF Settled, Good
<1>2. /\ M \in Seq(Entry)
      /\ DOMAIN L = 1 .. Len(L) /\ DOMAIN M = DOMAIN L \cup {N} /\ Len(L) \in Nat
      /\ DOMAIN M = 1 .. N
      /\ \A i \in DOMAIN L : M[i] = L[i]
      /\ M[N] = e
  BY <1>1, AppendEntry
<1>3. \A i \in DOMAIN L : \A k, n :
        n \in Nat /\ n <= Len(L) => (AnsweredBy(M, i, k, n) <=> AnsweredBy(L, i, k, n))
  BY <1>1, AppendAnsweredBy
<1>4. Occurrences(M) = Occurrences(L) \cup { <<N, k>> : k \in DOMAIN e.calls }
  BY <1>1, AppendOccurrences
<1>5. ResolvedIds(M) = ResolvedIds(L)
  BY <1>1, AppendResolved
<1> HIDE DEF M
<1>6. \A i \in DOMAIN L : \A k \in DOMAIN L[i].calls : AnsweredBy(L, i, k, Len(L))
  <2>1. \A i \in DOMAIN L : \A k \in DOMAIN L[i].calls : <<i, k>> \in ResolvedIds(L)
    <3>1. /\ RequestedIds(L) = Occurrences(L)
          /\ \A i, k : <<i, k>> \in Occurrences(L)
                         <=> i \in DOMAIN L /\ k \in DOMAIN L[i].calls
      BY <1>1, OccurrencesAreIds
    <3>2. RequestedIds(L) \subseteq ResolvedIds(L)
      BY DEF Settled, UnresolvedIds
    <3>3. ASSUME NEW i \in DOMAIN L, NEW k \in DOMAIN L[i].calls
          PROVE  <<i, k>> \in ResolvedIds(L)
      <4>1. <<i, k>> \in Occurrences(L)
        BY <3>1
      <4>2. QED
        BY <3>1, <3>2, <4>1
    <3>4. QED
      BY <3>3
  <2>2. QED
    BY <1>1, <2>1, AnsweredIsResolved DEF Answered
<1>7. WellFormed(M)
  <2>1. SUFFICES ASSUME NEW i \in DOMAIN M, NEW j \in DOMAIN M, i < j,
                        M[j].kind # "tool", NEW k \in DOMAIN M[i].calls
                 PROVE  AnsweredBy(M, i, k, j - 1)
    BY DEF WellFormed
  <2>2. i \in DOMAIN L /\ j - 1 \in Nat /\ j - 1 <= Len(L) /\ M[i] = L[i]
    BY <1>2, <2>1
  <2>3. CASE j \in DOMAIN L
    <3>1. AnsweredBy(L, i, k, j - 1)
      BY <1>1, <1>2, <2>1, <2>2, <2>3 DEF Good, WellFormed
    <3>2. QED
      BY <1>3, <2>2, <3>1
  <2>4. CASE j = N
    <3>1. AnsweredBy(L, i, k, Len(L)) /\ j - 1 = Len(L)
      BY <1>2, <1>6, <2>2, <2>4
    <3>2. QED
      BY <1>3, <2>2, <3>1
  <2>5. QED
    BY <1>2, <2>3, <2>4
<1>8. \A i \in DOMAIN M : \A k \in DOMAIN M[i].calls : M[i].calls[k].id = <<i, k>>
  BY <1>1, <1>2 DEF Good
<1>9. \A j \in DOMAIN M : M[j].kind # "tool" => M[j].ids = {}
  BY <1>1, <1>2 DEF Good
<1>10. \A j \in DOMAIN M : \A id \in M[j].ids :
        \E i \in DOMAIN M : \E k \in DOMAIN M[i].calls :
           /\ id = <<i, k>> /\ i < j
           /\ \A m \in i+1 .. j : M[m].kind = "tool"
  <2>1. SUFFICES ASSUME NEW j \in DOMAIN L, NEW id \in L[j].ids
                 PROVE  \E i \in DOMAIN M : \E k \in DOMAIN M[i].calls :
                           /\ id = <<i, k>> /\ i < j
                           /\ \A m \in i+1 .. j : M[m].kind = "tool"
    BY <1>2
  <2>2. PICK i \in DOMAIN L : \E k \in DOMAIN L[i].calls :
           /\ id = <<i, k>> /\ i < j
           /\ \A m \in i+1 .. j : L[m].kind = "tool"
    BY <1>1 DEF Good
  <2>3. /\ \A m \in i+1 .. j : m \in DOMAIN L
        /\ i \in DOMAIN M /\ M[i] = L[i]
    BY <1>2
  <2>4. QED
    BY <1>2, <2>2, <2>3
<1>11. Good(M)
  BY <1>2, <1>7, <1>8, <1>9, <1>10 DEF Good
<1>12. \A k \in DOMAIN e.calls : <<N, k>> \notin ResolvedIds(L)
  <2>1. \A x \in ResolvedIds(L) : \E i \in DOMAIN L : \E k : x = <<i, k>>
    BY <1>1 DEF ResolvedIds, Good
  <2>2. N \notin DOMAIN L
    BY <1>2
  <2>3. QED
    BY <2>1, <2>2
<1>13. UnresolvedIds(M) = { <<N, k>> : k \in DOMAIN e.calls }
  <2>1. RequestedIds(M) = Occurrences(M) /\ RequestedIds(L) = Occurrences(L)
    BY <1>1, <1>11, OccurrencesAreIds
  <2>2. Occurrences(L) \subseteq ResolvedIds(L)
    BY <2>1 DEF Settled, UnresolvedIds
  <2>3. QED
    BY <1>4, <1>5, <1>12, <2>1, <2>2 DEF UnresolvedIds
<1>14. QED
  BY <1>11, <1>13 DEF M

\* Results for calls that are unresolved.
LEMMA AppendResults ==
  ASSUME NEW L, Good(L), NEW I \in SUBSET UnresolvedIds(L)
  PROVE  /\ Good(Append(L, Results(I)))
         /\ UnresolvedIds(Append(L, Results(I))) = UnresolvedIds(L) \ I
         /\ Occurrences(Append(L, Results(I))) = Occurrences(L)
<1> DEFINE e == Results(I)
           M == Append(L, e)
           N == Len(L) + 1
<1>0. L \in Seq(Entry)
  BY DEF Good
<1>1. e \in Entry /\ e.kind = "tool" /\ e.ids = I /\ e.calls = <<>>
  <2>1. UnresolvedIds(L) \subseteq CallId
    BY OccurrencesAreIds DEF UnresolvedIds, CallId
  <2>2. QED
    BY <2>1 DEF Results, Entry
<1> HIDE DEF e
<1>2. /\ M \in Seq(Entry)
      /\ DOMAIN L = 1 .. Len(L) /\ DOMAIN M = DOMAIN L \cup {N} /\ Len(L) \in Nat
      /\ DOMAIN M = 1 .. N
      /\ \A i \in DOMAIN L : M[i] = L[i]
      /\ M[N] = e
  BY <1>0, <1>1, AppendEntry
<1>3. \A i \in DOMAIN L : \A k, n :
        n \in Nat /\ n <= Len(L) => (AnsweredBy(M, i, k, n) <=> AnsweredBy(L, i, k, n))
  BY <1>0, <1>1, AppendAnsweredBy
<1>4. Occurrences(M) = Occurrences(L)
  <2>1. DOMAIN e.calls = {}
    BY <1>1
  <2>2. Occurrences(M) = Occurrences(L) \cup { <<Len(L) + 1, k>> : k \in DOMAIN e.calls }
    BY <1>0, <1>1, AppendOccurrences
  <2>3. QED
    BY <2>1, <2>2
<1>5. ResolvedIds(M) = ResolvedIds(L) \cup I
  BY <1>0, <1>1, AppendResolved
<1> HIDE DEF M
\* After an unresolved call only results follow: a later message would need it answered.
<1>6. \A i \in DOMAIN L : \A k \in DOMAIN L[i].calls :
        <<i, k>> \in I => \A m \in i+1 .. Len(L) : L[m].kind = "tool"
  <2>1. SUFFICES ASSUME NEW i \in DOMAIN L, NEW k \in DOMAIN L[i].calls, <<i, k>> \in I,
                        NEW m \in i+1 .. Len(L), L[m].kind # "tool"
                 PROVE  FALSE
    OBVIOUS
  <2>2. AnsweredBy(L, i, k, m - 1)
    BY <1>2, <2>1 DEF Good, WellFormed
  <2>3. Answered(L, i, k)
    BY <1>2, <2>2 DEF Answered, AnsweredBy
  <2>4. <<i, k>> \in ResolvedIds(L)
    BY <2>3, AnsweredIsResolved
  <2>5. QED
    BY <2>1, <2>4 DEF UnresolvedIds
<1>7. WellFormed(M)
  <2>1. SUFFICES ASSUME NEW i \in DOMAIN M, NEW j \in DOMAIN M, i < j,
                        M[j].kind # "tool", NEW k \in DOMAIN M[i].calls
                 PROVE  AnsweredBy(M, i, k, j - 1)
    BY DEF WellFormed
  <2>2. j \in DOMAIN L /\ i \in DOMAIN L /\ j - 1 \in Nat /\ j - 1 <= Len(L)
        /\ M[i] = L[i] /\ M[j] = L[j]
    BY <1>1, <1>2, <2>1
  <2>3. AnsweredBy(L, i, k, j - 1)
    BY <2>1, <2>2 DEF Good, WellFormed
  <2>4. QED
    BY <1>3, <2>2, <2>3
<1>8. \A i \in DOMAIN M : \A k \in DOMAIN M[i].calls : M[i].calls[k].id = <<i, k>>
  BY <1>1, <1>2 DEF Good
<1>9. \A j \in DOMAIN M : M[j].kind # "tool" => M[j].ids = {}
  BY <1>1, <1>2 DEF Good
<1>10. \A j \in DOMAIN M : \A id \in M[j].ids :
        \E i \in DOMAIN M : \E k \in DOMAIN M[i].calls :
           /\ id = <<i, k>> /\ i < j
           /\ \A m \in i+1 .. j : M[m].kind = "tool"
  <2>1. ASSUME NEW j \in DOMAIN L, NEW id \in L[j].ids
        PROVE  \E i \in DOMAIN M : \E k \in DOMAIN M[i].calls :
                  /\ id = <<i, k>> /\ i < j
                  /\ \A m \in i+1 .. j : M[m].kind = "tool"
    <3>1. PICK i \in DOMAIN L : \E k \in DOMAIN L[i].calls :
             /\ id = <<i, k>> /\ i < j
             /\ \A m \in i+1 .. j : L[m].kind = "tool"
      BY DEF Good
    <3>2. /\ \A m \in i+1 .. j : m \in DOMAIN L
          /\ i \in DOMAIN M /\ M[i] = L[i]
      BY <1>2
    <3>3. QED
      BY <1>2, <3>1, <3>2
  <2>2. ASSUME NEW id \in I
        PROVE  \E i \in DOMAIN M : \E k \in DOMAIN M[i].calls :
                  /\ id = <<i, k>> /\ i < N
                  /\ \A m \in i+1 .. N : M[m].kind = "tool"
    <3>1. PICK i \in DOMAIN L : \E k \in DOMAIN L[i].calls : id = <<i, k>>
      BY OccurrencesAreIds DEF UnresolvedIds, Occurrences
    <3>2. PICK k \in DOMAIN L[i].calls : id = <<i, k>>
      BY <3>1
    <3>3. \A m \in i+1 .. Len(L) : L[m].kind = "tool"
      BY <1>6, <3>2
    <3>4. \A m \in i+1 .. N : M[m].kind = "tool"
      BY <1>1, <1>2, <3>3
    <3>5. i \in DOMAIN M /\ M[i] = L[i] /\ i < N
      BY <1>2
    <3>6. QED
      BY <3>2, <3>4, <3>5
  <2>3. QED
    BY <1>1, <1>2, <2>1, <2>2
<1>11. Good(M)
  BY <1>2, <1>7, <1>8, <1>9, <1>10 DEF Good
<1>12. RequestedIds(M) = RequestedIds(L)
  BY <1>4, <1>11, OccurrencesAreIds
<1>13. UnresolvedIds(M) = UnresolvedIds(L) \ I
  BY <1>5, <1>12 DEF UnresolvedIds
<1>14. QED
  BY <1>4, <1>11, <1>13 DEF M, e

-----------------------------------------------------------------------------
(* The same, for the messages the agent appends. *)

LEMMA EntryConstructors ==
  /\ Human \in Entry /\ Human.kind = "human" /\ Human.ids = {}
  /\ Human.calls = <<>>
  /\ \A c \in Seq(Call) :
        /\ Assistant(c) \in Entry /\ Assistant(c).kind = "ai"
        /\ Assistant(c).ids = {} /\ Assistant(c).calls = c
  /\ <<>> \in Seq(Call)
BY DEF Human, Assistant, Entry

LEMMA AppendHuman ==
  ASSUME NEW L, Settled(L), NEW M, M = Append(L, Human)
  PROVE  /\ Settled(M) /\ M # <<>> /\ Len(L) <= Len(M)
         /\ Occurrences(L) \subseteq Occurrences(M)
<1>1. L \in Seq(Entry)
  BY DEF Settled, Good
<1>2. DOMAIN Human.calls = {}
  BY EntryConstructors
<1>3. /\ Good(M)
      /\ UnresolvedIds(M) = { <<Len(L) + 1, k>> : k \in DOMAIN Human.calls }
  BY <1>2, EntryConstructors, AppendToSettled
<1>4. Occurrences(L) \subseteq Occurrences(M)
  BY <1>1, EntryConstructors, AppendOccurrences
<1>5. M # <<>> /\ Len(L) <= Len(M)
  BY <1>1, EntryConstructors, AppendEntry
<1>6. QED
  BY <1>2, <1>3, <1>4, <1>5 DEF Settled

LEMMA AppendAssistant ==
  ASSUME NEW L, Settled(L), NEW c \in Seq(Call),
         \A k \in DOMAIN c : c[k].id = <<Len(L) + 1, k>>,
         NEW M, M = Append(L, Assistant(c))
  PROVE  /\ Pending(M, Len(L) + 1, 1) /\ M # <<>> /\ Len(L) <= Len(M)
         /\ Occurrences(L) \subseteq Occurrences(M)
         /\ Occurrences(L) \cap UnresolvedIds(M) = {}
<1> DEFINE e == Assistant(c)
<1>1. L \in Seq(Entry) /\ M = Append(L, e)
  BY DEF Settled, Good
<1>2. e \in Entry /\ e.kind = "ai" /\ e.ids = {} /\ e.calls = c
  BY EntryConstructors
<1> HIDE DEF e
<1>3. /\ Good(M)
      /\ UnresolvedIds(M) = { <<Len(L) + 1, k>> : k \in DOMAIN e.calls }
  BY <1>1, <1>2, AppendToSettled
<1>4. Occurrences(L) \subseteq Occurrences(M)
  BY <1>1, <1>2, AppendOccurrences
<1>5. /\ M # <<>> /\ Len(L) <= Len(M)
      /\ Len(L) + 1 \in DOMAIN M /\ M[Len(L) + 1] = e
  BY <1>1, <1>2, AppendEntry
<1>6. Pending(M, Len(L) + 1, 1)
  <2>1. DOMAIN c = 1 .. Len(c) /\ Len(c) \in Nat
    OBVIOUS
  <2>2. QED
    BY <1>2, <1>3, <1>5, <2>1 DEF Pending
<1>7. Occurrences(L) \cap UnresolvedIds(M) = {}
  <2>1. \A o \in Occurrences(L) : o[1] \in 1 .. Len(L)
    BY <1>1 DEF Occurrences
  <2>2. \A o \in UnresolvedIds(M) : o[1] = Len(L) + 1
    BY <1>3
  <2>3. Len(L) \in Nat
    BY <1>1
  <2>4. QED
    BY <2>1, <2>2, <2>3
<1>8. QED
  BY <1>4, <1>5, <1>6, <1>7

\* A pending batch without calls is no batch.
LEMMA PendingEmpty ==
  ASSUME NEW L, NEW a, NEW n \in Nat, Pending(L, a, n), n > Len(L[a].calls)
  PROVE  Settled(L)
<1>1. Len(L[a].calls) \in Nat /\ n \in Nat
  BY EntryType DEF Pending, Good
<1>2. n .. Len(L[a].calls) = {}
  BY <1>1
<1>3. QED
  BY <1>2 DEF Pending, Settled

\* The result of the n-th call leaves those from n + 1 on.
LEMMA AppendResult ==
  ASSUME NEW L, NEW a, NEW n \in Nat, Pending(L, a, n), n <= Len(L[a].calls),
         NEW M, M = Append(L, ResultOf(a, n))
  PROVE  /\ Pending(M, a, n + 1) /\ M # <<>> /\ Len(L) <= Len(M)
         /\ M[a] = L[a] /\ DOMAIN L \subseteq DOMAIN M
         /\ Occurrences(M) = Occurrences(L)
         /\ UnresolvedIds(M) = UnresolvedIds(L) \ {<<a, n>>}
<1> DEFINE e == ResultOf(a, n)
<1>1. /\ L \in Seq(Entry) /\ a \in DOMAIN L /\ n \in 1 .. Len(L[a].calls)
      /\ Len(L[a].calls) \in Nat
      /\ UnresolvedIds(L) = { <<a, k>> : k \in n .. Len(L[a].calls) }
  BY EntryType DEF Pending, Good
<1>2. {<<a, n>>} \in SUBSET UnresolvedIds(L)
  BY <1>1
<1>3. Good(L)
  BY DEF Pending
<1>4. /\ Good(M)
      /\ UnresolvedIds(M) = UnresolvedIds(L) \ {<<a, n>>}
      /\ Occurrences(M) = Occurrences(L)
  BY <1>2, <1>3, AppendResults DEF ResultOf
<1>5. e \in Entry
  <2>1. <<a, n>> \in CallId
    BY <1>1 DEF CallId
  <2>2. QED
    BY <2>1 DEF ResultOf, Results, Entry
<1>6. M[a] = L[a] /\ a \in DOMAIN M /\ M # <<>> /\ Len(L) <= Len(M)
      /\ DOMAIN L \subseteq DOMAIN M
  BY <1>1, <1>5, AppendEntry
<1>7. UnresolvedIds(M) = { <<a, k>> : k \in n + 1 .. Len(L[a].calls) }
  <2>1. { <<a, k>> : k \in n .. Len(L[a].calls) } \ {<<a, n>>}
          = { <<a, k>> : k \in n + 1 .. Len(L[a].calls) }
    BY <1>1
  <2>2. QED
    BY <1>1, <1>4, <2>1
<1>8. Pending(M, a, n + 1)
  <2>1. n + 1 \in 1 .. Len(M[a].calls) + 1
    BY <1>1, <1>6
  <2>2. UnresolvedIds(M) = { <<a, k>> : k \in n + 1 .. Len(M[a].calls) }
    BY <1>6, <1>7
  <2>3. QED
    BY <1>4, <1>6, <2>1, <2>2 DEF Pending
<1>9. QED
  BY <1>4, <1>6, <1>8

\* The prompt that confirms an unknown outcome.
LEMMA AppendConfirmed ==
  ASSUME NEW L, Good(L),
         NEW M, M = L \o <<Results(UnresolvedIds(L)), Human>>
  PROVE  /\ Settled(M) /\ M # <<>> /\ Len(L) <= Len(M)
         /\ Occurrences(L) \subseteq Occurrences(M)
<1> DEFINE e == Results(UnresolvedIds(L))
           R == Append(L, e)
<1>1. L \in Seq(Entry) /\ Len(L) \in Nat
  BY DEF Good
<1>2. e \in Entry
  <2>1. UnresolvedIds(L) \subseteq CallId
    BY OccurrencesAreIds DEF UnresolvedIds, CallId
  <2>2. QED
    BY <2>1 DEF Results, Entry
<1>3. /\ Good(R) /\ UnresolvedIds(R) = {}
      /\ Occurrences(R) = Occurrences(L)
  BY AppendResults
<1>4. Len(L) <= Len(R) /\ Len(R) \in Nat
  BY <1>1, <1>2, AppendEntry
<1>5. M = Append(R, Human)
  <2> HIDE DEF e
  <2>1. M = L \o <<e, Human>>
    BY DEF e
  <2>2. QED
    BY <1>1, <1>2, <2>1, EntryConstructors
<1>6. Settled(R)
  BY <1>3 DEF Settled
<1> HIDE DEF R, e
<1>7. /\ Settled(M) /\ M # <<>> /\ Len(R) <= Len(M)
      /\ Occurrences(R) \subseteq Occurrences(M)
  BY <1>5, <1>6, AppendHuman
<1>8. Len(M) \in Nat
  BY <1>7 DEF Settled, Good
<1>9. Len(L) <= Len(M)
  <2>1. \A x, y, z \in Nat : x <= y /\ y <= z => x <= z
    OBVIOUS
  <2>2. QED
    BY ONLY <1>1, <1>4, <1>7, <1>8, <2>1
<1>10. Occurrences(L) \subseteq Occurrences(M)
  BY ONLY <1>3, <1>7
<1>11. QED
  BY <1>7, <1>9, <1>10
=============================================================================
