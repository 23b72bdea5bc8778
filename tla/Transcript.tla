----------------------------- MODULE Transcript -----------------------------
(***************************************************************************)
(* The message list of an AgentState (agent/messages.py, agent/state.py)   *)
(* and what NanoAgent reads from it.  A message's text is left out; what   *)
(* stays is its kind, the calls an assistant message requests and the ids  *)
(* of the calls a tool message answers.  The tool messages that            *)
(* _accept_input appends in one go for all unresolved calls are one entry. *)
(***************************************************************************)
EXTENDS Naturals, Sequences

CONSTANT Works        \* what a call asks for: a tool's name with its arguments

\* A call id is a pair: the provider's (or the fallback's) number, the index
\* of the call in its batch.
CallId == Nat \X Nat
Call   == [work : Works, id : CallId]

Entry == [kind : {"human", "ai", "tool"}, calls : Seq(Call), ids : SUBSET CallId]

Human        == [kind |-> "human", calls |-> <<>>, ids |-> {}]
Assistant(c) == [kind |-> "ai", calls |-> c, ids |-> {}]
Results(I)   == [kind |-> "tool", calls |-> <<>>, ids |-> I]

RequestedIds(log) ==
  UNION { { log[i].calls[k].id : k \in DOMAIN log[i].calls } : i \in DOMAIN log }

ResolvedIds(log) ==
  UNION { log[j].ids : j \in { m \in DOMAIN log : log[m].kind = "tool" } }

\* NanoAgent._unresolved_tool_calls: by id only, over the whole transcript.
UnresolvedIds(log) == RequestedIds(log) \ ResolvedIds(log)

-----------------------------------------------------------------------------
(***************************************************************************)
(* What a provider requires of a transcript, by position.                  *)
(***************************************************************************)

\* Call k of entry i is answered by one of the tool messages that follow
\* entry i directly, no later than entry n.
AnsweredBy(log, i, k, n) ==
  \E j \in i+1 .. n :
     /\ log[i].calls[k].id \in log[j].ids
     /\ \A m \in i+1 .. j : log[m].kind = "tool"

Answered(log, i, k) == AnsweredBy(log, i, k, Len(log))

\* Calls without an answer yet, as pairs (entry, index in the batch).
Occurrences(log) ==
  UNION { { <<i, k>> : k \in DOMAIN log[i].calls } : i \in DOMAIN log }

Open(log) == { o \in Occurrences(log) : ~ Answered(log, o[1], o[2]) }

OpenIds(log) == { log[o[1]].calls[o[2]].id : o \in Open(log) }

\* Every call is answered before the conversation moves on.
WellFormed(log) ==
  \A i, j \in DOMAIN log :
     (i < j /\ log[j].kind # "tool")
        => \A k \in DOMAIN log[i].calls : AnsweredBy(log, i, k, j - 1)

\* _tool_calls_signature: names and arguments, not ids.
Signature(calls) == [k \in DOMAIN calls |-> calls[k].work]

\* Entry i repeats the two batches before it in the same run: no other
\* batch and no human message lies between them.
NextBatch(log, h, i) ==
  /\ h < i
  /\ log[h].calls # <<>>
  /\ log[h].kind = "ai"
  /\ log[i].kind = "ai"
  /\ \A m \in h+1 .. i-1 : log[m].kind = "tool"

ThirdInARow(log, i) ==
  \E g, h \in DOMAIN log :
     /\ NextBatch(log, g, h)
     /\ NextBatch(log, h, i)
     /\ Signature(log[g].calls) = Signature(log[h].calls)
     /\ Signature(log[h].calls) = Signature(log[i].calls)
=============================================================================
