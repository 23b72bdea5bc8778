--------------------------- MODULE ThreadProtocol ---------------------------
(***************************************************************************)
(* What a checkpointed thread promises: the durable transcript only grows, *)
(* by one fact a revision; every requested call is answered before the     *)
(* conversation moves on; and a call whose outcome was lost is answered    *)
(* "unknown" only after the user has been asked about it.  A save that     *)
(* breaks off midway suspends the promise once: it is undone, or leaves    *)
(* another transcript, which a provider would still accept.                *)
(***************************************************************************)
EXTENDS Transcript

VARIABLES log,   \* the durable transcript
          wait,  \* what the thread waits for
          rev,   \* the durable revision
          broken \* a save broke off, and what it wrote is neither kept nor undone

vars == <<log, wait, rev, broken>>

Reasons == {"none", "external_input", "unknown_tool_effect"}

Init == log = <<>> /\ wait = "none" /\ rev = 0 /\ broken = FALSE

\* A prompt starts a run.  The calls a lost run left open are answered first,
\* and only if the user has been asked about them.
Prompt ==
  /\ \/ /\ Open(log) = {}
        /\ log' = Append(log, Human)
     \/ /\ Open(log) # {}
        /\ wait = "unknown_tool_effect"
        /\ log' = log \o <<Results(OpenIds(log)), Human>>
  /\ wait' = "none"
  /\ rev' = rev + 1

\* The model answers, with or without calls.
Answer ==
  /\ log # <<>>
  /\ Open(log) = {}
  /\ Len(log') = Len(log) + 1
  /\ log' = Append(log, Assistant(log'[Len(log) + 1].calls))
  /\ wait' = wait
  /\ rev' = rev + 1

\* One open call gets its result; the wait tool's result pauses the thread.
Result ==
  /\ \E o \in Open(log) :
        log' = Append(log, Results({log[o[1]].calls[o[2]].id}))
  /\ wait' \in {"none", "external_input"}
  /\ rev' = rev + 1

\* The user is asked about calls whose outcome was lost.
Ask ==
  /\ Open(log) # {}
  /\ wait' = "unknown_tool_effect"
  /\ log' = log
  /\ rev' = rev + 1

\* Status only: end of turn, cancelled, failed.
Status ==
  /\ wait' = wait
  /\ log' = log
  /\ rev' = rev + 1

Fact == ~ broken /\ broken' = broken /\ (Prompt \/ Answer \/ Result \/ Ask \/ Status)

\* A save breaks off; what it wrote is undone, or kept with whatever is saved
\* next.
Break == broken' = TRUE /\ UNCHANGED <<log, wait, rev>>
Undo  == broken' = FALSE /\ UNCHANGED <<log, wait, rev>>
Keep ==
  /\ broken /\ broken' = FALSE
  /\ WellFormed(log') /\ wait' \in Reasons /\ rev' > rev

Next == Fact \/ Break \/ Undo \/ Keep

Spec == Init /\ [][Next]_vars
=============================================================================
