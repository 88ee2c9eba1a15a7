------------------------------- MODULE LiveView -------------------------------
(***************************************************************************)
(* What the live feed promises, without its goroutines, locks and loops:   *)
(* the backend knows one whole lease list at a time, switches to the lists *)
(* it read from the file in the order it read them, and a browser is shown *)
(* whole lists that the backend knew when it composed the message.  The    *)
(* broadcaster and each connection's handler compose their messages on     *)
(* their own, so a message composed earlier can be delivered later.        *)
(***************************************************************************)
EXTENDS Sequences, Naturals

CONSTANTS Conns, Files, NoList

VARIABLES
  file,   \* the lease file
  pipe,   \* lists read from the file and not yet known, oldest first
  known,  \* the list the backend answers with
  draft,  \* the message composed by the broadcaster or a handler, not sent
  shown   \* what each browser shows

vars == <<file, pipe, known, draft, shown>>

Composers == Conns \cup {"bcast"}

\* At most a list in the channel and a list received from it.
PipeSize == 2

Init ==
  /\ file \in Files
  /\ pipe = <<>>
  /\ known = {}
  /\ draft = [g \in Composers |-> NoList]
  /\ shown = [c \in Conns |-> NoList]

Write ==
  /\ file' \in Files
  /\ UNCHANGED <<pipe, known, draft, shown>>

ReadFile ==
  /\ Len(pipe) < PipeSize
  /\ pipe' = Append(pipe, file)
  /\ UNCHANGED <<file, known, draft, shown>>

Baseline ==
  /\ pipe = <<>>
  /\ known' = file
  /\ UNCHANGED <<file, pipe, draft, shown>>

Switch ==
  /\ pipe # <<>>
  /\ known' = Head(pipe)
  /\ pipe' = Tail(pipe)
  /\ UNCHANGED <<file, draft, shown>>

Compose(g) ==
  /\ draft' = [draft EXCEPT ![g] = known]
  /\ UNCHANGED <<file, pipe, known, shown>>

Discard(g) ==
  /\ draft' = [draft EXCEPT ![g] = NoList]
  /\ UNCHANGED <<file, pipe, known, shown>>

\* A browser shows the broadcaster's message, or its handler's, which is
\* then used up.
Deliver(c) ==
  /\ \/ /\ draft["bcast"] # NoList
        /\ shown' = [shown EXCEPT ![c] = draft["bcast"]]
        /\ UNCHANGED draft
     \/ /\ draft[c] # NoList
        /\ shown' = [shown EXCEPT ![c] = draft[c]]
        /\ draft' = [draft EXCEPT ![c] = NoList]
  /\ UNCHANGED <<file, pipe, known>>

Leave(c) ==
  /\ shown' = [shown EXCEPT ![c] = NoList]
  /\ UNCHANGED <<file, pipe, known, draft>>

Next ==
  \/ Write
  \/ ReadFile
  \/ Baseline
  \/ Switch
  \/ \E g \in Composers : Compose(g) \/ Discard(g)
  \/ \E c \in Conns : Deliver(c) \/ Leave(c)

Spec == Init /\ [][Next]_vars

=============================================================================
