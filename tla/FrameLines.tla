----------------------------- MODULE FrameLines -----------------------------
(***************************************************************************)
(* What the transmit queues of a station promise: each queue is a line     *)
(* that frames join at its end and leave at its front, one after the       *)
(* other, whatever makes the line wait.  A frame that is sent and has to   *)
(* be sent again goes back into its line, before the frames that were      *)
(* never sent and behind those that came back before it.  A frame is in    *)
(* one place at a time, and is thrown away only with its line.             *)
(***************************************************************************)
EXTENDS Integers, Sequences

CONSTANTS
    Lines,      \* the queues
    Frames,     \* the frames there are
    LineOf,     \* LineOf[f]: the line of frame f
    Confirmed,  \* the frames whose transmission is confirmed
    None

VARIABLES
    line,   \* line[q]: the frames that wait in line q, in order
    again,  \* again[q]: how many of them, at its front, are to be sent again
    open,   \* the lines in use
    sent,   \* the frames that await a confirmation
    back    \* the frame on its way back into its line, or None

vars == <<line, again, open, sent, back>>

Members(s) == {s[i] : i \in DOMAIN s}
First(s, n) == SubSeq(s, 1, n)
Rest(s, n) == SubSeq(s, n + 1, Len(s))

Init ==
    /\ line = [q \in Lines |-> <<>>] /\ again = [q \in Lines |-> 0]
    /\ open = Lines /\ sent = {} /\ back = None

\* Frame f is at none of the places; the lines with f at the end of its own.
Outside(f) == f \notin sent \cup {back} /\ \A q \in Lines : f \notin Members(line[q])
With(f) == [line EXCEPT ![LineOf[f]] = Append(@, f)]

\* Of the lines l some frames go: they are sent, those of a closed line are
\* thrown away with it.
Gone(l, q) == Len(l[q]) - Len(line'[q])

Send(l) ==
    /\ back = None
    /\ \A q \in Lines : Gone(l, q) >= 0 /\ (q \in open \/ line'[q] \in {l[q], <<>>})
    /\ line' = [q \in Lines |-> Rest(l[q], Gone(l, q))]
    /\ again' = [q \in Lines |->
                   IF again[q] > Gone(l, q) THEN again[q] - Gone(l, q) ELSE 0]
    /\ sent' = sent \cup
         (Confirmed \cap UNION {Members(First(l[q], Gone(l, q))) : q \in open})
    /\ UNCHANGED <<open, back>>

Confirm(f) ==
    /\ f \in sent /\ sent' = sent \ {f}
    /\ UNCHANGED <<line, again, open, back>>

\* Frame f is not confirmed ...
Refuse(f) ==
    /\ f \in sent /\ LineOf[f] \in open /\ back = None
    /\ sent' = sent \ {f} /\ back' = f
    /\ UNCHANGED <<line, again, open>>

\* ... and takes its place behind those that came back before.
Return ==
    /\ back # None /\ back' = None
    /\ LET q == LineOf[back] IN
       /\ line' = [line EXCEPT ![q] = First(@, again[q]) \o <<back>> \o Rest(@, again[q])]
       /\ again' = [again EXCEPT ![q] = @ + 1]
    /\ UNCHANGED <<open, sent>>

Close(q) ==
    /\ q \in open /\ open' = open \ {q}
    /\ again' = [again EXCEPT ![q] = 0]
    /\ UNCHANGED <<line, sent, back>>

Clear(q) ==
    /\ q \notin open
    /\ line' = [line EXCEPT ![q] = <<>>]
    /\ UNCHANGED <<again, open, sent, back>>

\* All lines are used anew.
Reopen ==
    /\ open = {} /\ open' = Lines
    /\ line' = [q \in Lines |-> <<>>]
    /\ UNCHANGED <<again, sent, back>>

Next ==
    \/ Send(line)
    \/ \E f \in Frames : (Outside(f) /\ Send(With(f))) \/ Confirm(f) \/ Refuse(f)
    \/ Return
    \/ \E q \in Lines : Close(q) \/ Clear(q)
    \/ Reopen

Spec == Init /\ [][Next]_vars

=============================================================================
