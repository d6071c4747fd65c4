-------------------------------- MODULE Line --------------------------------
(***************************************************************************)
(* What the serial driver promises those who print through it: what they   *)
(* mean, line by line and number by number, arrives on the line and on the *)
(* screen byte by byte in that order.  Only a new set-up of the port may   *)
(* lose what had not left it yet, and only a processor exception may cut   *)
(* a message short; nothing but exceptions' own reports comes after it.    *)
(***************************************************************************)
EXTENDS Integers, Sequences

CONSTANTS Beginnings,   \* what may be to say, and may be in the port, at first
          Reports,      \* what an exception has to say
          Garbled       \* a byte whose bits changed speed on the way

VARIABLES todo,         \* what is left to say: items [to, what]
          pending,      \* bytes said that have not arrived
          line,         \* bytes that arrived
          screen,       \* messages shown on the screen as well
          stopped       \* an exception has been taken

vars == <<todo, pending, line, screen, stopped>>

Init == /\ \E b \in Beginnings : todo = b.todo /\ pending = b.pending
        /\ line = <<>> /\ screen = <<>> /\ stopped = FALSE

Due(to) == todo # <<>> /\ Head(todo).to = to

Say == /\ Due("line")
       /\ pending' = pending \o Head(todo).what
       /\ todo' = Tail(todo)
       /\ UNCHANGED <<line, screen, stopped>>

Show == /\ Due("screen")
        /\ screen' = Append(screen, Head(todo).what)
        /\ todo' = Tail(todo)
        /\ UNCHANGED <<pending, line, stopped>>

\* The port is set up anew: its speed may change, then its buffer is emptied.
Disturb == /\ Due("port")
           /\ pending # <<>>
           /\ pending' = [pending EXCEPT ![1] = Garbled]
           /\ UNCHANGED <<todo, line, screen, stopped>>

Reset == /\ Due("port")
         /\ pending' = <<>> \/ (pending # <<>> /\ pending' = <<Head(pending)>>)
         /\ todo' = Tail(todo)
         /\ UNCHANGED <<line, screen, stopped>>

Arrive == /\ pending # <<>>
          /\ line' = Append(line, Head(pending))
          /\ pending' = Tail(pending)
          /\ UNCHANGED <<todo, screen, stopped>>

Stop == /\ stopped' = TRUE
        /\ todo' \in Reports
        /\ UNCHANGED <<pending, line, screen>>

Next == Say \/ Show \/ Disturb \/ Reset \/ Arrive \/ Stop

Spec == Init /\ [][Next]_vars
=============================================================================
