-------------------------------- MODULE Fifo --------------------------------
(***************************************************************************)
(* The integral over named pipes of cw6/zadanie2: sender.c makes two FIFOs *)
(* and sends the limits through one, integral.c sends the result back      *)
(* through the other.  An open of a FIFO waits for the other end.  No      *)
(* result of a call is looked at.                                          *)
(***************************************************************************)
EXTENDS Integers, Sequences

VARIABLES
    fifos,                  \* "in" and "out", once fifoInput, fifoOutput exist
    asker, integrator,      \* where sender.c and integral.c are
    reversed,               \* the upper limit is below the lower one
    limits,                 \* what is in fifoInput
    got,                    \* what integral.c has read
    answer                  \* the result sender.c prints, if any

vars == <<fifos, asker, integrator, reversed, limits, got, answer>>

\* FIFOs of an earlier run may still be there; integral.c may come first.
Init ==
    /\ fifos \in SUBSET {"in", "out"}
    /\ reversed \in BOOLEAN
    /\ asker = "mkfifo in" /\ integrator = "off"
    /\ limits = <<>> /\ got = <<>> /\ answer = <<>>

Asks(from, to) == asker = from /\ asker' = to
Integrates(from, to) == integrator = from /\ integrator' = to

MakeFifo ==
    /\ \/ Asks("mkfifo in", "mkfifo out") /\ fifos' = fifos \cup {"in"}
       \/ Asks("mkfifo out", "open in") /\ fifos' = fifos \cup {"out"}
    /\ UNCHANGED <<integrator, reversed, limits, got, answer>>

\* Mutant: fifoOutput is opened first.
StartAtOutput ==
    /\ Integrates("off", "open out")
    /\ UNCHANGED <<fifos, asker, reversed, limits, got, answer>>

Start ==
    /\ Integrates("off", "open in")
    /\ UNCHANGED <<fifos, asker, reversed, limits, got, answer>>

\* open of a name that is not there returns -1.  Without fifoInput nothing will
\* be read, and without fifoOutput nothing written.
OpenFails ==
    /\ \/ "in" \notin fifos /\ Integrates("open in", "open out, deaf")
       \/ "out" \notin fifos /\ Integrates("open out, deaf", "failed")
    /\ UNCHANGED <<fifos, asker, reversed, limits, got, answer>>

\* Both processes are in open: the two calls return together.
OpenInput ==
    /\ Asks("open in", "write")
    /\ Integrates("open in", "open out")
    /\ UNCHANGED <<fifos, reversed, limits, got, answer>>

\* Two writes, then the open that waits for integral.c.
WriteLimit ==
    /\ asker = "write"
    /\ limits' = Append(limits, Len(limits \o got) + 1)
    /\ asker' = IF limits \o got = <<>> THEN "write" ELSE "open out"
    /\ UNCHANGED <<fifos, integrator, reversed, got, answer>>

OpenOutput ==
    /\ Asks("open out", "read")
    /\ Integrates("open out", "read")
    /\ UNCHANGED <<fifos, reversed, limits, got, answer>>

\* A read waits for what is not there yet.
ReadLimit ==
    /\ integrator = "read" /\ limits # <<>>
    /\ got' = Append(got, Head(limits))
    /\ limits' = Tail(limits)
    /\ integrator' = IF got = <<>> THEN "read" ELSE "compute"
    /\ UNCHANGED <<fifos, asker, reversed, answer>>

\* A part of the integral ends when the next step would pass the part's end.
\* With reversed limits the steps go down: rounding may put the first one below
\* that end already, and the others go on from there without ever coming back.
Compute ==
    /\ \/ Integrates("compute", "write")
       \/ reversed /\ Integrates("compute", "lost")
    /\ UNCHANGED <<fifos, asker, reversed, limits, got, answer>>

\* The result goes through fifoOutput: sender.c is in read, or will be.
Result ==
    /\ Integrates("write", "done")
    /\ Asks("read", "done")
    /\ answer' = got
    /\ UNCHANGED <<fifos, reversed, limits, got>>

Asker == MakeFifo \/ WriteLimit
Integrator == OpenFails \/ ReadLimit \/ Compute
Both == OpenInput \/ OpenOutput \/ Result
Next == Asker \/ Integrator \/ Both \/ Start

\* Both programs run; that integral.c is started at all is not promised.
Spec == Init /\ [][Next]_vars /\ WF_vars(Asker) /\ WF_vars(Integrator) /\ WF_vars(Both)

-----------------------------------------------------------------------------
(* Properties *)

\* integral.c found a FIFO missing: it was started before sender.c made it.
TooEarly == integrator \in {"open out, deaf", "failed"}

\* The two programs never wait for each other for ever: once both are started
\* the sender gets the result for its two limits, unless the integrator looked
\* for the FIFOs before they were made, or the limits are reversed and the
\* integrator is lost in its loop.
Answered ==
    integrator # "off" ~>
        answer = <<1, 2>> \/ TooEarly \/ (reversed /\ integrator = "lost")
=============================================================================
