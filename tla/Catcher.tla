------------------------------ MODULE Catcher ------------------------------
(***************************************************************************)
(* The request catcher of cw5/zadanie2 (catcher.c, sender.c).  A sender    *)
(* puts its request into a SIGUSR1 and waits to be killed by the answer;   *)
(* the handler of the catcher notes the request in workType and answers,   *)
(* and the main loop does the work between two calls of pause().  SIGUSR1  *)
(* is no real-time signal: one at most is pending.                         *)
(***************************************************************************)
EXTENDS Integers, FiniteSets

CONSTANT Senders

VARIABLES
    catcher,                \* where main of catcher.c is
    workType, requestsNumber,
    pending,                \* the sender whose SIGUSR1 is pending, if any
    sender, request,        \* each sender: where, and its argv[2]
    served,                 \* history: how often work was begun
    dropped,                \* history: senders whose signal met a pending one
    rushed                  \* history: a request came while the catcher was busy

ours == <<catcher, workType, requestsNumber, served, rushed>>
theirs == <<pending, sender, request, dropped>>
vars == <<ours, theirs>>

Work == {1, 2, 3}           \* print numbers, print the count, end
Nothing == 4
Down == catcher \in {"killed", "exited"}

Init ==
    /\ catcher = "start" /\ workType = Nothing /\ requestsNumber = 0
    /\ served = 0 /\ rushed = FALSE
    /\ pending = {} /\ dropped = {}
    /\ sender = [s \in Senders |-> "off"]
    /\ request \in [Senders -> Work \cup {Nothing}]

Goes(from, to) == catcher = from /\ catcher' = to

\* The PID that senders need is printed before the handler is installed.
Install ==
    /\ Goes("start", "switch")
    /\ UNCHANGED <<workType, requestsNumber, served, rushed, theirs>>

\* Mutant: the request for the count has no case of its own.
SwitchWithoutCount ==
    /\ \/ workType \in {1, 3} /\ served' = served + 1
          /\ Goes("switch", IF workType = 3 THEN "ending" ELSE "work")
       \/ workType \notin {1, 3} /\ Goes("switch", "to_pause") /\ UNCHANGED served
    /\ UNCHANGED <<workType, requestsNumber, rushed, theirs>>

\* The handler can still interrupt the work, and endProgram before its exit.
Switch ==
    /\ \/ workType \in Work /\ served' = served + 1
          /\ Goes("switch", IF workType = 3 THEN "ending" ELSE "work")
       \/ workType \notin Work /\ Goes("switch", "to_pause") /\ UNCHANGED served
    /\ UNCHANGED <<workType, requestsNumber, rushed, theirs>>

EndProgram ==
    /\ Goes("ending", "exited")
    /\ UNCHANGED <<workType, requestsNumber, served, rushed, theirs>>

\* Mutant: workType is not reset.
WorkAgain ==
    /\ Goes("work", "switch")
    /\ UNCHANGED <<workType, requestsNumber, served, rushed, theirs>>

\* workType = 4, whatever the handler has put there meanwhile.
WorkDone ==
    /\ Goes("work", "switch")
    /\ workType' = Nothing
    /\ UNCHANGED <<requestsNumber, served, rushed, theirs>>

Pause ==
    /\ Goes("to_pause", "asleep")
    /\ UNCHANGED <<workType, requestsNumber, served, rushed, theirs>>

\* What the handler does with the request of s, answered or not.
Note(s) ==
    /\ s \in pending /\ catcher # "start" /\ ~Down
    /\ requestsNumber' = requestsNumber + 1
    /\ workType' = request[s]
    /\ catcher' = IF catcher = "asleep" THEN "switch" ELSE catcher
    /\ rushed' = (rushed \/ catcher # "asleep")
    /\ pending' = {}
    /\ UNCHANGED <<served, request, dropped>>

\* Mutant: no answer.
HandleSilently(s) == Note(s) /\ UNCHANGED sender

\* actionFunction interrupts main anywhere; its kill ends the sender.
Handle(s) == Note(s) /\ sender' = [sender EXCEPT ![s] = "ended"]

\* Before the handler is installed SIGUSR1 ends the process.
DefaultAction ==
    /\ pending # {} /\ Goes("start", "killed")
    /\ pending' = {}
    /\ UNCHANGED <<workType, requestsNumber, served, rushed, sender, request, dropped>>

\* sigqueue, then sigsuspend: a signal that meets a pending one is dropped, and
\* one for a process that is gone fails; the sender looks at neither.
Send(s) ==
    /\ sender[s] = "off"
    /\ sender' = [sender EXCEPT ![s] = "suspended"]
    /\ \/ ~Down /\ pending = {} /\ pending' = {s} /\ UNCHANGED dropped
       \/ ~Down /\ pending # {} /\ dropped' = dropped \cup {s} /\ UNCHANGED pending
       \/ Down /\ UNCHANGED <<pending, dropped>>
    /\ UNCHANGED <<ours, request>>

Main == Install \/ Switch \/ WorkDone \/ EndProgram \/ Pause
Deliver == DefaultAction \/ \E s \in Senders : Handle(s)
Next == Main \/ Deliver \/ \E s \in Senders : Send(s)

\* The catcher runs, and the kernel delivers what is pending.
Spec == Init /\ [][Next]_vars /\ WF_vars(Main) /\ WF_vars(Deliver)

-----------------------------------------------------------------------------
(* Properties *)

\* A request is noted in workType and not begun.
Due == workType \in Work /\ catcher \notin {"work", "ending", "exited"}
Wanted == IF Due THEN 1 ELSE 0

Empty == Cardinality({s \in Senders : sender[s] = "ended" /\ request[s] = Nothing})

\* No request is served twice, wherever the handler interrupts main; and as long
\* as every request has found the catcher asleep, none has been lost.
ServedOnce ==
    /\ served + Wanted <= requestsNumber
    /\ ~rushed => served + Wanted + Empty = requestsNumber

\* A request that found the catcher asleep is begun, unless another rushes it.
SleeperServes == Due /\ ~rushed ~> ~Due \/ rushed

\* A sender is answered, unless its signal was dropped or the catcher is gone.
SendersAreAnswered ==
    \A s \in Senders :
        sender[s] = "suspended" ~> sender[s] = "ended" \/ s \in dropped \/ Down
=============================================================================
