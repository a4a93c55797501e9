------------------------------ MODULE Injection ------------------------------
(***************************************************************************)
(* What the injection of container ids promises of each container: it is   *)
(* tried a bounded number of times and never while it is finished or has   *)
(* to wait; a success finishes it, and so does the failure of the last try *)
(* it has.  PodInjection implements it with the pod cache, the two maps of *)
(* its bookkeeping, and the goroutines that share them.                    *)
(*                                                                         *)
(* A try is one visit of the container and may take several commands: each *)
(* of them may fail, and one of them succeed, even after the container has *)
(* been given up.  What is remembered of a container may be forgotten, and *)
(* then its tries are counted anew.                                        *)
(***************************************************************************)
EXTENDS Integers

CONSTANTS Containers,
          MaxAttempts,   \* tries a container has
          MaxDelay       \* the longest wait between two of them

VARIABLES tries,      \* tries of a container that are remembered
          finished,   \* containers that have succeeded or are given up
          wait,       \* time until a container may be tried again
          trying      \* the container that is being tried, if there is one

vars == <<tries, finished, wait, trying>>

Init ==
    /\ tries = [c \in Containers |-> 0]
    /\ finished = {}
    /\ wait = [c \in Containers |-> 0]
    /\ trying = {}

\* A try begins.
Try(c) ==
    /\ trying = {}
    /\ c \notin finished /\ wait[c] = 0 /\ tries[c] < MaxAttempts
    /\ trying' = {c}
    /\ tries' = [tries EXCEPT ![c] = @ + 1]
    /\ UNCHANGED <<finished, wait>>

\* A command of the try succeeds: there is nothing left to do.
Succeed(c) ==
    /\ c \in trying
    /\ trying' = {}
    /\ finished' = finished \cup {c}
    /\ wait' = [wait EXCEPT ![c] = 0]
    /\ UNCHANGED tries

GiveUp(c) == finished' = finished \cup {c} /\ UNCHANGED wait

PutOff(c) ==
    /\ \E d \in 0..MaxDelay : wait' = [wait EXCEPT ![c] = d]
    /\ UNCHANGED finished

\* A command of the try fails.  The container is given up or put off, unless it waits
\* already, and is given up if this was its last try; it may be before, since a try with
\* long commands counts more than one failure.  The try may go on or end.
Fail(c) ==
    /\ c \in trying
    /\ IF wait[c] > 0 THEN UNCHANGED <<finished, wait>> ELSE GiveUp(c) \/ PutOff(c)
    /\ tries[c] >= MaxAttempts => c \in finished'
    /\ trying' \in {trying, {}}
    /\ UNCHANGED tries

\* The try ends with no command left: the failures of those it ran have been counted.
Leave(c) ==
    /\ c \in trying
    /\ tries[c] >= MaxAttempts => c \in finished
    /\ trying' = {}
    /\ UNCHANGED <<tries, finished, wait>>

\* A container whose finish or wait is forgotten is one that has not been tried.
Forget ==
    /\ tries' \in [Containers -> Nat] /\ wait' \in [Containers -> Nat]
    /\ finished' \subseteq finished
    /\ \A c \in Containers :
          \/ /\ tries'[c] = tries[c] /\ wait'[c] = wait[c]
             /\ c \in finished => c \in finished'
          \/ tries'[c] = 0 /\ wait'[c] \in {0, wait[c]}
    /\ UNCHANGED trying

\* Time passes.
Elapse ==
    /\ wait' = [c \in Containers |-> IF wait[c] > 0 THEN wait[c] - 1 ELSE 0]
    /\ UNCHANGED <<tries, finished, trying>>

Next ==
    \/ \E c \in Containers : Try(c) \/ Succeed(c) \/ Fail(c) \/ Leave(c)
    \/ Forget
    \/ Elapse

Spec == Init /\ [][Next]_vars
==============================================================================
