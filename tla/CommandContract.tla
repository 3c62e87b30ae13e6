-------------------------- MODULE CommandContract ---------------------------
(***************************************************************************)
(* What an admin may rely on when issuing a command, whatever the server,  *)
(* the network and the agent do in between: a command reaches the device   *)
(* only while it is queued, it is settled only with an outcome the device  *)
(* produced by running it, and it is never queued twice.                   *)
(*                                                                         *)
(* Strict tells whether a settled command is final.  The implementation    *)
(* promises that only while its requests do not overlap.                   *)
(***************************************************************************)
CONSTANTS Command, Strict

VARIABLES status,    \* of each command
          offered,   \* commands the device has been handed
          produced   \* outcomes the device has produced for each command

vars == <<status, offered, produced>>

Outcome == {"COMPLETED", "FAILED"}
Cancellable == IF Strict THEN {"QUEUED"} ELSE {"QUEUED", "CANCELLED"} \cup Outcome
Settleable == IF Strict THEN {"QUEUED", "CANCELLED"}
                        ELSE {"QUEUED", "CANCELLED"} \cup Outcome

Init == /\ status = [c \in Command |-> "ABSENT"]
        /\ offered = {}
        /\ produced = [c \in Command |-> {}]

\* Commands are issued together when a rollout reaches several devices.
Issue(S) ==
    /\ \A c \in S : status[c] = "ABSENT"
    /\ status' = [c \in Command |-> IF c \in S THEN "QUEUED" ELSE status[c]]
    /\ UNCHANGED <<offered, produced>>

Cancel(S) ==
    /\ \A c \in S : status[c] \in Cancellable
    /\ status' = [c \in Command |-> IF c \in S THEN "CANCELLED" ELSE status[c]]
    /\ UNCHANGED <<offered, produced>>

Offer(S) ==
    /\ \A c \in S : status[c] = "QUEUED"
    /\ offered' = offered \cup S
    /\ UNCHANGED <<status, produced>>

\* Delivery is at least once: an offered command may be run again.
Run(c, o) ==
    /\ c \in offered
    /\ produced' = [produced EXCEPT ![c] = @ \cup {o}]
    /\ UNCHANGED <<status, offered>>

Settle(c, o) ==
    /\ status[c] \in Settleable
    /\ o \in produced[c]
    /\ status' = [status EXCEPT ![c] = o]
    /\ UNCHANGED <<offered, produced>>

Next ==
    \/ \E S \in SUBSET Command : Issue(S) \/ Cancel(S) \/ Offer(S)
    \/ \E c \in Command, o \in Outcome : Run(c, o) \/ Settle(c, o)

Spec == Init /\ [][Next]_vars
=============================================================================
