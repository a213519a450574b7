--------------------------- MODULE FailoverPromise ---------------------------
(***************************************************************************)
(* What Router.route promises the caller of one LLM completion, without    *)
(* saying how often each provider is asked: providers are given up one by  *)
(* one in the order of the list, only the first one not given up may       *)
(* answer or abort the call, and the call is unavailable exactly when      *)
(* none is left.                                                           *)
(***************************************************************************)
EXTENDS Integers

CONSTANTS Call, NumAdapters

VARIABLES outcome,  \* outcome[c]: how call c has ended, or "new", or "pending"
          givenUp   \* givenUp[c]: how many providers call c has given up

vars == <<outcome, givenUp>>

Init == /\ outcome = [c \in Call |-> "new"]
        /\ givenUp = [c \in Call |-> 0]

\* Somebody asks.
Ask(c) ==
    /\ outcome[c] = "new"
    /\ outcome' = [outcome EXCEPT ![c] = "pending"]
    /\ UNCHANGED givenUp

\* The provider in turn answers the call, or fails it for good.
Settle(c) ==
    /\ outcome[c] = "pending"
    /\ \E how \in {"answered", "raised"} :
          outcome' = [outcome EXCEPT ![c] = how]
    /\ UNCHANGED givenUp

\* The provider in turn is given up; the last one takes the call with it.
GiveUp(c) ==
    /\ outcome[c] = "pending"
    /\ givenUp' = [givenUp EXCEPT ![c] = @ + 1]
    /\ outcome' = [outcome EXCEPT ![c] =
                      IF givenUp[c] + 1 = NumAdapters THEN "unavailable" ELSE @]

Next == \E c \in Call : Ask(c) \/ Settle(c) \/ GiveUp(c)

Spec == Init /\ [][Next]_vars

\* A call that was asked ends.
FairSpec == Spec /\ \A c \in Call : WF_vars(Settle(c) \/ GiveUp(c))
=============================================================================
