--------------------------- MODULE SetParameterLoop ---------------------------
(***************************************************************************)
(* What one setParameter command promises its client, with the settings   *)
(* left out.  The command is validated as a whole, and is either rejected  *)
(* before anything is set or accepted with the names it carries.  The     *)
(* accepted names are then set one at a time, least first in the order    *)
(* of the parameters' names.  The command ends with OK once the last one   *)
(* is set, or with an error at any point, keeping what it has set so far. *)
(* Commands of different clients interleave freely.  ServerParameters.tla *)
(* implements this specification (ServerParametersRefinement.tla).        *)
(***************************************************************************)
EXTENDS Naturals

CONSTANTS
    Clients,   \* the clients, one command each
    Names,     \* the field names a command may carry
    Params,    \* the names that can be set at runtime
    Order,     \* Order[p]: the position of parameter p in the name order
    Errors     \* the codes a failing set() may end a command with

VARIABLES
    phase,     \* phase[c]: "validate", "set" or "done"
    named,     \* named[c]: the names c's command carries (fixed)
    left,      \* left[c]: the accepted names not yet set
    done,      \* done[c]: the names set
    outcome    \* outcome[c]: "none" while running, then how it ended

vars == <<phase, named, left, done, outcome>>

Init ==
    /\ phase = [c \in Clients |-> "validate"]
    /\ named \in [Clients -> SUBSET Names]
    /\ left = [c \in Clients |-> {}]
    /\ done = [c \in Clients |-> {}]
    /\ outcome = [c \in Clients |-> "none"]

\* The command passes validation: every name it carries can be set.
Accept(c) ==
    /\ phase[c] = "validate"
    /\ named[c] # {} /\ named[c] \subseteq Params
    /\ phase' = [phase EXCEPT ![c] = "set"]
    /\ left' = [left EXCEPT ![c] = named[c]]
    /\ UNCHANGED <<named, done, outcome>>

\* The command is rejected before anything is set.
Reject(c) ==
    /\ phase[c] = "validate"
    /\ phase' = [phase EXCEPT ![c] = "done"]
    /\ outcome' = [outcome EXCEPT ![c] = "errmsg"]
    /\ UNCHANGED <<named, left, done>>

\* The least name left is set; the last one ends the command with OK.
Apply(c) ==
    /\ phase[c] = "set"
    /\ \E p \in left[c] :
          /\ \A q \in left[c] : Order[p] <= Order[q]
          /\ done' = [done EXCEPT ![c] = @ \cup {p}]
          /\ left' = [left EXCEPT ![c] = @ \ {p}]
          /\ IF left[c] = {p}
               THEN /\ phase' = [phase EXCEPT ![c] = "done"]
                    /\ outcome' = [outcome EXCEPT ![c] = "OK"]
               ELSE UNCHANGED <<phase, outcome>>
    /\ UNCHANGED named

\* A set() fails: the command ends with its error, the names set stay set.
Fail(c) ==
    /\ phase[c] = "set"
    /\ \E e \in Errors : outcome' = [outcome EXCEPT ![c] = e]
    /\ phase' = [phase EXCEPT ![c] = "done"]
    /\ UNCHANGED <<named, left, done>>

Next == \E c \in Clients : Accept(c) \/ Reject(c) \/ Apply(c) \/ Fail(c)

Spec == Init /\ [][Next]_vars

=============================================================================
