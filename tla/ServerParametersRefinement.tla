--------------------- MODULE ServerParametersRefinement ---------------------
(***************************************************************************)
(* Proof that the setParameter model implements SetParameterLoop under the *)
(* mapping of ServerParameters' Loop, for every value of the constants.    *)
(*                                                                         *)
(* The argument, step by step.  Validation is Accept when the command      *)
(* passes (the map it builds has exactly the names the command carries)    *)
(* and Reject when it does not.  A set() that returns an error is Fail.    *)
(* A set() that returns OK is Apply of parametersToSet.begin(), which is   *)
(* the least name left (ParamMin, through IInv).  The first step of a      *)
(* connection-limit set() is a stutter, because the mapping counts the     *)
(* client as still setting.                                                *)
(***************************************************************************)
EXTENDS ServerParametersProofs

\* The codes a failing set() ends a command with.
SetErrors == {"BadValue", "TypeMismatch", "FailedToParse", "Overflow", "EntryPointRefused"}

\* The three ways a set() handler step can go.
FailShape(c) == cpc[c] = "set" /\ cmd' = cmd /\ \E code \in SetErrors : SetFailed(c, code)
DoneShape(c) == Busy(c) /\ cmd' = cmd /\ SetDone(c)
PublishShape(c) ==
    /\ cpc[c] = "set" /\ cpc' = [cpc EXCEPT ![c] = "publish"]
    /\ UNCHANGED <<cmd, todo, status, applied>>

\* Every handler step has one of the three shapes.
LEMMA HandlerShapes ==
    ASSUME NEW c \in Clients,
           \/ SetLogLevel(c) \/ SetLogComponentVerbosity(c) \/ SetReadOnly(c)
           \/ SetIsImplicitCreateCol(c) \/ SetAutomationServiceDescriptor(c)
           \/ SetAllowCommands(c) \/ SetMaxNumConnections(c) \/ PublishMaxConns(c)
    PROVE  FailShape(c) \/ DoneShape(c) \/ PublishShape(c)
  BY DEF SetLogLevel, SetLogComponentVerbosity, SetReadOnly, SetIsImplicitCreateCol,
     SetAutomationServiceDescriptor, SetAllowCommands, SetMaxNumConnections,
     PublishMaxConns, FailShape, DoneShape, PublishShape, SetErrors, Busy

-----------------------------------------------------------------------------
(* Each step maps to a step of SetParameterLoop or to a stutter.           *)

\* A set() that returned an error is Fail.
LEMMA FailRefines ==
    ASSUME TypeOK, NEW c \in Clients, FailShape(c)
    PROVE  Loop!Fail(c)
  <1>1. PICK code \in SetErrors : SetFailed(c, code)
    BY DEF FailShape
  <1>2. cpc' = [cpc EXCEPT ![c] = "done"] /\ status' = [status EXCEPT ![c] = code]
        /\ UNCHANGED <<cmd, todo, applied>>
    BY <1>1 DEF SetFailed, FailShape
  <1>3. [d \in Clients |-> IF cpc'[d] = "publish" THEN "set" ELSE cpc'[d]] =
        [[d \in Clients |-> IF cpc[d] = "publish" THEN "set" ELSE cpc[d]] EXCEPT ![c] = "done"]
    BY <1>2 DEF TypeOK
  <1>4. [d \in Clients |-> Named(d)'] = [d \in Clients |-> Named(d)]
    BY <1>2 DEF Named, Fields
  <1>5. [d \in Clients |-> TodoNames(d)'] = [d \in Clients |-> TodoNames(d)]
    BY <1>2 DEF TodoNames
  <1>6. QED
    BY <1>1, <1>2, <1>3, <1>4, <1>5 DEF Loop!Fail, FailShape, SetErrors

\* A set() that returned OK is Apply of the least name left.
LEMMA DoneRefines ==
    ASSUME IInv, NEW c \in Clients, DoneShape(c)
    PROVE  Loop!Apply(c)
  <1> DEFINE p == Param(c)
  <1>1. p \in TodoNames(c) /\ p \in RuntimeParams /\ status[c] = "none"
        /\ \A q \in TodoNames(c) : Rank(p) <= Rank(q)
    BY BusyEntry DEF DoneShape
  <1>2. TodoNames(c) \subseteq RuntimeParams
    BY DEF IInv, TypeOK
  <1>3. /\ applied' = [applied EXCEPT ![c] = @ \cup {p}]
        /\ DOMAIN todo' = Clients
        /\ TodoNames(c)' = TodoNames(c) \ {p}
        /\ \A d \in Clients \ {c} : todo'[d] = todo[d]
    BY DEF DoneShape, SetDone, Rest, TodoNames, IInv, TypeOK
  <1>4. [d \in Clients |-> TodoNames(d)'] = [[d \in Clients |-> TodoNames(d)] EXCEPT ![c] = @ \ {p}]
    BY <1>3 DEF TodoNames
  <1>5. [d \in Clients |-> Named(d)'] = [d \in Clients |-> Named(d)]
    BY DEF DoneShape, Named, Fields
  <1>6. \A q \in TodoNames(c) : [r \in RuntimeParams |-> Rank(r)][p] <= [r \in RuntimeParams |-> Rank(r)][q]
    BY <1>1, <1>2
  <1>7. CASE TodoNames(c) = {p}
    <2>1. Rest(c) = {}
      BY <1>7 DEF Rest
    <2>2. cpc' = [cpc EXCEPT ![c] = "done"] /\ status' = [status EXCEPT ![c] = "OK"]
      BY <2>1 DEF DoneShape, SetDone
    <2>3. [d \in Clients |-> IF cpc'[d] = "publish" THEN "set" ELSE cpc'[d]] =
          [[d \in Clients |-> IF cpc[d] = "publish" THEN "set" ELSE cpc[d]] EXCEPT ![c] = "done"]
      BY <2>2 DEF IInv, TypeOK
    <2>4. QED
      BY <1>1, <1>3, <1>4, <1>5, <1>6, <1>7, <2>2, <2>3 DEF Loop!Apply, DoneShape, Busy
  <1>8. CASE TodoNames(c) # {p}
    <2>1. Rest(c) # {}
      BY <1>1, <1>8 DEF Rest
    <2>2. cpc' = [cpc EXCEPT ![c] = "set"] /\ status' = status
      BY <2>1, <1>1 DEF DoneShape, SetDone, IInv, TypeOK
    <2>3. [d \in Clients |-> IF cpc'[d] = "publish" THEN "set" ELSE cpc'[d]] =
          [d \in Clients |-> IF cpc[d] = "publish" THEN "set" ELSE cpc[d]]
      BY <2>2 DEF DoneShape, Busy, IInv, TypeOK
    <2>4. QED
      BY <1>1, <1>3, <1>4, <1>5, <1>6, <1>8, <2>2, <2>3 DEF Loop!Apply, DoneShape, Busy
  <1>9. QED
    BY <1>7, <1>8

\* The first step of a connection-limit set() changes nothing the loop sees.
LEMMA PublishRefines ==
    ASSUME TypeOK, NEW c \in Clients, PublishShape(c)
    PROVE  UNCHANGED Loop!vars
  <1>1. [d \in Clients |-> IF cpc'[d] = "publish" THEN "set" ELSE cpc'[d]] =
        [d \in Clients |-> IF cpc[d] = "publish" THEN "set" ELSE cpc[d]]
    BY DEF PublishShape, TypeOK
  <1>2. QED
    BY <1>1 DEF PublishShape, Loop!vars, Named, Fields, TodoNames

\* Validation is Accept when the command passes and Reject when it fails.
LEMMA ValidateRefines ==
    ASSUME TypeOK, NEW c \in Clients, Validate(c)
    PROVE  Loop!Accept(c) \/ Loop!Reject(c)
  <1>1. cpc[c] = "validate" /\ UNCHANGED <<cmd, applied>>
    BY DEF Validate, settings
  <1>2. [d \in Clients |-> Named(d)'] = [d \in Clients |-> Named(d)]
    BY <1>1 DEF Named, Fields
  <1>3. CASE ValidCommand(c) /\ Named(c) # {}
    <2>1. cpc' = [cpc EXCEPT ![c] = "set"] /\ UNCHANGED status
          /\ todo' = [todo EXCEPT ![c] = ParametersToSet(c)]
      BY <1>3 DEF Validate
    <2>2. [d \in Clients |-> TodoNames(d)'] = [[d \in Clients |-> TodoNames(d)] EXCEPT ![c] = Named(c)]
      BY <2>1 DEF TodoNames, ParametersToSet, TypeOK
    <2>3. [d \in Clients |-> IF cpc'[d] = "publish" THEN "set" ELSE cpc'[d]] =
          [[d \in Clients |-> IF cpc[d] = "publish" THEN "set" ELSE cpc[d]] EXCEPT ![c] = "set"]
      BY <2>1 DEF TypeOK
    <2>4. Named(c) \subseteq RuntimeParams
      BY <1>3 DEF ValidCommand
    <2>5. Loop!Accept(c)
      BY <1>1, <1>2, <1>3, <2>1, <2>2, <2>3, <2>4 DEF Loop!Accept
    <2>6. QED
      BY <2>5
  <1>4. CASE ~(ValidCommand(c) /\ Named(c) # {})
    <2>1. cpc' = [cpc EXCEPT ![c] = "done"] /\ status' = [status EXCEPT ![c] = "errmsg"]
          /\ UNCHANGED todo
      BY <1>4 DEF Validate
    <2>2. [d \in Clients |-> TodoNames(d)'] = [d \in Clients |-> TodoNames(d)]
      BY <2>1 DEF TodoNames
    <2>3. [d \in Clients |-> IF cpc'[d] = "publish" THEN "set" ELSE cpc'[d]] =
          [[d \in Clients |-> IF cpc[d] = "publish" THEN "set" ELSE cpc[d]] EXCEPT ![c] = "done"]
      BY <2>1 DEF TypeOK
    <2>4. Loop!Reject(c)
      BY <1>1, <1>2, <2>1, <2>2, <2>3 DEF Loop!Reject
    <2>5. QED
      BY <2>4
  <1>5. QED
    BY <1>3, <1>4

-----------------------------------------------------------------------------
(* The refinement.                                                         *)

\* The initial state is one of SetParameterLoop: the names a command
\* carries are strings.
LEMMA InitRefines == Init => Loop!Init
  <1> SUFFICES ASSUME Init PROVE Loop!Init
    OBVIOUS
  <1>1. \A c \in Clients : Named(c) \subseteq STRING
    <2> SUFFICES ASSUME NEW c \in Clients, NEW i \in DOMAIN cmd[c] PROVE cmd[c][i][1] \in STRING
      BY DEF Named, Fields
    <2>1. cmd[c] \in Seq(STRING \X Element)
      BY ConstantsAssumption DEF Init
    <2>2. QED
      BY <2>1
  <1>2. [c \in Clients |-> IF cpc[c] = "publish" THEN "set" ELSE cpc[c]] = [c \in Clients |-> "validate"]
    BY DEF Init
  <1>3. [c \in Clients |-> TodoNames(c)] = [c \in Clients |-> {}]
    BY DEF Init, TodoNames
  <1>4. QED
    BY <1>1, <1>2, <1>3 DEF Init, Loop!Init

\* Every step of the model is a step of SetParameterLoop or leaves what it
\* sees unchanged.
LEMMA StepRefines ==
    ASSUME IInv, [Next]_vars
    PROVE  [Loop!Next]_Loop!vars
  <1>1. TypeOK
    BY DEF IInv
  <1>2. CASE \E c \in Clients : Client(c)
    <2>1. PICK c \in Clients : Client(c)
      BY <1>2
    <2>2. CASE Validate(c)
      BY <1>1, <2>2, ValidateRefines DEF Loop!Next
    <2>3. CASE ~Validate(c)
      <3>1. FailShape(c) \/ DoneShape(c) \/ PublishShape(c)
        BY <2>1, <2>3, HandlerShapes DEF Client
      <3>2. QED
        BY <1>1, <3>1, FailRefines, DoneRefines, PublishRefines DEF Loop!Next
    <2>4. QED
      BY <2>2, <2>3
  <1>3. CASE UNCHANGED vars
    <2>1. UNCHANGED <<cpc, cmd, todo, status, applied>>
      BY <1>3 DEF vars
    <2>2. QED
      BY <2>1 DEF Loop!vars, Named, Fields, TodoNames
  <1>4. QED
    BY <1>2, <1>3 DEF Next

\* setParameter keeps the promise of SetParameterLoop, for any number of
\* clients and any commands: a command is rejected whole before any set(),
\* or sets the names it carries one at a time, least first, and ends with
\* OK after the last or with the first error, keeping what it has set.
THEOREM LoopImplemented == Spec => LoopRefinement
  <1>1. IInv /\ [Next]_vars => [Loop!Next]_Loop!vars
    BY StepRefines
  <1>2. QED
    BY <1>1, InitRefines, IInvariant, PTL DEF Spec, LoopRefinement, Loop!Spec

=============================================================================
