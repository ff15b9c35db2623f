--------------------------- MODULE ServerParameters ---------------------------
(***************************************************************************)
(* The setParameter command of src/mongo/db/commands/parameters.cpp and    *)
(* the runtime-settable ServerParameters it drives.  Several clients run   *)
(* one setParameter command each; the command validates every field first *)
(* (CmdSet::errmsgRun, lines 145-201) and then calls set() on the          *)
(* parameters one by one in the order of the std::map that holds them     *)
(* (lines 203-228).  A failing set() throws through uassertStatusOK and    *)
(* leaves the parameters set before it in place (SERVER-8552).  Nothing    *)
(* serialises two setParameter commands: the only mutex is the one inside *)
(* AutomationServiceDescriptor.  The two steps of                          *)
(* MaxIncomingConnectionsSetting::set (entry point, then                   *)
(* serverGlobalParams.maxConns) are therefore separate actions.           *)
(*                                                                         *)
(* A BSON element is a record with one field per BSON type the handlers    *)
(* read; a string is a sequence of atoms, whose words are opaque and whose *)
(* delimiters are "," and " ", so that the boost::split of allowCommands   *)
(* is modelled by what it does.  getParameter only reads and is not an     *)
(* action: the properties read the state it would report.                  *)
(***************************************************************************)
EXTENDS Integers, Sequences, FiniteSets, SequencesExt

CONSTANTS
    Clients,          \* the connections that each run one setParameter command
    Commands,         \* the commands they may send: sequences of <<field, element>>
    GenericArgs,      \* field names isGenericArgument() accepts ("comment", ...)
    StartupOnly,      \* names registered with allowedToChangeAtRuntime() false
    Components,       \* log components, "default" among them
    Words,            \* the non-delimiter atoms strings are made of
    DisableCommands,  \* Command::globleDisableCommands
    InitMaxConns      \* serverGlobalParams.maxConns at startup

\* The runtime-settable parameters of parameters.cpp whose set() is in this
\* file, in the order of the std::map<std::string, ...> that holds them.
SortOrder == <<"allowCommands", "automationServiceDescriptor", "isImplicitCreateCol",
               "logComponentVerbosity", "logLevel", "maxIncomingConnections",
               "maxInternalIncomingConnections", "readOnly">>
RuntimeParams == ToSet(SortOrder)
Rank(p) == CHOOSE i \in 1..Len(SortOrder) : SortOrder[i] = p
Delimiters == {",", " "}
MaxSize == 64                 \* AutomationServiceDescriptor::kMaxSize
NoValue == -1                 \* a log component with no severity of its own

\* BSON elements: one field per type the handlers read.
Element == [type: {"int", "bool", "string", "object"}, num: Int, flag: BOOLEAN,
            str: Seq(Words \cup Delimiters), size: Nat, parses: BOOLEAN,
            levels: Seq(Components \X Int)]
IntElem(n) == [type |-> "int", num |-> n, flag |-> FALSE, str |-> <<>>, size |-> 0,
               parses |-> FALSE, levels |-> <<>>]
BoolElem(b) == [IntElem(0) EXCEPT !.type = "bool", !.flag = b]
StrElem(s, bytes) == [IntElem(0) EXCEPT !.type = "string", !.str = s, !.size = bytes]
ObjElem(ok, lv) == [IntElem(0) EXCEPT !.type = "object", !.parses = ok, !.levels = lv]

ASSUME ConstantsAssumption ==
    /\ "default" \in Components
    /\ DisableCommands \subseteq Words
    /\ GenericArgs \cap (RuntimeParams \cup StartupOnly) = {}
    /\ InitMaxConns \in Nat
    /\ Commands \subseteq Seq(STRING \X Element)

VARIABLES
    logSeverity,      \* globalLogDomain(): minimum severity per component
    readOnly,         \* serverGlobalParams.readOnly
    implicitCreate,   \* serverGlobalParams.isImplicitCreateCol
    descriptor,       \* AutomationServiceDescriptor::_value (as an element)
    allowCommands,    \* serverGlobalParams.allowCommands
    maxConns,         \* serverGlobalParams.maxConns / maxInternalConns
    sepMaxConns,      \* the ServiceEntryPoint's limits
    cmd,              \* the command each client sends
    cpc,              \* where each client's errmsgRun is
    todo,             \* the std::map parametersToSet, less the entries already set
    status,           \* the command's outcome
    applied           \* the parameters whose set() returned OK (numSet as a set)
settings == <<logSeverity, readOnly, implicitCreate, descriptor, allowCommands, maxConns, sepMaxConns>>
vars == <<settings, cmd, cpc, todo, status, applied>>

Fields(c) == {cmd[c][i][1] : i \in DOMAIN cmd[c]}
Named(c) == Fields(c) \ GenericArgs
TodoNames(c) == DOMAIN todo[c]

\* boost::split(v, str, boost::is_any_of(", ")): the tokens between
\* delimiters, empty ones kept (token_compress_off).
\* The cuts are the delimiter positions and the two ends; the k-th cut is
\* the one with k - 1 cuts before it.
Cuts(s) == {i \in DOMAIN s : s[i] \in Delimiters} \cup {0, Len(s) + 1}
CutAt(s, k) == CHOOSE i \in Cuts(s) : Cardinality({j \in Cuts(s) : j < i}) = k - 1
Split(s) ==
    [k \in 1..Cardinality(Cuts(s)) - 1 |-> SubSeq(s, CutAt(s, k) + 1, CutAt(s, k + 1) - 1)]
IsDisableCommand(tok) == tok \in {<<w>> : w \in DisableCommands}

-----------------------------------------------------------------------------
Init ==
    /\ logSeverity = [x \in Components |-> IF x = "default" THEN 0 ELSE NoValue]
    /\ readOnly = FALSE /\ implicitCreate = FALSE
    /\ descriptor = StrElem(<<>>, 0)
    /\ allowCommands = <<>>
    /\ maxConns = [ext |-> InitMaxConns, int |-> InitMaxConns]
    /\ sepMaxConns = maxConns
    /\ cmd \in [Clients -> Commands]
    /\ cpc = [c \in Clients |-> "validate"]
    /\ todo = [c \in Clients |-> [p \in {} |-> IntElem(0)]]
    /\ status = [c \in Clients |-> "none"]
    /\ applied = [c \in Clients |-> {}]

\* The validation loop of CmdSet::errmsgRun: generic arguments are skipped,
\* an unknown, startup-only or repeated name fails the command before any
\* set(); the rest go into the std::map parametersToSet, keyed by name.  An
\* empty map ends in "no option found to set" (found is never set).
ValidCommand(c) ==
    /\ Named(c) \subseteq RuntimeParams
    /\ \A i, j \in DOMAIN cmd[c] : i # j /\ cmd[c][i][1] \notin GenericArgs => cmd[c][i][1] # cmd[c][j][1]
\* The element a field of the command carries.
FieldElem(c, p) == cmd[c][CHOOSE i \in DOMAIN cmd[c] : cmd[c][i][1] = p][2]
\* Mutant: the generic arguments are not skipped on the way into the map.
ParametersToSetWithGeneric(c) == [p \in Fields(c) |-> FieldElem(c, p)]
ParametersToSet(c) == [p \in Named(c) |-> FieldElem(c, p)]

Validate(c) ==
    /\ cpc[c] = "validate"
    /\ IF ValidCommand(c) /\ Named(c) # {}
         THEN /\ todo' = [todo EXCEPT ![c] = ParametersToSet(c)]
              /\ cpc' = [cpc EXCEPT ![c] = "set"]
              /\ UNCHANGED status
         ELSE /\ cpc' = [cpc EXCEPT ![c] = "done"]
              /\ status' = [status EXCEPT ![c] = "errmsg"]
              /\ UNCHANGED todo
    /\ UNCHANGED <<settings, cmd, applied>>

\* The entry the set loop is at: parametersToSet.begin(), the least name
\* left in the std::map (the loop erases nothing; todo drops the entries
\* behind the iterator).
\* Mutant: the loop walks the fields in the order the command lists them.
ParamFirstListed(c) ==
    CHOOSE p \in TodoNames(c) : \A i, j \in DOMAIN cmd[c] :
        cmd[c][i][1] = p /\ cmd[c][j][1] \in TodoNames(c) => i <= j
Param(c) == CHOOSE p \in TodoNames(c) : \A q \in TodoNames(c) : Rank(p) <= Rank(q)

Elem(c) == todo[c][Param(c)]
Rest(c) == TodoNames(c) \ {Param(c)}

\* set() returned OK: numSet++ and on to the next entry of the map.
SetDone(c) ==
    /\ applied' = [applied EXCEPT ![c] = @ \cup {Param(c)}]
    /\ todo' = [todo EXCEPT ![c] = [p \in Rest(c) |-> @[p]]]
    /\ cpc' = [cpc EXCEPT ![c] = IF Rest(c) = {} THEN "done" ELSE "set"]
    /\ status' = [status EXCEPT ![c] = IF Rest(c) = {} THEN "OK" ELSE @]
\* set() returned an error: uassertStatusOK throws and the command fails.
SetFailed(c, code) ==
    /\ cpc' = [cpc EXCEPT ![c] = "done"]
    /\ status' = [status EXCEPT ![c] = code]
    /\ UNCHANGED <<todo, applied>>

-----------------------------------------------------------------------------
(* One action per set() handler, its error returns included.               *)

\* LogLevelSetting::set: coerce to int, reject a negative level, set the
\* default component's minimum severity (Log() for 0, Debug(n) above).
SetLogLevel(c) ==
    /\ cpc[c] = "set" /\ Param(c) = "logLevel"
    /\ IF Elem(c).type # "int" \/ Elem(c).num < 0
         THEN SetFailed(c, "BadValue") /\ UNCHANGED logSeverity
         ELSE SetDone(c) /\ logSeverity' = [logSeverity EXCEPT !["default"] = Elem(c).num]
    /\ UNCHANGED <<readOnly, implicitCreate, descriptor, allowCommands, maxConns, sepMaxConns, cmd>>

\* LogComponentVerbositySetting::set and _set: the element must be an object
\* that parses; then each setting in order sets or (negative level) clears
\* its component, a later setting of a component overriding an earlier one.
\* Clearing "default" restores Log() (LogComponentSettings keeps it set).
Verbosity(lv, x) ==
    LET last == CHOOSE i \in DOMAIN lv : lv[i][1] = x /\ \A j \in DOMAIN lv : lv[j][1] = x => j <= i
    IN  IF lv[last][2] >= 0 THEN lv[last][2] ELSE IF x = "default" THEN 0 ELSE NoValue
SetLogComponentVerbosity(c) ==
    /\ cpc[c] = "set" /\ Param(c) = "logComponentVerbosity"
    /\ CASE Elem(c).type # "object" -> SetFailed(c, "TypeMismatch") /\ UNCHANGED logSeverity
         [] Elem(c).type = "object" /\ ~Elem(c).parses ->
                SetFailed(c, "FailedToParse") /\ UNCHANGED logSeverity
         [] OTHER -> /\ SetDone(c)
                     /\ logSeverity' = [x \in Components |->
                           IF \E i \in DOMAIN Elem(c).levels : Elem(c).levels[i][1] = x
                             THEN Verbosity(Elem(c).levels, x) ELSE logSeverity[x]]
    /\ UNCHANGED <<readOnly, implicitCreate, descriptor, allowCommands, maxConns, sepMaxConns, cmd>>

\* ReadOnlySetting::set and IsImplicitCreateColSetting::set: a Bool element
\* or BadValue.
SetReadOnly(c) ==
    /\ cpc[c] = "set" /\ Param(c) = "readOnly"
    /\ IF Elem(c).type # "bool"
         THEN SetFailed(c, "BadValue") /\ UNCHANGED readOnly
         ELSE SetDone(c) /\ readOnly' = Elem(c).flag
    /\ UNCHANGED <<logSeverity, implicitCreate, descriptor, allowCommands, maxConns, sepMaxConns, cmd>>
SetIsImplicitCreateCol(c) ==
    /\ cpc[c] = "set" /\ Param(c) = "isImplicitCreateCol"
    /\ IF Elem(c).type # "bool"
         THEN SetFailed(c, "BadValue") /\ UNCHANGED implicitCreate
         ELSE SetDone(c) /\ implicitCreate' = Elem(c).flag
    /\ UNCHANGED <<logSeverity, readOnly, descriptor, allowCommands, maxConns, sepMaxConns, cmd>>

\* AutomationServiceDescriptor::set and setFromString: a string of at most
\* kMaxSize bytes, stored under the parameter's own mutex.
SetAutomationServiceDescriptor(c) ==
    /\ cpc[c] = "set" /\ Param(c) = "automationServiceDescriptor"
    /\ CASE Elem(c).type # "string" -> SetFailed(c, "TypeMismatch") /\ UNCHANGED descriptor
         [] Elem(c).type = "string" /\ Elem(c).size > MaxSize ->
                SetFailed(c, "Overflow") /\ UNCHANGED descriptor
         [] OTHER -> SetDone(c) /\ descriptor' = Elem(c)
    /\ UNCHANGED <<logSeverity, readOnly, implicitCreate, allowCommands, maxConns, sepMaxConns, cmd>>

\* AllowCommandSetting::set and setFromString: String() throws on a
\* non-string (caught, BadValue); every token of the split must be a
\* disable command, and only then is the list replaced.
\* Mutant: the list is replaced before its tokens are checked.
SetAllowCommandsAssignFirst(c) ==
    /\ cpc[c] = "set" /\ Param(c) = "allowCommands"
    /\ allowCommands' = IF Elem(c).type = "string" THEN Split(Elem(c).str) ELSE allowCommands
    /\ IF Elem(c).type # "string" \/ \E i \in DOMAIN Split(Elem(c).str) : ~IsDisableCommand(Split(Elem(c).str)[i])
         THEN SetFailed(c, "BadValue")
         ELSE SetDone(c)
    /\ UNCHANGED <<logSeverity, readOnly, implicitCreate, descriptor, maxConns, sepMaxConns, cmd>>
SetAllowCommands(c) ==
    /\ cpc[c] = "set" /\ Param(c) = "allowCommands"
    /\ IF Elem(c).type # "string" \/ \E i \in DOMAIN Split(Elem(c).str) : ~IsDisableCommand(Split(Elem(c).str)[i])
         THEN SetFailed(c, "BadValue") /\ UNCHANGED allowCommands
         ELSE SetDone(c) /\ allowCommands' = Split(Elem(c).str)
    /\ UNCHANGED <<logSeverity, readOnly, implicitCreate, descriptor, maxConns, sepMaxConns, cmd>>

\* MaxIncomingConnectionsSetting::set and MaxInternalIncomingConnectionsSetting::set,
\* first half: coerce to int, reject a negative value, hand it to the
\* ServiceEntryPoint, which may refuse it (its status is returned).
ConnKind(p) == IF p = "maxIncomingConnections" THEN "ext" ELSE "int"
SetMaxNumConnections(c) ==
    /\ cpc[c] = "set" /\ Param(c) \in {"maxIncomingConnections", "maxInternalIncomingConnections"}
    /\ \/ /\ Elem(c).type # "int" \/ Elem(c).num < 0
          /\ SetFailed(c, "BadValue") /\ UNCHANGED sepMaxConns
       \/ /\ Elem(c).type = "int" /\ Elem(c).num >= 0
          /\ SetFailed(c, "EntryPointRefused") /\ UNCHANGED sepMaxConns
       \/ /\ Elem(c).type = "int" /\ Elem(c).num >= 0
          /\ sepMaxConns' = [sepMaxConns EXCEPT ![ConnKind(Param(c))] = Elem(c).num]
          /\ cpc' = [cpc EXCEPT ![c] = "publish"]
          /\ UNCHANGED <<todo, status, applied>>
    /\ UNCHANGED <<logSeverity, readOnly, implicitCreate, descriptor, allowCommands, maxConns, cmd>>
\* Second half: serverGlobalParams.maxConns = newValue; return OK.
PublishMaxConns(c) ==
    /\ cpc[c] = "publish"
    /\ maxConns' = [maxConns EXCEPT ![ConnKind(Param(c))] = Elem(c).num]
    /\ SetDone(c)
    /\ UNCHANGED <<logSeverity, readOnly, implicitCreate, descriptor, allowCommands, sepMaxConns, cmd>>

Client(c) ==
    \/ Validate(c)
    \/ SetLogLevel(c) \/ SetLogComponentVerbosity(c) \/ SetReadOnly(c)
    \/ SetIsImplicitCreateCol(c) \/ SetAutomationServiceDescriptor(c)
    \/ SetAllowCommands(c) \/ SetMaxNumConnections(c) \/ PublishMaxConns(c)

AllDone == \A c \in Clients : cpc[c] = "done"
Next == (\E c \in Clients : Client(c)) \/ (AllDone /\ UNCHANGED vars)
Spec == Init /\ [][Next]_vars /\ \A c \in Clients : WF_vars(Client(c))

-----------------------------------------------------------------------------
TypeOK ==
    /\ logSeverity \in [Components -> Int]
    /\ readOnly \in BOOLEAN /\ implicitCreate \in BOOLEAN
    /\ descriptor \in Element
    /\ allowCommands \in Seq(Seq(Words))
    /\ maxConns \in [{"ext", "int"} -> Int] /\ sepMaxConns \in [{"ext", "int"} -> Int]
    /\ cmd \in [Clients -> Commands]
    /\ cpc \in [Clients -> {"validate", "set", "publish", "done"}]
    /\ DOMAIN todo = Clients
    /\ \A c \in Clients : TodoNames(c) \subseteq RuntimeParams /\ todo[c] \in [TodoNames(c) -> Element]
    /\ status \in [Clients -> {"none", "OK", "errmsg", "BadValue", "TypeMismatch",
                               "FailedToParse", "Overflow", "EntryPointRefused"}]
    /\ applied \in [Clients -> SUBSET RuntimeParams]

\* SERVER-8552 (parameters.cpp:203-205): a failed setParameter does not say
\* what it set.  What the code does guarantee: the parameters set so far are
\* exactly those of the command that sort before the ones still to do (the
\* std::map order), so a failure at parameter p left every parameter named
\* before p in that order set and none after it; a command rejected by
\* validation set nothing.
AppliedPrefix ==
    \A c \in Clients :
        /\ cpc[c] = "validate" \/ status[c] = "errmsg" => applied[c] = {}
        /\ cpc[c] # "validate" /\ status[c] # "errmsg" =>
              /\ applied[c] \cap TodoNames(c) = {}
              /\ applied[c] \cup TodoNames(c) = Named(c)
              /\ \A p \in applied[c], q \in TodoNames(c) : Rank(p) < Rank(q)

\* No value that a set() handler rejects is ever stored: the descriptor fits
\* kMaxSize, allowCommands holds only disable commands, the levels and
\* connection limits are not negative (the checks of lines 255, 499, 566,
\* 633 and 655 hold of the state getParameter reports).
ValuesAccepted ==
    /\ descriptor.size <= MaxSize
    /\ \A i \in DOMAIN allowCommands : IsDisableCommand(allowCommands[i])
    /\ logSeverity["default"] >= 0
    /\ \A k \in {"ext", "int"} : maxConns[k] >= 0 /\ sepMaxConns[k] >= 0

\* The step that fails a command changes no setting: every handler checks
\* the element before it stores anything (coerce, the type and range checks,
\* setFromString's token loop before the assignment at 631, the entry
\* point's refusal before maxConns at 575), and errmsgRun's validation
\* (145-201) runs before any set().  With AppliedPrefix, what a failed
\* command leaves behind is exactly the parameters set before the one that
\* failed.
FailedSetChangesNothing ==
    [][\A c \in Clients :
         status[c] = "none" /\ status'[c] \notin {"none", "OK"} => UNCHANGED settings]_vars

\* The set loop seen as SetParameterLoop.tla: the second step of a
\* connection-limit set() is still inside set().
Loop == INSTANCE SetParameterLoop WITH
    phase <- [c \in Clients |-> IF cpc[c] = "publish" THEN "set" ELSE cpc[c]],
    named <- [c \in Clients |-> Named(c)],
    left <- [c \in Clients |-> TodoNames(c)],
    done <- applied,
    outcome <- status,
    Names <- STRING,
    Params <- RuntimeParams,
    Order <- [p \in RuntimeParams |-> Rank(p)],
    Errors <- {"BadValue", "TypeMismatch", "FailedToParse", "Overflow", "EntryPointRefused"}

\* errmsgRun (145-235) keeps the promise of SetParameterLoop, whatever the
\* clients interleave: validation rejects a command before any set() or
\* accepts exactly the names it carries; the loop sets them one at a time
\* from parametersToSet.begin(), least name first; the first failing set()
\* ends the command and keeps what was set; the last one ends it with OK.
LoopRefinement == Loop!Spec

\* getParameter reports serverGlobalParams.maxConns (line 561) as the
\* connection limit, and the error message of set() reports the entry
\* point's limit as "now MaxConnection is" (line 572): the two are meant to
\* agree whenever no set() is between its two steps.
MaxConnsAgree ==
    (\A c \in Clients : cpc[c] # "publish") => maxConns = sepMaxConns
=============================================================================
