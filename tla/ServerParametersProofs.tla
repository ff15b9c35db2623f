----------------------- MODULE ServerParametersProofs -----------------------
(***************************************************************************)
(* Proofs about the setParameter model for every value of the constants:   *)
(* the type invariant, that a command sets a name-ordered prefix of its    *)
(* parameters (AppliedPrefix), and that no value a set() handler rejects   *)
(* is ever stored (ValuesAccepted).                                        *)
(***************************************************************************)
EXTENDS ServerParameters, FiniteSetTheorems, WellFoundedInduction, TLAPS

\* A client between validation and its last set().
Busy(c) == cpc[c] \in {"set", "publish"}

\* What each client's errmsgRun has done so far: nothing before validation,
\* an entry of the map under the iterator while it sets, and between the two
\* steps of a connection-limit set() the entry is that limit with a value
\* the first step accepted.
ClientInv(c) ==
    /\ cpc[c] = "validate" => applied[c] = {} /\ status[c] = "none"
    /\ Busy(c) => TodoNames(c) # {} /\ status[c] = "none"
    /\ status[c] = "errmsg" => applied[c] = {}
    /\ cpc[c] = "publish" =>
          /\ Param(c) \in {"maxIncomingConnections", "maxInternalIncomingConnections"}
          /\ Elem(c).type = "int" /\ Elem(c).num >= 0

\* AppliedPrefix for one client.
PrefixOf(c) ==
    /\ cpc[c] = "validate" \/ status[c] = "errmsg" => applied[c] = {}
    /\ cpc[c] # "validate" /\ status[c] # "errmsg" =>
          /\ applied[c] \cap TodoNames(c) = {}
          /\ applied[c] \cup TodoNames(c) = Named(c)
          /\ \A p \in applied[c], q \in TodoNames(c) : Rank(p) < Rank(q)

\* The inductive invariant.
IInv == TypeOK /\ (\A c \in Clients : ClientInv(c)) /\ AppliedPrefix /\ ValuesAccepted

\* The parts of IInv a step of one client re-establishes: the settings, and
\* the client's own entries.
PCs == {"validate", "set", "publish", "done"}
Codes == {"none", "OK", "errmsg", "BadValue", "TypeMismatch", "FailedToParse",
          "Overflow", "EntryPointRefused"}
SettingsOK ==
    /\ logSeverity \in [Components -> Int]
    /\ readOnly \in BOOLEAN /\ implicitCreate \in BOOLEAN
    /\ descriptor \in Element
    /\ allowCommands \in Seq(Seq(Words))
    /\ maxConns \in [{"ext", "int"} -> Int] /\ sepMaxConns \in [{"ext", "int"} -> Int]
    /\ ValuesAccepted
ClientOK(c) ==
    /\ cpc[c] \in PCs /\ status[c] \in Codes /\ applied[c] \subseteq RuntimeParams
    /\ TodoNames(c) \subseteq RuntimeParams /\ todo[c] \in [TodoNames(c) -> Element]
    /\ ClientInv(c) /\ PrefixOf(c)

-----------------------------------------------------------------------------
(* Lemmas about the operators of the model.                                *)

\* Every runtime parameter has a rank, its position in the std::map order,
\* and distinct parameters have distinct ranks.
LEMMA RankFacts ==
    \A p \in RuntimeParams : Rank(p) \in 1..8 /\ SortOrder[Rank(p)] = p
  <1> SUFFICES ASSUME NEW p \in RuntimeParams
               PROVE  Rank(p) \in 1..8 /\ SortOrder[Rank(p)] = p
    OBVIOUS
  <1>1. \E i \in 1..Len(SortOrder) : SortOrder[i] = p
    BY DEF RuntimeParams, ToSet, SortOrder
  <1>2. Len(SortOrder) = 8
    BY DEF SortOrder
  <1>3. QED
    BY <1>1, <1>2 DEF Rank

\* A non-empty set of naturals has a least element.
LEMMA NatMin ==
    ASSUME NEW T \in SUBSET Nat, T # {}
    PROVE  \E m \in T : \A k \in T : m <= k
  <1>1. \E m \in T : \A k \in T : ~(<<k, m>> \in OpToRel(<, Nat))
    BY NatLessThanWellFounded, WFMin
  <1>2. \A k, m \in Nat : ~(<<k, m>> \in OpToRel(<, Nat)) => m <= k
    BY DEF OpToRel
  <1>3. QED
    BY <1>1, <1>2

\* A non-empty set of naturals below a bound has a greatest element.
LEMMA NatMax ==
    ASSUME NEW n \in Nat, NEW T \in SUBSET (0..n), T # {}
    PROVE  \E m \in T : \A k \in T : k <= m
  <1> DEFINE D == {n - k : k \in T}
  <1>1. D \in SUBSET Nat
    <2>1. \A k \in T : n - k \in Nat
      OBVIOUS
    <2>2. QED
      BY <2>1
  <1>2. D # {}
    OBVIOUS
  <1>3. PICK d \in D : \A e \in D : d <= e
    BY <1>1, <1>2, NatMin
  <1>4. PICK m \in T : d = n - m
    OBVIOUS
  <1>5. \A k \in T : n - m <= n - k
    BY <1>3, <1>4
  <1>6. QED
    BY <1>5

\* The loop's iterator: parametersToSet.begin() is a name of the map, and
\* the least one.
LEMMA ParamMin ==
    ASSUME NEW c, TodoNames(c) \subseteq RuntimeParams, TodoNames(c) # {}
    PROVE  /\ Param(c) \in TodoNames(c)
           /\ \A q \in TodoNames(c) : Rank(Param(c)) <= Rank(q)
  <1>1. {Rank(p) : p \in TodoNames(c)} \in SUBSET Nat
    BY RankFacts
  <1>2. PICK m \in {Rank(p) : p \in TodoNames(c)} :
             \A k \in {Rank(p) : p \in TodoNames(c)} : m <= k
    <2>1. {Rank(p) : p \in TodoNames(c)} # {}
      OBVIOUS
    <2>2. QED
      BY <1>1, <2>1, NatMin
  <1>3. \E p \in TodoNames(c) : \A q \in TodoNames(c) : Rank(p) <= Rank(q)
    BY <1>2
  <1>4. QED
    BY <1>3 DEF Param

\* boost::split returns a sequence: its tokens are numbered 1..n.
LEMMA SplitIsSeq ==
    ASSUME NEW s \in Seq(Words \cup Delimiters)
    PROVE  \E n \in Nat : DOMAIN Split(s) = 1..n /\ Split(s) = [k \in 1..n |-> Split(s)[k]]
  <1>1. IsFiniteSet(Cuts(s))
    <2>1. IsFiniteSet(0..(Len(s) + 1))
      BY FS_Interval
    <2>2. Cuts(s) \subseteq 0..(Len(s) + 1)
      BY DEF Cuts
    <2>3. QED
      BY <2>1, <2>2, FS_Subset
  <1>2. Cardinality(Cuts(s)) \in Nat
    BY <1>1, FS_CardinalityType
  <1>3. 0 \in Cuts(s)
    BY DEF Cuts
  <1>4. Cardinality(Cuts(s)) # 0
    BY <1>1, <1>3, FS_EmptySet
  <1>5. DOMAIN Split(s) = 1..(Cardinality(Cuts(s)) - 1)
    BY DEF Split
  <1>6. Split(s) = [k \in 1..(Cardinality(Cuts(s)) - 1) |-> Split(s)[k]]
    BY DEF Split
  <1>7. QED
    BY <1>2, <1>4, <1>5, <1>6

\* The severity a list of component settings leaves a component it names:
\* an integer, and never negative for "default".
LEMMA VerbosityFacts ==
    ASSUME NEW lv \in Seq(Components \X Int), NEW x,
           \E i \in DOMAIN lv : lv[i][1] = x
    PROVE  /\ Verbosity(lv, x) \in Int
           /\ x = "default" => Verbosity(lv, x) >= 0
  <1> DEFINE T == {i \in DOMAIN lv : lv[i][1] = x}
  <1>1. PICK m \in T : \A k \in T : k <= m
    <2>1. Len(lv) \in Nat /\ T \in SUBSET (0..Len(lv)) /\ T # {}
      OBVIOUS
    <2>2. QED
      BY <2>1, NatMax
  <1>2. \E i \in DOMAIN lv : lv[i][1] = x /\ \A j \in DOMAIN lv : lv[j][1] = x => j <= i
    BY <1>1
  <1> DEFINE last == CHOOSE i \in DOMAIN lv : lv[i][1] = x /\ \A j \in DOMAIN lv : lv[j][1] = x => j <= i
  <1>3. last \in DOMAIN lv
    BY <1>2
  <1>4. lv[last][2] \in Int
    BY <1>3
  <1>5. QED
    BY <1>4 DEF Verbosity, NoValue

\* Every element a command carries is a BSON element.
LEMMA FieldElemType ==
    ASSUME NEW c, cmd[c] \in Commands, NEW p \in Fields(c)
    PROVE  FieldElem(c, p) \in Element
  <1>1. cmd[c] \in Seq(STRING \X Element)
    BY ConstantsAssumption
  <1>2. \E i \in DOMAIN cmd[c] : cmd[c][i][1] = p
    BY DEF Fields
  <1>3. QED
    BY <1>1, <1>2 DEF FieldElem

\* The entry under the iterator depends on the client's map alone.
LEMMA ParamFrame ==
    ASSUME NEW c, todo'[c] = todo[c]
    PROVE  Param(c)' = Param(c) /\ Elem(c)' = Elem(c) /\ TodoNames(c)' = TodoNames(c)
  BY DEF Param, Elem, TodoNames

-----------------------------------------------------------------------------
(* Steps of one client.                                                    *)

\* IInv gives each client's part.
LEMMA ClientParts ==
    ASSUME IInv, NEW c \in Clients
    PROVE  ClientOK(c) /\ cmd[c] \in Commands
  BY DEF IInv, TypeOK, ClientOK, PCs, Codes, AppliedPrefix, PrefixOf

\* A step that changes only client c's entries keeps IInv when it keeps
\* the settings' part and c's part.
LEMMA ClientFrame ==
    ASSUME IInv, NEW c \in Clients,
           NEW pc1, NEW st1, NEW ap1,
           cpc' = [cpc EXCEPT ![c] = pc1],
           DOMAIN todo' = Clients, \A d \in Clients \ {c} : todo'[d] = todo[d],
           status' = [status EXCEPT ![c] = st1], applied' = [applied EXCEPT ![c] = ap1],
           cmd' = cmd, SettingsOK', ClientOK(c)'
    PROVE  IInv'
  <1>1. ASSUME NEW d \in Clients \ {c}
        PROVE  ClientOK(d)'
    <2>1. todo'[d] = todo[d] /\ cpc'[d] = cpc[d] /\ status'[d] = status[d]
          /\ applied'[d] = applied[d]
      BY DEF IInv, TypeOK
    <2>2. Param(d)' = Param(d) /\ Elem(d)' = Elem(d) /\ TodoNames(d)' = TodoNames(d)
      BY <2>1, ParamFrame
    <2>3. Named(d)' = Named(d)
      BY DEF Named, Fields
    <2>4. ClientOK(d)
      BY ClientParts
    <2>5. QED
      BY <2>1, <2>2, <2>3, <2>4 DEF ClientOK, ClientInv, PrefixOf, Busy
  <1>2. \A d \in Clients : ClientOK(d)'
    BY <1>1
  <1>3. pc1 \in PCs /\ st1 \in Codes /\ ap1 \subseteq RuntimeParams
    BY DEF IInv, TypeOK, ClientOK
  <1>4. TypeOK'
    <2>1. cpc' \in [Clients -> PCs] /\ status' \in [Clients -> Codes]
          /\ applied' \in [Clients -> SUBSET RuntimeParams] /\ DOMAIN todo' = Clients
      BY <1>3 DEF IInv, TypeOK, PCs, Codes
    <2>2. \A d \in Clients : TodoNames(d)' \subseteq RuntimeParams /\ todo'[d] \in [TodoNames(d)' -> Element]
      BY <1>2 DEF ClientOK
    <2>3. QED
      BY <2>1, <2>2 DEF TypeOK, SettingsOK, IInv, PCs, Codes
  <1>5. QED
    BY <1>2, <1>4 DEF IInv, SettingsOK, ClientOK, AppliedPrefix, PrefixOf

\* The entry under the iterator of a busy client.
LEMMA BusyEntry ==
    ASSUME IInv, NEW c \in Clients, Busy(c)
    PROVE  /\ Param(c) \in TodoNames(c) /\ Param(c) \in RuntimeParams
           /\ \A q \in TodoNames(c) : Rank(Param(c)) <= Rank(q)
           /\ Elem(c) \in Element
           /\ status[c] = "none"
  <1>1. ClientOK(c)
    BY ClientParts
  <1>2. TodoNames(c) \subseteq RuntimeParams /\ TodoNames(c) # {} /\ status[c] = "none"
    BY <1>1 DEF ClientOK, ClientInv
  <1>3. Param(c) \in TodoNames(c) /\ \A q \in TodoNames(c) : Rank(Param(c)) <= Rank(q)
    BY <1>2, ParamMin
  <1>4. QED
    BY <1>1, <1>2, <1>3 DEF ClientOK, Elem

\* set() returned OK: the entry moves from the map to the parameters set,
\* and it sorts before every entry left.
LEMMA SetDoneOK ==
    ASSUME IInv, NEW c \in Clients, Busy(c), SetDone(c), cmd' = cmd
    PROVE  ClientOK(c)'
  <1> DEFINE p == Param(c)
  <1>1. ClientOK(c)
    BY ClientParts
  <1>2. p \in TodoNames(c) /\ p \in RuntimeParams /\ status[c] = "none"
        /\ \A q \in TodoNames(c) : Rank(p) <= Rank(q)
    BY BusyEntry
  <1>3. /\ TodoNames(c)' = Rest(c) /\ todo'[c] = [q \in Rest(c) |-> todo[c][q]]
        /\ applied'[c] = applied[c] \cup {p}
        /\ cpc'[c] = IF Rest(c) = {} THEN "done" ELSE "set"
        /\ status'[c] = IF Rest(c) = {} THEN "OK" ELSE "none"
    BY <1>2 DEF SetDone, IInv, TypeOK, TodoNames
  <1>4. Named(c)' = Named(c)
    BY DEF Named, Fields
  <1>5. /\ applied[c] \cap TodoNames(c) = {}
        /\ applied[c] \cup TodoNames(c) = Named(c)
        /\ \A a \in applied[c], q \in TodoNames(c) : Rank(a) < Rank(q)
    BY <1>1, <1>2 DEF ClientOK, PrefixOf, Busy
  <1>6. ASSUME NEW q \in Rest(c) PROVE Rank(p) < Rank(q)
    <2>1. q \in RuntimeParams /\ q # p /\ q \in TodoNames(c)
      BY <1>1 DEF Rest, ClientOK
    <2>2. Rank(p) \in 1..8 /\ Rank(q) \in 1..8 /\ Rank(p) # Rank(q)
      BY <2>1, <1>2, RankFacts
    <2>3. QED
      BY <2>1, <2>2, <1>2
  <1>7. PrefixOf(c)'
    <2>1. applied'[c] \cap TodoNames(c)' = {}
      BY <1>3, <1>5 DEF Rest
    <2>2. applied'[c] \cup TodoNames(c)' = Named(c)'
      BY <1>2, <1>3, <1>4, <1>5 DEF Rest
    <2>3. \A a \in applied'[c], q \in TodoNames(c)' : Rank(a) < Rank(q)
      BY <1>3, <1>5, <1>6 DEF Rest
    <2>4. cpc'[c] # "validate" /\ status'[c] # "errmsg"
      BY <1>3
    <2>5. QED
      BY <2>1, <2>2, <2>3, <2>4 DEF PrefixOf
  <1>8. ClientInv(c)'
    BY <1>3 DEF ClientInv, Busy, Rest
  <1>9. QED
    BY <1>1, <1>2, <1>3, <1>7, <1>8 DEF ClientOK, PCs, Codes, Rest

\* set() returned an error: the command ends with the map as it was.
LEMMA SetFailedOK ==
    ASSUME IInv, NEW c \in Clients, Busy(c), NEW code \in Codes \ {"none", "errmsg"},
           SetFailed(c, code), cmd' = cmd
    PROVE  ClientOK(c)'
  <1>1. ClientOK(c) /\ status[c] = "none"
    BY ClientParts, BusyEntry
  <1>2. cpc'[c] = "done" /\ status'[c] = code /\ todo'[c] = todo[c] /\ applied'[c] = applied[c]
    BY DEF SetFailed, IInv, TypeOK
  <1>3. Param(c)' = Param(c) /\ Elem(c)' = Elem(c) /\ TodoNames(c)' = TodoNames(c)
    BY <1>2, ParamFrame
  <1>4. Named(c)' = Named(c)
    BY DEF Named, Fields
  <1>5. QED
    BY <1>1, <1>2, <1>3, <1>4 DEF ClientOK, ClientInv, PrefixOf, Busy, PCs

\* CmdSet::errmsgRun's validation loop: a valid command fills the map with
\* its named fields; any other ends the command before a set().
LEMMA ValidateStep ==
    ASSUME IInv, NEW c \in Clients, Validate(c)
    PROVE  IInv'
  <1>1. ClientOK(c) /\ cmd[c] \in Commands /\ applied[c] = {} /\ status[c] = "none"
    BY ClientParts DEF Validate, ClientOK, ClientInv
  <1>2. SettingsOK' /\ cmd' = cmd /\ applied' = applied
    BY DEF Validate, SettingsOK, ValuesAccepted, settings, IInv, TypeOK
  <1>3. /\ cpc' = [cpc EXCEPT ![c] = cpc'[c]]
        /\ DOMAIN todo' = Clients /\ \A d \in Clients \ {c} : todo'[d] = todo[d]
        /\ status' = [status EXCEPT ![c] = status'[c]]
        /\ applied' = [applied EXCEPT ![c] = applied'[c]]
    BY <1>2 DEF Validate, IInv, TypeOK
  <1>4. Named(c)' = Named(c)
    BY <1>2 DEF Named, Fields
  <1>5. CASE ValidCommand(c) /\ Named(c) # {}
    <2>1. todo'[c] = ParametersToSet(c) /\ cpc'[c] = "set" /\ status'[c] = "none"
      BY <1>1, <1>5 DEF Validate, IInv, TypeOK
    <2>2. TodoNames(c)' = Named(c) /\ Named(c) \subseteq RuntimeParams
      BY <2>1, <1>5 DEF TodoNames, ParametersToSet, ValidCommand
    <2>3. todo'[c] \in [TodoNames(c)' -> Element]
      BY <2>1, <2>2, <1>1, FieldElemType DEF ParametersToSet, Named
    <2>4. ClientInv(c)'
      BY <2>1, <2>2, <1>5 DEF ClientInv, Busy
    <2>5. PrefixOf(c)'
      BY <1>1, <1>2, <1>4, <2>1, <2>2 DEF PrefixOf
    <2>6. ClientOK(c)'
      BY <1>1, <1>2, <2>1, <2>2, <2>3, <2>4, <2>5 DEF ClientOK, PCs, Codes
    <2>7. QED
      BY <1>2, <1>3, <2>6, ClientFrame
  <1>6. CASE ~(ValidCommand(c) /\ Named(c) # {})
    <2>1. todo'[c] = todo[c] /\ cpc'[c] = "done" /\ status'[c] = "errmsg"
      BY <1>6 DEF Validate, IInv, TypeOK
    <2>2. Param(c)' = Param(c) /\ Elem(c)' = Elem(c) /\ TodoNames(c)' = TodoNames(c)
      BY <2>1, ParamFrame
    <2>3. ClientOK(c)'
      BY <1>1, <1>2, <2>1, <2>2 DEF ClientOK, ClientInv, PrefixOf, Busy, PCs, Codes
    <2>4. QED
      BY <1>2, <1>3, <2>3, ClientFrame
  <1>7. QED
    BY <1>5, <1>6

\* A set() that returned OK, and one that returned an error, keep IInv
\* whenever the settings they leave keep their part.
LEMMA DoneStep ==
    ASSUME IInv, NEW c \in Clients, Busy(c), SetDone(c), cmd' = cmd, SettingsOK'
    PROVE  IInv'
  <1>1. ClientOK(c)'
    BY SetDoneOK
  <1>2. /\ cpc' = [cpc EXCEPT ![c] = cpc'[c]]
        /\ DOMAIN todo' = Clients /\ \A d \in Clients \ {c} : todo'[d] = todo[d]
        /\ status' = [status EXCEPT ![c] = status'[c]]
        /\ applied' = [applied EXCEPT ![c] = applied'[c]]
    BY DEF SetDone, IInv, TypeOK
  <1>3. QED
    BY <1>1, <1>2, ClientFrame

LEMMA FailedStep ==
    ASSUME IInv, NEW c \in Clients, Busy(c), NEW code \in Codes \ {"none", "errmsg"},
           SetFailed(c, code), cmd' = cmd, SettingsOK'
    PROVE  IInv'
  <1>1. ClientOK(c)'
    BY SetFailedOK
  <1>2. /\ cpc' = [cpc EXCEPT ![c] = cpc'[c]]
        /\ DOMAIN todo' = Clients /\ \A d \in Clients \ {c} : todo'[d] = todo[d]
        /\ status' = [status EXCEPT ![c] = status'[c]]
        /\ applied' = [applied EXCEPT ![c] = applied'[c]]
    BY DEF SetFailed, IInv, TypeOK
  <1>3. QED
    BY <1>1, <1>2, ClientFrame

\* The settings' part of IInv.
LEMMA SettingsParts ==
    ASSUME IInv
    PROVE  SettingsOK
  BY DEF IInv, TypeOK, SettingsOK

-----------------------------------------------------------------------------
(* One lemma per set() handler.                                            *)

LEMMA SetLogLevelStep ==
    ASSUME IInv, NEW c \in Clients, SetLogLevel(c)
    PROVE  IInv'
  <1>1. Busy(c) /\ Elem(c) \in Element /\ SettingsOK
    BY BusyEntry, SettingsParts DEF SetLogLevel, Busy
  <1>2. CASE Elem(c).type # "int" \/ Elem(c).num < 0
    <2>1. SetFailed(c, "BadValue") /\ UNCHANGED <<logSeverity, cmd>>
      BY <1>2 DEF SetLogLevel
    <2>2. SettingsOK'
      BY <1>1, <2>1 DEF SetLogLevel, SettingsOK, ValuesAccepted
    <2>3. QED
      BY <1>1, <2>1, <2>2, FailedStep DEF Codes
  <1>3. CASE ~(Elem(c).type # "int" \/ Elem(c).num < 0)
    <2>1. SetDone(c) /\ logSeverity' = [logSeverity EXCEPT !["default"] = Elem(c).num]
          /\ UNCHANGED cmd
      BY <1>3 DEF SetLogLevel
    <2>2. Elem(c).num \in Int /\ Elem(c).num >= 0
      BY <1>1, <1>3 DEF Element
    <2>3. SettingsOK'
      BY <1>1, <2>1, <2>2, ConstantsAssumption DEF SetLogLevel, SettingsOK, ValuesAccepted
    <2>4. QED
      BY <1>1, <2>1, <2>3, DoneStep
  <1>4. QED
    BY <1>2, <1>3

LEMMA SetReadOnlyStep ==
    ASSUME IInv, NEW c \in Clients, SetReadOnly(c)
    PROVE  IInv'
  <1>1. Busy(c) /\ Elem(c) \in Element /\ SettingsOK
    BY BusyEntry, SettingsParts DEF SetReadOnly, Busy
  <1>2. CASE Elem(c).type # "bool"
    <2>1. SetFailed(c, "BadValue") /\ UNCHANGED <<readOnly, cmd>>
      BY <1>2 DEF SetReadOnly
    <2>2. SettingsOK'
      BY <1>1, <2>1 DEF SetReadOnly, SettingsOK, ValuesAccepted
    <2>3. QED
      BY <1>1, <2>1, <2>2, FailedStep DEF Codes
  <1>3. CASE Elem(c).type = "bool"
    <2>1. SetDone(c) /\ readOnly' = Elem(c).flag /\ UNCHANGED cmd
      BY <1>3 DEF SetReadOnly
    <2>2. SettingsOK'
      BY <1>1, <2>1 DEF SetReadOnly, SettingsOK, ValuesAccepted, Element
    <2>3. QED
      BY <1>1, <2>1, <2>2, DoneStep
  <1>4. QED
    BY <1>2, <1>3

LEMMA SetIsImplicitCreateColStep ==
    ASSUME IInv, NEW c \in Clients, SetIsImplicitCreateCol(c)
    PROVE  IInv'
  <1>1. Busy(c) /\ Elem(c) \in Element /\ SettingsOK
    BY BusyEntry, SettingsParts DEF SetIsImplicitCreateCol, Busy
  <1>2. CASE Elem(c).type # "bool"
    <2>1. SetFailed(c, "BadValue") /\ UNCHANGED <<implicitCreate, cmd>>
      BY <1>2 DEF SetIsImplicitCreateCol
    <2>2. SettingsOK'
      BY <1>1, <2>1 DEF SetIsImplicitCreateCol, SettingsOK, ValuesAccepted
    <2>3. QED
      BY <1>1, <2>1, <2>2, FailedStep DEF Codes
  <1>3. CASE Elem(c).type = "bool"
    <2>1. SetDone(c) /\ implicitCreate' = Elem(c).flag /\ UNCHANGED cmd
      BY <1>3 DEF SetIsImplicitCreateCol
    <2>2. SettingsOK'
      BY <1>1, <2>1 DEF SetIsImplicitCreateCol, SettingsOK, ValuesAccepted, Element
    <2>3. QED
      BY <1>1, <2>1, <2>2, DoneStep
  <1>4. QED
    BY <1>2, <1>3

LEMMA SetAutomationServiceDescriptorStep ==
    ASSUME IInv, NEW c \in Clients, SetAutomationServiceDescriptor(c)
    PROVE  IInv'
  <1>1. Busy(c) /\ Elem(c) \in Element /\ SettingsOK
    BY BusyEntry, SettingsParts DEF SetAutomationServiceDescriptor, Busy
  <1>2. CASE Elem(c).type # "string"
    <2>1. SetFailed(c, "TypeMismatch") /\ UNCHANGED <<descriptor, cmd>>
      BY <1>2 DEF SetAutomationServiceDescriptor
    <2>2. SettingsOK'
      BY <1>1, <2>1 DEF SetAutomationServiceDescriptor, SettingsOK, ValuesAccepted
    <2>3. QED
      BY <1>1, <2>1, <2>2, FailedStep DEF Codes
  <1>3. CASE Elem(c).type = "string" /\ Elem(c).size > MaxSize
    <2>1. SetFailed(c, "Overflow") /\ UNCHANGED <<descriptor, cmd>>
      BY <1>3 DEF SetAutomationServiceDescriptor
    <2>2. SettingsOK'
      BY <1>1, <2>1 DEF SetAutomationServiceDescriptor, SettingsOK, ValuesAccepted
    <2>3. QED
      BY <1>1, <2>1, <2>2, FailedStep DEF Codes
  <1>4. CASE Elem(c).type = "string" /\ ~(Elem(c).size > MaxSize)
    <2>1. SetDone(c) /\ descriptor' = Elem(c) /\ UNCHANGED cmd
      BY <1>4 DEF SetAutomationServiceDescriptor
    <2>2. Elem(c).size <= MaxSize
      BY <1>1, <1>4 DEF Element, MaxSize
    <2>3. SettingsOK'
      BY <1>1, <2>1, <2>2 DEF SetAutomationServiceDescriptor, SettingsOK, ValuesAccepted
    <2>4. QED
      BY <1>1, <2>1, <2>3, DoneStep
  <1>5. QED
    BY <1>2, <1>3, <1>4

\* allowCommands is replaced only by a split whose every token names a
\* disable command.
LEMMA SetAllowCommandsStep ==
    ASSUME IInv, NEW c \in Clients, SetAllowCommands(c)
    PROVE  IInv'
  <1>1. Busy(c) /\ Elem(c) \in Element /\ SettingsOK
    BY BusyEntry, SettingsParts DEF SetAllowCommands, Busy
  <1> DEFINE tokens == Split(Elem(c).str)
  <1>2. CASE Elem(c).type # "string" \/ \E i \in DOMAIN tokens : ~IsDisableCommand(tokens[i])
    <2>1. SetFailed(c, "BadValue") /\ UNCHANGED <<allowCommands, cmd>>
      BY <1>2 DEF SetAllowCommands
    <2>2. SettingsOK'
      BY <1>1, <2>1 DEF SetAllowCommands, SettingsOK, ValuesAccepted
    <2>3. QED
      BY <1>1, <2>1, <2>2, FailedStep DEF Codes
  <1>3. CASE ~(Elem(c).type # "string" \/ \E i \in DOMAIN tokens : ~IsDisableCommand(tokens[i]))
    <2>1. SetDone(c) /\ allowCommands' = tokens /\ UNCHANGED cmd
      BY <1>3 DEF SetAllowCommands
    <2>2. PICK n \in Nat : DOMAIN tokens = 1..n /\ tokens = [k \in 1..n |-> tokens[k]]
      BY <1>1, SplitIsSeq DEF Element
    <2>3. \A i \in 1..n : IsDisableCommand(tokens[i])
      BY <1>3, <2>2, Zenon
    <2>4. \A i \in 1..n : tokens[i] \in Seq(Words)
      <3>1. \A w \in Words : <<w>> \in Seq(Words)
        OBVIOUS
      <3>2. QED
        BY <2>3, <3>1, ConstantsAssumption DEF IsDisableCommand
    <2>5. tokens = [i \in 1..n |-> tokens[i]]
      BY <2>2
    <2>6. tokens \in Seq(Seq(Words))
      BY <2>4, <2>5
    <2>7. SettingsOK'
      BY <1>1, <2>1, <2>2, <2>3, <2>6 DEF SetAllowCommands, SettingsOK, ValuesAccepted
    <2>8. QED
      BY <1>1, <2>1, <2>7, DoneStep
  <1>4. QED
    BY <1>2, <1>3

\* A component's severity after a verbosity document is an integer, and
\* "default" is never left negative.
LEMMA SetLogComponentVerbosityStep ==
    ASSUME IInv, NEW c \in Clients, SetLogComponentVerbosity(c)
    PROVE  IInv'
  <1>1. Busy(c) /\ Elem(c) \in Element /\ SettingsOK
    BY BusyEntry, SettingsParts DEF SetLogComponentVerbosity, Busy
  <1>2. CASE Elem(c).type # "object"
    <2>1. SetFailed(c, "TypeMismatch") /\ UNCHANGED <<logSeverity, cmd>>
      BY <1>2 DEF SetLogComponentVerbosity
    <2>2. SettingsOK'
      BY <1>1, <2>1 DEF SetLogComponentVerbosity, SettingsOK, ValuesAccepted
    <2>3. QED
      BY <1>1, <2>1, <2>2, FailedStep DEF Codes
  <1>3. CASE Elem(c).type = "object" /\ ~Elem(c).parses
    <2>1. SetFailed(c, "FailedToParse") /\ UNCHANGED <<logSeverity, cmd>>
      BY <1>3 DEF SetLogComponentVerbosity
    <2>2. SettingsOK'
      BY <1>1, <2>1 DEF SetLogComponentVerbosity, SettingsOK, ValuesAccepted
    <2>3. QED
      BY <1>1, <2>1, <2>2, FailedStep DEF Codes
  <1>4. CASE Elem(c).type = "object" /\ Elem(c).parses
    <2> DEFINE lv == Elem(c).levels
    <2>1. SetDone(c) /\ UNCHANGED cmd
          /\ logSeverity' = [x \in Components |->
                               IF \E i \in DOMAIN lv : lv[i][1] = x
                                 THEN Verbosity(lv, x) ELSE logSeverity[x]]
      BY <1>4 DEF SetLogComponentVerbosity
    <2>2. lv \in Seq(Components \X Int)
      BY <1>1 DEF Element
    <2>3. ASSUME NEW x \in Components
          PROVE  /\ logSeverity'[x] \in Int
                 /\ x = "default" => logSeverity'[x] >= 0
      <3>1. CASE \E i \in DOMAIN lv : lv[i][1] = x
        BY <2>1, <2>2, <3>1, VerbosityFacts
      <3>2. CASE ~\E i \in DOMAIN lv : lv[i][1] = x
        BY <1>1, <2>1, <3>2 DEF SettingsOK, ValuesAccepted
      <3>3. QED
        BY <3>1, <3>2
    <2>4. SettingsOK'
      BY <1>1, <2>1, <2>3, ConstantsAssumption
         DEF SetLogComponentVerbosity, SettingsOK, ValuesAccepted
    <2>5. QED
      BY <1>1, <2>1, <2>4, DoneStep
  <1>5. QED
    BY <1>2, <1>3, <1>4

\* The first half of a connection-limit set() hands the entry point only a
\* value it accepted, and the second publishes that same value.
LEMMA SetMaxNumConnectionsStep ==
    ASSUME IInv, NEW c \in Clients, SetMaxNumConnections(c)
    PROVE  IInv'
  <1>1. Busy(c) /\ Elem(c) \in Element /\ SettingsOK /\ cpc[c] = "set"
    BY BusyEntry, SettingsParts DEF SetMaxNumConnections, Busy
  <1>2. CASE /\ Elem(c).type # "int" \/ Elem(c).num < 0
             /\ SetFailed(c, "BadValue") /\ UNCHANGED sepMaxConns
    <2>1. SettingsOK' /\ cmd' = cmd
      BY <1>1, <1>2 DEF SetMaxNumConnections, SettingsOK, ValuesAccepted
    <2>2. QED
      BY <1>1, <1>2, <2>1, FailedStep DEF Codes
  <1>3. CASE /\ Elem(c).type = "int" /\ Elem(c).num >= 0
             /\ SetFailed(c, "EntryPointRefused") /\ UNCHANGED sepMaxConns
    <2>1. SettingsOK' /\ cmd' = cmd
      BY <1>1, <1>3 DEF SetMaxNumConnections, SettingsOK, ValuesAccepted
    <2>2. QED
      BY <1>1, <1>3, <2>1, FailedStep DEF Codes
  <1>4. CASE /\ Elem(c).type = "int" /\ Elem(c).num >= 0
             /\ sepMaxConns' = [sepMaxConns EXCEPT ![ConnKind(Param(c))] = Elem(c).num]
             /\ cpc' = [cpc EXCEPT ![c] = "publish"]
             /\ UNCHANGED <<todo, status, applied>>
    <2>1. Elem(c).num \in Int /\ ConnKind(Param(c)) \in {"ext", "int"}
      BY <1>1 DEF Element, ConnKind
    <2>2. SettingsOK' /\ cmd' = cmd
      BY <1>1, <1>4, <2>1 DEF SetMaxNumConnections, SettingsOK, ValuesAccepted
    <2>3. Param(c)' = Param(c) /\ Elem(c)' = Elem(c) /\ TodoNames(c)' = TodoNames(c)
      BY <1>4, ParamFrame
    <2>4. Named(c)' = Named(c)
      BY <2>2 DEF Named, Fields
    <2>5. Param(c) \in {"maxIncomingConnections", "maxInternalIncomingConnections"}
      BY DEF SetMaxNumConnections
    <2>6. ClientOK(c)
      BY ClientParts
    <2>7. cpc'[c] = "publish"
      BY <1>4 DEF IInv, TypeOK
    <2>8. status'[c] = "none" /\ applied'[c] = applied[c] /\ todo'[c] = todo[c]
      BY <1>1, <1>4, BusyEntry
    <2>9. ClientInv(c)'
      BY <1>1, <1>4, <2>3, <2>5, <2>6, <2>7, <2>8 DEF ClientOK, ClientInv, Busy
    <2>10. PrefixOf(c)'
      <3>1. status[c] = "none"
        BY <1>1, BusyEntry
      <3>2. QED
        BY <1>1, <2>3, <2>4, <2>6, <2>7, <2>8, <3>1 DEF ClientOK, PrefixOf
    <2>11. ClientOK(c)'
      BY <2>3, <2>6, <2>7, <2>8, <2>9, <2>10 DEF ClientOK, PCs, Codes
    <2>12. /\ status' = [status EXCEPT ![c] = status'[c]]
           /\ applied' = [applied EXCEPT ![c] = applied'[c]]
           /\ DOMAIN todo' = Clients /\ \A d \in Clients \ {c} : todo'[d] = todo[d]
      BY <1>4 DEF IInv, TypeOK
    <2>13. QED
      BY <1>4, <2>2, <2>11, <2>12, ClientFrame
  <1>5. QED
    BY <1>2, <1>3, <1>4 DEF SetMaxNumConnections

LEMMA PublishMaxConnsStep ==
    ASSUME IInv, NEW c \in Clients, PublishMaxConns(c)
    PROVE  IInv'
  <1>1. Busy(c) /\ Elem(c) \in Element /\ SettingsOK /\ ClientOK(c)
    BY BusyEntry, SettingsParts, ClientParts DEF PublishMaxConns, Busy
  <1>2. Elem(c).num \in Int /\ Elem(c).num >= 0
        /\ ConnKind(Param(c)) \in {"ext", "int"}
    BY <1>1 DEF PublishMaxConns, ClientOK, ClientInv, Element, ConnKind
  <1>3. SettingsOK' /\ cmd' = cmd
    BY <1>1, <1>2 DEF PublishMaxConns, SettingsOK, ValuesAccepted
  <1>4. QED
    BY <1>1, <1>3, DoneStep DEF PublishMaxConns

-----------------------------------------------------------------------------
(* The invariance theorems.                                                *)

LEMMA InitIInv == Init => IInv
  <1> SUFFICES ASSUME Init PROVE IInv
    OBVIOUS
  <1>1. StrElem(<<>>, 0) \in Element
    <2>1. <<>> \in Seq(Words \cup Delimiters) /\ <<>> \in Seq(Components \X Int)
      OBVIOUS
    <2>2. IntElem(0) \in Element
      BY <2>1 DEF IntElem, Element
    <2>3. [IntElem(0) EXCEPT !.type = "string"] \in Element
      BY <2>2 DEF Element
    <2>4. [[IntElem(0) EXCEPT !.type = "string"] EXCEPT !.str = <<>>] \in Element
      BY <2>1, <2>3 DEF Element
    <2>5. QED
      BY <2>4 DEF StrElem, Element
  <1>2. \A c \in Clients : TodoNames(c) = {} /\ todo[c] \in [TodoNames(c) -> Element]
    BY DEF Init, TodoNames
  <1>3. TypeOK
    <2>1. logSeverity \in [Components -> Int]
      BY DEF Init, NoValue
    <2>2. allowCommands \in Seq(Seq(Words)) /\ descriptor \in Element
      BY <1>1 DEF Init
    <2>3. maxConns \in [{"ext", "int"} -> Int] /\ sepMaxConns \in [{"ext", "int"} -> Int]
      BY ConstantsAssumption DEF Init
    <2>4. /\ cpc \in [Clients -> {"validate", "set", "publish", "done"}]
          /\ status \in [Clients -> {"none", "OK", "errmsg", "BadValue", "TypeMismatch",
                                     "FailedToParse", "Overflow", "EntryPointRefused"}]
          /\ applied \in [Clients -> SUBSET RuntimeParams]
          /\ DOMAIN todo = Clients /\ cmd \in [Clients -> Commands]
          /\ readOnly \in BOOLEAN /\ implicitCreate \in BOOLEAN
      BY DEF Init
    <2>5. QED
      BY <1>2, <2>1, <2>2, <2>3, <2>4 DEF TypeOK
  <1>4. \A c \in Clients : ClientInv(c)
    BY DEF Init, ClientInv, Busy
  <1>5. AppliedPrefix
    BY DEF Init, AppliedPrefix
  <1>6. ValuesAccepted
    BY ConstantsAssumption DEF Init, ValuesAccepted, StrElem, IntElem, MaxSize
  <1>7. QED
    BY <1>3, <1>4, <1>5, <1>6 DEF IInv

LEMMA StepIInv == IInv /\ [Next]_vars => IInv'
  <1> SUFFICES ASSUME IInv, [Next]_vars PROVE IInv'
    OBVIOUS
  <1>1. ASSUME NEW c \in Clients, Client(c) PROVE IInv'
    BY <1>1, ValidateStep, SetLogLevelStep, SetLogComponentVerbosityStep,
       SetReadOnlyStep, SetIsImplicitCreateColStep, SetAutomationServiceDescriptorStep,
       SetAllowCommandsStep, SetMaxNumConnectionsStep, PublishMaxConnsStep
       DEF Client
  <1>2. CASE UNCHANGED vars
    <2>1. UNCHANGED <<logSeverity, readOnly, implicitCreate, descriptor, allowCommands,
                      maxConns, sepMaxConns, cmd, cpc, todo, status, applied>>
      BY <1>2 DEF vars, settings
    <2>2. ASSUME NEW c \in Clients PROVE ClientOK(c)'
      <3>1. Param(c)' = Param(c) /\ Elem(c)' = Elem(c) /\ TodoNames(c)' = TodoNames(c)
        BY <2>1, ParamFrame
      <3>2. Named(c)' = Named(c)
        BY <2>1 DEF Named, Fields
      <3>3. QED
        BY <2>1, <3>1, <3>2, ClientParts DEF ClientOK, ClientInv, PrefixOf, Busy
    <2>3. SettingsOK'
      BY <2>1, SettingsParts DEF SettingsOK, ValuesAccepted
    <2>4. QED
      BY <2>1, <2>2, <2>3 DEF IInv, TypeOK, SettingsOK, ClientOK, AppliedPrefix, PrefixOf
  <1>3. QED
    BY <1>1, <1>2 DEF Next

\* IInv holds in every reachable state.
THEOREM IInvariant == Spec => []IInv
  BY InitIInv, StepIInv, PTL DEF Spec

\* Every variable of the setParameter model keeps its type: in particular
\* the map the set loop walks holds only runtime parameters and BSON
\* elements, and allowCommands is a list of command names.
THEOREM TypeCorrect == Spec => []TypeOK
  BY IInvariant, PTL DEF IInv

\* SERVER-8552: whatever clients interleave, a setParameter command that
\* failed set exactly the parameters of its own that sort before the one
\* that failed, and a command rejected by validation set none.
THEOREM AppliedPrefixTheorem == Spec => []AppliedPrefix
  BY IInvariant, PTL DEF IInv

\* No value a set() handler rejects (a negative level or limit, an
\* over-long descriptor, a list naming a command that is not a disable
\* command) is ever what getParameter reports.
THEOREM ValuesAcceptedTheorem == Spec => []ValuesAccepted
  BY IInvariant, PTL DEF IInv

-----------------------------------------------------------------------------
(* The action property: the step that fails a command changes no setting.  *)

\* What FailedSetChangesNothing asks of one client's step.
FailsCleanly(c) ==
    status[c] = "none" /\ status'[c] \notin {"none", "OK"} => UNCHANGED settings

\* A set() that returned OK ends the command with OK or leaves it running.
LEMMA SetDoneStatus ==
    ASSUME TypeOK, NEW c \in Clients, SetDone(c), status[c] = "none"
    PROVE  status'[c] \in {"none", "OK"}
  BY DEF SetDone, TypeOK

\* A step of client c leaves every other client's outcome alone.
LEMMA OthersStatus ==
    ASSUME TypeOK, NEW c \in Clients, Client(c), NEW d \in Clients \ {c}
    PROVE  status'[d] = status[d]
  <1>1. \/ UNCHANGED status
        \/ \E v : status' = [status EXCEPT ![c] = v]
    BY DEF Client, Validate, SetDone, SetFailed, SetLogLevel, SetLogComponentVerbosity,
       SetReadOnly, SetIsImplicitCreateCol, SetAutomationServiceDescriptor,
       SetAllowCommands, SetMaxNumConnections, PublishMaxConns
  <1>2. QED
    BY <1>1 DEF TypeOK

\* Every handler either stores after its checks passed (SetDone) or fails
\* with its setting untouched; the first half of the connection limits
\* stores with the command still running.
LEMMA OwnFailure ==
    ASSUME TypeOK, NEW c \in Clients, Client(c)
    PROVE  FailsCleanly(c)
  <1> SUFFICES ASSUME status[c] = "none", status'[c] \notin {"none", "OK"}
               PROVE  UNCHANGED settings
    BY DEF FailsCleanly
  <1>1. ~SetDone(c)
    BY SetDoneStatus
  <1>2. CASE Validate(c)
    BY <1>2 DEF Validate
  <1>3. CASE SetLogLevel(c)
    BY <1>1, <1>3 DEF SetLogLevel, SetFailed, settings
  <1>4. CASE SetLogComponentVerbosity(c)
    BY <1>1, <1>4 DEF SetLogComponentVerbosity, SetFailed, settings
  <1>5. CASE SetReadOnly(c)
    BY <1>1, <1>5 DEF SetReadOnly, SetFailed, settings
  <1>6. CASE SetIsImplicitCreateCol(c)
    BY <1>1, <1>6 DEF SetIsImplicitCreateCol, SetFailed, settings
  <1>7. CASE SetAutomationServiceDescriptor(c)
    BY <1>1, <1>7 DEF SetAutomationServiceDescriptor, SetFailed, settings
  <1>8. CASE SetAllowCommands(c)
    BY <1>1, <1>8 DEF SetAllowCommands, SetFailed, settings
  <1>9. CASE SetMaxNumConnections(c)
    \* the stored half keeps the command running, so it is not this step
    <2>1. ~(UNCHANGED status)
      OBVIOUS
    <2>2. QED
      BY <1>9, <2>1 DEF SetMaxNumConnections, SetFailed, settings
  <1>10. CASE PublishMaxConns(c)
    BY <1>1, <1>10 DEF PublishMaxConns
  <1>11. QED
    BY <1>2, <1>3, <1>4, <1>5, <1>6, <1>7, <1>8, <1>9, <1>10 DEF Client

LEMMA FailsCleanlyStep ==
    ASSUME TypeOK, [Next]_vars
    PROVE  [\A c \in Clients : FailsCleanly(c)]_vars
  <1>1. CASE \E c \in Clients : Client(c)
    <2>1. PICK c \in Clients : Client(c)
      BY <1>1
    <2>2. \A d \in Clients \ {c} : FailsCleanly(d)
      BY <2>1, OthersStatus DEF FailsCleanly
    <2>3. QED
      BY <2>1, <2>2, OwnFailure
  <1>2. CASE UNCHANGED vars
    BY <1>2
  <1>3. QED
    BY <1>1, <1>2 DEF Next

\* For any number of clients and commands, the step in which setParameter
\* fails (validation in errmsgRun, or the uassertStatusOK of a set() that
\* returned an error) leaves every setting as it was: each handler checks
\* the element before it stores it, and the connection limits' entry point
\* refuses before serverGlobalParams.maxConns is written.
THEOREM FailedSetTheorem == Spec => FailedSetChangesNothing
  <1>1. TypeOK /\ [Next]_vars => [\A c \in Clients : FailsCleanly(c)]_vars
    BY FailsCleanlyStep
  <1>2. QED
    BY <1>1, TypeCorrect, PTL DEF Spec, FailedSetChangesNothing, FailsCleanly

=============================================================================
