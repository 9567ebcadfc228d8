---------------------------- MODULE SignatureProofs ----------------------------
(***************************************************************************)
(* Proofs about SignatureGenerator: its type invariant, that the lookup    *)
(* and what is printed are right in whichever table the program was built  *)
(* with, and that the script reads the headers as C does and makes of them *)
(* the table it is to make.                                                *)
(***************************************************************************)
EXTENDS SignatureGenerator, SequenceTheorems, FiniteSetTheorems, TLAPS

(* The order of names that std::string_view and Python's sorted have.      *)
StrictOrder ==
    /\ \A a \in Names : ~Less(a, a)
    /\ \A a, b, c \in Names : Less(a, b) /\ Less(b, c) => Less(a, c)

-----------------------------------------------------------------------------
(* The type invariant.  What it rests on: the positions in output are      *)
(* those of prototypes, in the headers that are being read, and a lookup   *)
(* only runs in the built program.                                         *)

IsPrototype(position) ==
    /\ position[1] \in DOMAIN headers
    /\ position[2] \in DOMAIN headers[position[1]]
    /\ LineAt(position).Directive = "none"

OutputOK ==
    /\ phase \notin {"filter", "extract"} => output = <<>>
    /\ \A i \in DOMAIN output : IsPrototype(output[i])

LookupWhenReady == pc # "idle" => phase = "ready"

TypeInv == TypeOK /\ OutputOK /\ LookupWhenReady


\* The current line, while one is read.
LEMMA CurrentLine ==
    ASSUME TypeInv, NEW directive, Reading(directive)
    PROVE  /\ header \in DOMAIN headers /\ line \in DOMAIN headers[header]
           /\ Current \in Line /\ Current.Directive = directive
           /\ directive # "none" => Current.Condition \in BOOLEAN
  <1>1. header \in DOMAIN headers /\ headers[header] \in Seq(Line)
    BY DEF TypeInv, TypeOK, Reading, Header
  <1>2. line \in DOMAIN headers[header] /\ Current \in Line
    BY <1>1 DEF TypeInv, TypeOK, Reading, Current
  <1>3. Current.Directive = directive
    BY DEF Reading
  <1>4. directive # "none" => Current.Condition \in BOOLEAN
    BY <1>2, <1>3 DEF Line
  <1> QED
    BY <1>1, <1>2, <1>3, <1>4

\* A step that leaves the table and the lookup alone.
LEMMA LookupUntouched ==
    ASSUME LookupTypeOK, UNCHANGED <<registrations, lookupVars>>
    PROVE  LookupTypeOK'
  BY DEF LookupTypeOK, lookupVars, Positions

LEMMA TypeInit == Init => TypeInv
  <1> SUFFICES ASSUME Init PROVE TypeInv
    OBVIOUS
  <1>1. headers \in Seq(Header) /\ exports \subseteq Names /\ registrations \in Seq(SignatureRegistration)
    <2>1. HeaderSets \subseteq Seq(Header) /\ <<>> \in Seq(Header)
          /\ <<>> \in Seq(SignatureRegistration) /\ Shipped \in Seq(SignatureRegistration)
          /\ \A e \in ExportSets \cup {ShippedExports} : e \subseteq Names
      BY GeneratorAssumption
    <2> QED
      BY <2>1 DEF Init
  <1>2. LookupTypeOK
    BY <1>1 DEF Init, AtRest, NoEvent, LookupTypeOK
  <1>3. OutputOK /\ LookupWhenReady
    BY DEF Init, AtRest, ScriptAtRest, OutputOK, LookupWhenReady
  <1>4. activeStack \in Seq(BOOLEAN) /\ branchStack \in Seq(BOOLEAN \X BOOLEAN)
        /\ Len(activeStack) = Len(branchStack) + 1
    BY DEF Init, ScriptAtRest
  <1>5. phase \in Phases /\ left \subseteq exports /\ header \in Nat \ {0} /\ line \in Nat \ {0}
        /\ output \in Seq(Nat \X Nat)
    BY DEF Init, ScriptAtRest, Phases
  <1>6. DOMAIN prototypes = {}
    BY DEF Init, ScriptAtRest
  <1> QED
    BY <1>1, <1>2, <1>3, <1>4, <1>5, <1>6 DEF TypeInv, TypeOK

LEMMA Pushed ==
    ASSUME NEW S, NEW stack \in Seq(S), NEW x \in S
    PROVE  Push(x, stack) \in Seq(S) /\ Len(Push(x, stack)) = Len(stack) + 1
  BY DEF Push

LEMMA FilterTypes == TypeInv /\ Filter => TypeInv'
  <1> SUFFICES ASSUME TypeInv, Filter PROVE TypeInv'
    OBVIOUS
  <1> USE DEF TypeInv
  <1>1. LookupTypeOK' /\ LookupWhenReady' /\ phase' = "filter" /\ phase = "filter"
        /\ UNCHANGED <<headers, exports, left, prototypes>>
    BY LookupUntouched
       DEF TypeOK, LookupWhenReady, lookupVars, Filter, KeepLine, DropLine, If, Elif, Else, Endif,
           Stray, NextHeader, NextLine, Reading
  <1>2. header' \in Nat \ {0} /\ line' \in Nat \ {0}
    <2>1. header \in Nat \ {0} /\ line \in Nat \ {0}
      BY DEF TypeOK
    <2>2. \/ header' = header /\ line' = line + 1
          \/ header' = header + 1 /\ line' = 1
      BY DEF Filter, KeepLine, DropLine, If, Elif, Else, Endif, Stray, NextHeader, NextLine
    <2> QED
      BY <2>1, <2>2
  <1>3. output' \in Seq(Nat \X Nat) /\ OutputOK'
    <2>1. CASE KeepLine
      <3>1. IsPrototype(<<header, line>>)
        BY <2>1, CurrentLine DEF KeepLine, IsPrototype, LineAt, Current
      <3>2. output' = Append(output, <<header, line>>)
        BY <2>1 DEF KeepLine
      <3>3. output' \in Seq(Nat \X Nat)
        BY <3>2 DEF TypeOK
      <3>4. \A i \in DOMAIN output' : IsPrototype(output'[i])
        BY <3>1, <3>2 DEF TypeOK, OutputOK
      <3> QED
        BY <1>1, <3>3, <3>4 DEF OutputOK, IsPrototype, LineAt
    <2>2. CASE ~KeepLine
      <3>1. output' = output
        BY <2>2 DEF Filter, DropLine, If, Elif, Else, Endif, Stray, NextHeader
      <3> QED
        BY <1>1, <3>1 DEF TypeOK, OutputOK, IsPrototype, LineAt
    <2> QED
      BY <2>1, <2>2
  <1>4. /\ activeStack' \in Seq(BOOLEAN) /\ branchStack' \in Seq(BOOLEAN \X BOOLEAN)
        /\ Len(activeStack') = Len(branchStack') + 1
    <2>1. /\ activeStack \in Seq(BOOLEAN) /\ branchStack \in Seq(BOOLEAN \X BOOLEAN)
          /\ Len(activeStack) = Len(branchStack) + 1
      BY DEF TypeOK
    <2>2. CASE If
      <3>1. Reading("if")
        BY <2>2 DEF If
      <3>2. Current.Condition \in BOOLEAN
        BY <3>1, CurrentLine
      <3>3. Head(activeStack) \in BOOLEAN
        BY <2>1
      <3>4. <<Head(activeStack), Current.Condition>> \in BOOLEAN \X BOOLEAN
            /\ (Head(activeStack) /\ Current.Condition) \in BOOLEAN
        BY <3>2, <3>3
      <3>5. branchStack' = Push(<<Head(activeStack), Current.Condition>>, branchStack)
            /\ activeStack' = Push(Head(activeStack) /\ Current.Condition, activeStack)
        BY <2>2 DEF If
      <3>6. branchStack' \in Seq(BOOLEAN \X BOOLEAN) /\ Len(branchStack') = Len(branchStack) + 1
        BY <2>1, <3>4, <3>5, Pushed, Zenon
      <3>7. activeStack' \in Seq(BOOLEAN) /\ Len(activeStack') = Len(activeStack) + 1
        BY <2>1, <3>4, <3>5, Pushed, Zenon
      <3> QED
        BY <2>1, <3>6, <3>7
    <2>3. ASSUME NEW c \in BOOLEAN, branchStack # <<>>, Branch(c)
          PROVE  /\ activeStack' \in Seq(BOOLEAN) /\ branchStack' \in Seq(BOOLEAN \X BOOLEAN)
                 /\ Len(activeStack') = Len(branchStack') + 1
      <3>1. ParentActive \in BOOLEAN /\ BranchTaken \in BOOLEAN
        BY <2>1, <2>3 DEF ParentActive, BranchTaken
      <3>2. <<ParentActive, BranchTaken \/ c>> \in BOOLEAN \X BOOLEAN
            /\ (ParentActive /\ NewBranch(c)) \in BOOLEAN
        BY <3>1
      <3>3. Tail(branchStack) \in Seq(BOOLEAN \X BOOLEAN) /\ Tail(activeStack) \in Seq(BOOLEAN)
            /\ Len(Tail(activeStack)) = Len(Tail(branchStack)) + 1
        BY <2>1, <2>3
      <3>4. branchStack' = Push(<<ParentActive, BranchTaken \/ c>>, Tail(branchStack))
            /\ activeStack' = Push(ParentActive /\ NewBranch(c), Tail(activeStack))
        BY <2>3 DEF Branch
      <3>5. branchStack' \in Seq(BOOLEAN \X BOOLEAN) /\ Len(branchStack') = Len(Tail(branchStack)) + 1
        BY <3>2, <3>3, <3>4, Pushed, Zenon
      <3>6. activeStack' \in Seq(BOOLEAN) /\ Len(activeStack') = Len(Tail(activeStack)) + 1
        BY <3>2, <3>3, <3>4, Pushed, Zenon
      <3> QED
        BY <3>3, <3>5, <3>6
    <2>4. CASE Elif
      BY <2>3, <2>4, CurrentLine DEF Elif
    <2>5. CASE Else
      BY <2>3, <2>5 DEF Else
    <2>6. CASE Endif
      BY <2>1, <2>6 DEF Endif
    <2>7. CASE NextHeader
      BY <2>7 DEF NextHeader
    <2>8. CASE KeepLine \/ DropLine \/ Stray
      BY <2>1, <2>8 DEF KeepLine, DropLine, Stray
    <2> QED
      BY <2>2, <2>4, <2>5, <2>6, <2>7, <2>8 DEF Filter
  <1>5. /\ phase' \in Phases /\ headers' \in Seq(Header) /\ exports' \subseteq Names
        /\ left' \subseteq exports' /\ DOMAIN prototypes' \subseteq Names
        /\ \A n \in DOMAIN prototypes' : prototypes'[n] \in Seq(Types)
    BY <1>1 DEF TypeOK
  <1> QED
    BY <1>1, <1>2, <1>3, <1>4, <1>5 DEF TypeOK

LEMMA HalfInRange ==
    ASSUME count \in Nat, count > 0
    PROVE  Half \in Nat /\ Half < count
  BY DEF Half

LEMMA LookupTypes == TypeInv /\ Lookup => TypeInv'
  <1> SUFFICES ASSUME TypeInv, Lookup PROVE TypeInv'
    OBVIOUS
  <1> USE DEF TypeInv
  <1>1. UNCHANGED <<phase, headers, exports, scriptVars, registrations>> /\ phase = "ready"
    BY DEF Lookup, LookupStep, FindGeneratedSyscallSignature, SearchUpperHalf, SearchLowerHalf,
           EndSearch, PrintArguments, Return
  <1>2. LookupTypeOK'
    <2> USE DEF LookupTypeOK, Positions
    <2>1. LookupTypeOK
      BY DEF TypeOK
    <2>2. ASSUME NEW name \in exports, FindGeneratedSyscallSignature(name)
          PROVE  LookupTypeOK'
      BY <2>1, <2>2 DEF FindGeneratedSyscallSignature, TypeOK
    <2>3. CASE SearchUpperHalf
      BY <2>1, <2>3, HalfInRange DEF SearchUpperHalf, Searching, Middle, BehindMiddle
    <2>4. CASE SearchLowerHalf
      BY <2>1, <2>4, HalfInRange DEF SearchLowerHalf, Searching
    <2>5. CASE EndSearch
      <3>1. signature' = NoSignature \/ \E i \in Positions : signature' = registrations[i]
        BY <2>1, <2>5 DEF EndSearch, Matches, Row
      <3> QED
        BY <2>1, <2>5, <3>1, <1>1 DEF EndSearch
    <2>6. ASSUME NEW call \in {functionName} \cup OtherCalls,
                 NEW query \in {functionName, NoSignature}, PrintArguments(call, query)
          PROVE  LookupTypeOK'
      <3>1. functionName \in Names /\ call \in Names
        BY <2>1, <2>6, LookupAssumption DEF PrintArguments
      <3>2. event'.Call = call /\ event'.Query = query
        BY <2>6 DEF PrintArguments
      <3> QED
        BY <2>1, <2>6, <3>1, <3>2 DEF PrintArguments
    <2>7. CASE Return
      BY <2>1, <2>7 DEF Return, NoEvent
    <2> QED
      BY <2>2, <2>3, <2>4, <2>5, <2>6, <2>7 DEF Lookup, LookupStep
  <1>3. OutputOK' /\ LookupWhenReady'
    BY <1>1 DEF OutputOK, LookupWhenReady, IsPrototype, LineAt, scriptVars, readVars
  <1> QED
    BY <1>1, <1>2, <1>3 DEF TypeOK, scriptVars, readVars

LEMMA BuildTypes == TypeInv /\ Build => TypeInv'
  <1> SUFFICES ASSUME TypeInv, Build PROVE TypeInv'
    OBVIOUS
  <1> USE DEF TypeInv
  <1>1. CASE EndFilter \/ EndEntries \/ CompileFails
    <2>1. UNCHANGED <<registrations, lookupVars, headers, exports, scriptVars>>
      BY <1>1 DEF EndFilter, EndEntries, CompileFails
    <2>2. phase' \in Phases /\ OutputOK' /\ LookupWhenReady'
      BY <1>1, <2>1 DEF EndFilter, EndEntries, CompileFails, Phases, OutputOK, LookupWhenReady,
             lookupVars, scriptVars, IsPrototype, LineAt
    <2> QED
      BY <2>1, <2>2, LookupUntouched DEF TypeOK, scriptVars, readVars
  <1>2. CASE ExtractPrototype
    <2>1. UNCHANGED <<registrations, lookupVars, phase, headers, exports, readVars, left>>
          /\ phase = "extract" /\ output # <<>> /\ output' = Tail(output)
      BY <1>2 DEF ExtractPrototype
    <2>2. output' \in Seq(Nat \X Nat) /\ OutputOK'
      <3>1. output \in Seq(Nat \X Nat) /\ \A i \in DOMAIN output : IsPrototype(output[i])
        BY DEF TypeOK, OutputOK
      <3>2. output' \in Seq(Nat \X Nat)
            /\ \A i \in DOMAIN output' : i + 1 \in DOMAIN output /\ output'[i] = output[i + 1]
        BY <2>1, <3>1
      <3>3. \A i \in DOMAIN output' : IsPrototype(output'[i])
        BY <3>1, <3>2
      <3> QED
        BY <2>1, <3>2, <3>3 DEF OutputOK, IsPrototype, LineAt
    <2>3. IsPrototype(Head(output))
      BY <2>1 DEF TypeOK, OutputOK
    <2>4. LineAt(Head(output)).Name \in Names /\ LineAt(Head(output)).Types \in Seq(Types)
      <3>1. headers[Head(output)[1]] \in Seq(Line)
        BY <2>3 DEF TypeOK, IsPrototype, Header
      <3>2. LineAt(Head(output)) \in Line /\ LineAt(Head(output)).Directive = "none"
        BY <2>3, <3>1 DEF IsPrototype, LineAt
      <3> QED
        BY <3>2 DEF Line, Directives
    <2>5. /\ DOMAIN prototypes' \subseteq Names
          /\ \A n \in DOMAIN prototypes' : prototypes'[n] \in Seq(Types)
      BY <1>2, <2>4 DEF ExtractPrototype, New, TypeOK
    <2>6. LookupWhenReady'
      BY <2>1 DEF LookupWhenReady, lookupVars
    <2> QED
      BY <2>1, <2>2, <2>5, <2>6, LookupUntouched DEF TypeOK, readVars
  <1>3. CASE EndExtract
    <2>1. UNCHANGED <<registrations, lookupVars, headers, exports, readVars, output, prototypes>>
          /\ phase' = "entries" /\ left' = exports /\ output = <<>> /\ phase = "extract"
      BY <1>3 DEF EndExtract
    <2>2. OutputOK' /\ LookupWhenReady' /\ phase' \in Phases
      BY <2>1 DEF OutputOK, LookupWhenReady, lookupVars, Phases
    <2> QED
      BY <2>1, <2>2, LookupUntouched DEF TypeOK, readVars
  <1>4. ASSUME NEW export \in left, AddEntry(export) \/ SkipEntry(export)
        PROVE  TypeInv'
    <2>1. UNCHANGED <<lookupVars, phase, headers, exports, readVars, output, prototypes>>
          /\ phase = "entries" /\ left' = left \ {export}
      BY <1>4 DEF AddEntry, SkipEntry, Visit
    <2>2. OutputOK' /\ LookupWhenReady'
      BY <2>1 DEF OutputOK, LookupWhenReady, lookupVars, IsPrototype, LineAt
    <2>3. LookupTypeOK'
      <3>1. CASE SkipEntry(export)
        BY <2>1, <3>1, LookupUntouched DEF SkipEntry, TypeOK
      <3>2. CASE AddEntry(export)
        <4>1. pc = "idle"
          BY <2>1 DEF LookupWhenReady
        <4>2. /\ TypeSource(export) \in DOMAIN prototypes
              /\ registrations' = Append(registrations,
                     <<export, TypeSource(export), prototypes[TypeSource(export)]>>)
          BY <3>2 DEF AddEntry, HasPrototype
        <4>3. <<export, TypeSource(export), prototypes[TypeSource(export)]>> \in SignatureRegistration
          BY <4>2 DEF TypeOK, SignatureRegistration
        <4>4. registrations \in Seq(SignatureRegistration)
          BY DEF TypeOK, LookupTypeOK
        <4>5. /\ registrations' \in Seq(SignatureRegistration)
              /\ Len(registrations') = Len(registrations) + 1
              /\ \A i \in 1 .. Len(registrations) : registrations'[i] = registrations[i]
          BY <4>2, <4>3, <4>4
        <4> QED
          BY <2>1, <4>1, <4>4, <4>5 DEF TypeOK, LookupTypeOK, lookupVars, Positions
      <3> QED
        BY <1>4, <3>1, <3>2
    <2> QED
      BY <2>1, <2>2, <2>3 DEF TypeOK, readVars
  <1>5. CASE UpdateHeaders
    <2>1. UNCHANGED <<registrations, lookupVars, exports, scriptVars>>
          /\ phase = "written" /\ phase' = "updated" /\ headers' \in Updates \cup {headers}
      BY <1>5 DEF UpdateHeaders
    <2>2. output = <<>> /\ headers' \in Seq(Header)
      BY <2>1, GeneratorAssumption DEF OutputOK, TypeOK
    <2>3. OutputOK' /\ LookupWhenReady' /\ phase' \in Phases
      BY <2>1, <2>2 DEF OutputOK, LookupWhenReady, lookupVars, scriptVars, Phases
    <2> QED
      BY <2>1, <2>2, <2>3, LookupUntouched DEF TypeOK, scriptVars, readVars
  <1>6. CASE Compile
    <2>1. UNCHANGED <<registrations, lookupVars, headers>>
          /\ phase' = "ready" /\ exports' \in ExportSets
          /\ header' = 1 /\ line' = 1 /\ activeStack' = <<TRUE>> /\ branchStack' = <<>>
          /\ output' = <<>> /\ prototypes' = <<>> /\ left' = {}
      BY <1>6 DEF Compile
    <2>2. OutputOK' /\ LookupWhenReady' /\ phase' \in Phases
      BY <2>1 DEF OutputOK, LookupWhenReady, Phases
    <2>3. /\ activeStack' \in Seq(BOOLEAN) /\ branchStack' \in Seq(BOOLEAN \X BOOLEAN)
          /\ Len(activeStack') = Len(branchStack') + 1
          /\ output' \in Seq(Nat \X Nat) /\ DOMAIN prototypes' = {}
      BY <2>1
    <2>4. exports' \subseteq Names /\ left' \subseteq exports'
      BY <2>1, GeneratorAssumption
    <2> QED
      BY <2>1, <2>2, <2>3, <2>4, LookupUntouched DEF TypeOK
  <1> QED
    BY <1>1, <1>2, <1>3, <1>4, <1>5, <1>6 DEF Build

LEMMA TypeStep == TypeInv /\ [Next]_vars => TypeInv'
  <1>1. TypeInv /\ UNCHANGED vars => TypeInv'
    BY LookupUntouched
       DEF TypeInv, TypeOK, OutputOK, LookupWhenReady, IsPrototype, LineAt, vars, lookupVars,
           scriptVars, readVars
  <1> QED
    BY <1>1, FilterTypes, BuildTypes, LookupTypes DEF Next, Failed

(* The counters and stacks of the script and of the search stay within     *)
(* their types: above all the two stacks of filter_active_lines, which are *)
(* read at their ends without a test, never differ by other than one.      *)
THEOREM SignatureTypes == Spec => []TypeOK
  <1>1. TypeInv => TypeOK
    BY DEF TypeInv
  <1> QED
    BY TypeInit, TypeStep, <1>1, PTL DEF Spec

-----------------------------------------------------------------------------
(* The table stays sorted while it is generated, since the exports are     *)
(* visited in order, and the search keeps the name it looks for within its *)
(* range: what is before the range is less, what is behind it is not.      *)

TableInv ==
    /\ SortedBy(registrations)
    /\ phase \in {"filter", "extract"} => registrations = <<>>
    /\ phase = "entries" =>
          \A i \in Positions : \A e \in left : Less(Name(registrations[i]), e)

SearchInv ==
    pc = "search" =>
        /\ \A i \in Positions : i <= first => Less(Name(registrations[i]), functionName)
        /\ \A i \in Positions : i > first + count => ~Less(Name(registrations[i]), functionName)

LEMMA NamesOfRows ==
    ASSUME TypeInv, NEW i \in Positions
    PROVE  Name(registrations[i]) \in Names
  BY DEF TypeInv, TypeOK, LookupTypeOK, Positions, SignatureRegistration, Name

LEMMA TableInit == Init => TableInv
  <1> SUFFICES ASSUME Init PROVE TableInv
    OBVIOUS
  <1>1. CASE registrations = <<>>
    BY <1>1 DEF Init, TableInv, SortedBy, Positions
  <1>2. CASE registrations = Shipped /\ phase = "ready"
    BY <1>2, ShippedAssumption DEF TableInv
  <1> QED
    BY <1>1, <1>2 DEF Init

LEMMA TableStep ==
    ASSUME TypeInv, TableInv, [Next]_vars
    PROVE  TableInv'
  <1>1. ASSUME NEW export \in left, AddEntry(export)
        PROVE  TableInv'
    <2> DEFINE row == <<export, TypeSource(export), prototypes[TypeSource(export)]>>
    <2>1. /\ phase = "entries" /\ phase' = "entries" /\ left' = left \ {export}
          /\ Least(export, left) /\ registrations' = Append(registrations, row)
      BY <1>1 DEF AddEntry, Visit
    <2>2. /\ Len(registrations') = Len(registrations) + 1
          /\ Len(registrations) \in Nat
          /\ registrations'[Len(registrations) + 1] = row
          /\ \A i \in Positions : registrations'[i] = registrations[i]
          /\ DOMAIN registrations = Positions
          /\ DOMAIN registrations' = Positions' /\ Positions' = 1 .. Len(registrations) + 1
      BY <2>1 DEF TypeInv, TypeOK, LookupTypeOK, Positions
    <2>3. Name(row) = export
      BY DEF Name
    <2> HIDE DEF row
    <2>4. \A i \in Positions : \A e \in left : Less(Name(registrations[i]), e)
      BY <2>1 DEF TableInv
    <2>5. SortedBy(registrations')
      <3> SUFFICES ASSUME NEW i \in Positions', NEW j \in Positions', i < j
                   PROVE  Less(Name(registrations'[i]), Name(registrations'[j]))
        BY <2>2 DEF SortedBy
      <3>1. i \in Positions /\ registrations'[i] = registrations[i]
        BY <2>2 DEF Positions
      <3>2. CASE j \in Positions
        BY <2>2, <3>1, <3>2 DEF TableInv, SortedBy
      <3>3. CASE j \notin Positions
        <4>1. registrations'[j] = row
          BY <2>2, <3>3 DEF Positions
        <4> QED
          BY <2>3, <2>4, <3>1, <4>1
      <3> QED
        BY <3>2, <3>3
    <2>6. \A i \in Positions' : \A e \in left' : Less(Name(registrations'[i]), e)
      <3> SUFFICES ASSUME NEW i \in Positions', NEW e \in left'
                   PROVE  Less(Name(registrations'[i]), e)
        OBVIOUS
      <3>1. CASE i \in Positions
        BY <2>1, <2>2, <2>4, <3>1
      <3>2. CASE i \notin Positions
        <4>1. registrations'[i] = row
          BY <2>2, <3>2 DEF Positions
        <4>2. Less(export, e)
          BY <2>1 DEF Least
        <4> QED
          BY <2>3, <4>1, <4>2
      <3> QED
        BY <3>1, <3>2
    <2> QED
      BY <2>1, <2>5, <2>6 DEF TableInv
  <1>2. ASSUME NEW export \in left, SkipEntry(export)
        PROVE  TableInv'
    BY <1>2 DEF SkipEntry, Visit, TableInv, Positions
  <1>3. CASE Build /\ ~\E export \in left : AddEntry(export) \/ SkipEntry(export)
    <2>1. UNCHANGED registrations
      BY <1>3 DEF Build, EndFilter, ExtractPrototype, EndExtract, EndEntries, UpdateHeaders,
                  Compile, CompileFails
    <2>2. phase' \in {"filter", "extract", "entries"} => phase \in {"filter", "extract"}
      BY <1>3 DEF Build, EndFilter, ExtractPrototype, EndExtract, EndEntries, UpdateHeaders,
                  Compile, CompileFails
    <2> QED
      BY <2>1, <2>2 DEF TableInv, Positions
  <1>4. CASE Filter
    BY <1>4 DEF Filter, KeepLine, DropLine, If, Elif, Else, Endif, Stray, NextHeader, NextLine,
                TableInv, Positions
  <1>5. CASE Lookup
    <2>1. UNCHANGED <<registrations, phase, left>>
      BY <1>5 DEF Lookup, LookupStep, FindGeneratedSyscallSignature, SearchUpperHalf,
                  SearchLowerHalf, EndSearch, PrintArguments, Return, scriptVars
    <2> QED
      BY <2>1 DEF TableInv, Positions
  <1>6. CASE UNCHANGED vars
    BY <1>6 DEF vars, scriptVars, TableInv, Positions
  <1> QED
    BY <1>1, <1>2, <1>3, <1>4, <1>5, <1>6 DEF Next, Build, Failed

LookupInv == TypeInv /\ TableInv /\ SearchInv /\ LookupRight

LEMMA RowIsRegistration ==
    ASSUME TypeInv, pc = "search", NEW k \in Nat, k < Len(registrations)
    PROVE  k + 1 \in Positions /\ Row(k) = registrations[k + 1]
  BY DEF TypeInv, TypeOK, LookupTypeOK, Positions, Row

LEMMA SearchUpper ==
    ASSUME StrictOrder, LookupInv, SearchUpperHalf
    PROVE  SearchInv'
  <1>1. /\ pc = "search" /\ count > 0 /\ first \in Nat /\ count \in Nat
        /\ first + count <= Len(registrations) /\ Len(registrations) \in Nat
        /\ functionName \in Names
    BY DEF SearchUpperHalf, Searching, LookupInv, TypeInv, TypeOK, LookupTypeOK
  <1>2. /\ Less(Name(Row(Middle)), functionName)
        /\ first' = Middle + 1 /\ count' = BehindMiddle
        /\ UNCHANGED <<registrations, pc, functionName>>
    BY DEF SearchUpperHalf
  <1>3. /\ Middle \in Nat /\ Middle < Len(registrations) /\ first' + count' = first + count
    BY <1>1, <1>2, HalfInRange DEF Middle, BehindMiddle
  <1>4. Middle + 1 \in Positions /\ Less(Name(registrations[Middle + 1]), functionName)
    BY <1>1, <1>2, <1>3, RowIsRegistration DEF LookupInv
  <1>5. ASSUME NEW i \in Positions, i <= Middle + 1
        PROVE  Less(Name(registrations[i]), functionName)
    <2>1. CASE i = Middle + 1
      BY <1>4, <2>1
    <2>2. CASE i < Middle + 1
      <3>1. Less(Name(registrations[i]), Name(registrations[Middle + 1]))
        BY <1>4, <2>2 DEF LookupInv, TypeInv, TypeOK, LookupTypeOK, TableInv, SortedBy, Positions
      <3>2. Name(registrations[i]) \in Names /\ Name(registrations[Middle + 1]) \in Names
        BY <1>4, NamesOfRows DEF LookupInv
      <3> QED
        BY <1>1, <1>4, <3>1, <3>2 DEF StrictOrder
    <2> QED
      BY <1>3, <1>5, <2>1, <2>2 DEF Positions
  <1>6. \A i \in Positions : i > first + count => ~Less(Name(registrations[i]), functionName)
    BY <1>1 DEF LookupInv, SearchInv
  <1> QED
    BY <1>2, <1>3, <1>5, <1>6 DEF SearchInv, Positions

LEMMA SearchLower ==
    ASSUME StrictOrder, LookupInv, SearchLowerHalf
    PROVE  SearchInv'
  <1>1. /\ pc = "search" /\ count > 0 /\ first \in Nat /\ count \in Nat
        /\ first + count <= Len(registrations) /\ Len(registrations) \in Nat
        /\ functionName \in Names
    BY DEF SearchLowerHalf, Searching, LookupInv, TypeInv, TypeOK, LookupTypeOK
  <1>2. /\ ~Less(Name(Row(Middle)), functionName) /\ count' = Half
        /\ UNCHANGED <<registrations, pc, functionName, first>>
    BY DEF SearchLowerHalf
  <1>3. /\ Middle \in Nat /\ Middle < Len(registrations) /\ first' + count' = Middle
    BY <1>1, <1>2, HalfInRange DEF Middle
  <1>4. Middle + 1 \in Positions /\ ~Less(Name(registrations[Middle + 1]), functionName)
    BY <1>1, <1>2, <1>3, RowIsRegistration DEF LookupInv
  <1>5. ASSUME NEW i \in Positions, i > Middle
        PROVE  ~Less(Name(registrations[i]), functionName)
    <2>1. CASE i = Middle + 1
      BY <1>4, <2>1
    <2>2. CASE i > Middle + 1
      <3>1. Less(Name(registrations[Middle + 1]), Name(registrations[i]))
        BY <1>4, <2>2 DEF LookupInv, TypeInv, TypeOK, LookupTypeOK, TableInv, SortedBy, Positions
      <3>2. Name(registrations[i]) \in Names /\ Name(registrations[Middle + 1]) \in Names
        BY <1>4, NamesOfRows DEF LookupInv
      <3> QED
        BY <1>1, <1>4, <3>1, <3>2 DEF StrictOrder
    <2> QED
      BY <1>3, <1>5, <2>1, <2>2 DEF Positions
  <1>6. \A i \in Positions : i <= first => Less(Name(registrations[i]), functionName)
    BY <1>1 DEF LookupInv, SearchInv
  <1> QED
    BY <1>2, <1>3, <1>5, <1>6 DEF SearchInv, Positions

LEMMA SearchEnds ==
    ASSUME StrictOrder, LookupInv, EndSearch
    PROVE  LookupRight'
  <1>1. /\ pc = "search" /\ count = 0 /\ first \in Nat /\ first <= Len(registrations)
        /\ Len(registrations) \in Nat /\ functionName \in Names
    BY DEF EndSearch, LookupInv, TypeInv, TypeOK, LookupTypeOK
  <1>2. /\ signature' = IF Matches THEN Row(first) ELSE NoSignature
        /\ UNCHANGED <<registrations, functionName>>
    BY DEF EndSearch
  <1>3. CASE Matches
    <2>1. signature' = Row(first) /\ Name(Row(first)) = functionName
      BY <1>2, <1>3 DEF Matches
    <2>2. Row(first) \in SignatureRegistration
      BY <1>1, <1>3 DEF Matches, Row, LookupInv, TypeInv, TypeOK, LookupTypeOK
    <2> QED
      BY <2>1, <2>2, <1>2, GeneratorAssumption DEF LookupRight
  <1>4. CASE ~Matches
    <2>1. ASSUME NEW i \in Positions, Name(registrations[i]) = functionName
          PROVE  FALSE
      <3>1. CASE i <= first
        BY <1>1, <2>1, <3>1 DEF LookupInv, SearchInv, StrictOrder
      <3>2. CASE i > first
        <4>1. first < Len(registrations) /\ first + 1 \in Positions
          BY <1>1, <3>2 DEF Positions
        <4>2. Name(registrations[first + 1]) # functionName
              /\ ~Less(Name(registrations[first + 1]), functionName)
          BY <1>1, <1>4, <4>1 DEF Matches, Row, LookupInv, SearchInv
        <4>3. i > first + 1
          BY <1>1, <2>1, <3>2, <4>2 DEF Positions
        <4>4. Less(Name(registrations[first + 1]), Name(registrations[i]))
          BY <4>1, <4>3 DEF LookupInv, TypeInv, TypeOK, LookupTypeOK, TableInv, SortedBy, Positions
        <4> QED
          BY <2>1, <4>2, <4>4
      <3> QED
        BY <1>1, <3>1, <3>2 DEF Positions
    <2> QED
      BY <1>2, <1>4, <2>1 DEF LookupRight, Positions
  <1> QED
    BY <1>3, <1>4

LEMMA LookupRightStep ==
    ASSUME StrictOrder, LookupInv, [Next]_vars
    PROVE  SearchInv' /\ LookupRight'
  <1>1. CASE Lookup
    <2>1. ASSUME NEW name \in exports, FindGeneratedSyscallSignature(name)
          PROVE  SearchInv' /\ LookupRight'
      BY <2>1 DEF FindGeneratedSyscallSignature, SearchInv, LookupRight, Positions, LookupInv,
                  TypeInv, TypeOK, LookupTypeOK
    <2>2. CASE SearchUpperHalf
      BY <2>2, SearchUpper DEF SearchUpperHalf, Searching, LookupRight
    <2>3. CASE SearchLowerHalf
      BY <2>3, SearchLower DEF SearchLowerHalf, Searching, LookupRight
    <2>4. CASE EndSearch
      BY <2>4, SearchEnds DEF EndSearch, SearchInv
    <2>5. ASSUME NEW call, NEW query, PrintArguments(call, query)
          PROVE  SearchInv' /\ LookupRight'
      BY <2>5 DEF PrintArguments, SearchInv, LookupRight, LookupInv, Positions
    <2>6. CASE Return
      BY <2>6 DEF Return, SearchInv, LookupRight
    <2> QED
      BY <1>1, <2>1, <2>2, <2>3, <2>4, <2>5, <2>6 DEF Lookup, LookupStep
  <1>2. CASE UNCHANGED <<registrations, lookupVars>>
    BY <1>2 DEF lookupVars, SearchInv, LookupRight, LookupInv, Positions
  <1>3. CASE Build /\ phase # "ready"
    <2>1. pc = "idle" /\ UNCHANGED lookupVars
      BY <1>3 DEF LookupInv, TypeInv, LookupWhenReady, Build, EndFilter, ExtractPrototype,
                  EndExtract, EndEntries, UpdateHeaders, Compile, CompileFails, AddEntry,
                  SkipEntry, Visit
    <2> QED
      BY <2>1 DEF lookupVars, SearchInv, LookupRight
  <1>4. Filter => UNCHANGED <<registrations, lookupVars>>
    BY DEF Filter, KeepLine, DropLine, If, Elif, Else, Endif, Stray, NextHeader, NextLine
  <1>5. Build => phase # "ready"
    BY DEF Build, EndFilter, ExtractPrototype, EndExtract, EndEntries, UpdateHeaders, Compile,
           CompileFails, AddEntry, SkipEntry, Visit
  <1> QED
    BY <1>1, <1>2, <1>3, <1>4, <1>5 DEF Next, Failed, vars

LEMMA LookupInit == Init => LookupInv
  <1>1. Init => pc = "idle"
    BY DEF Init, AtRest
  <1> QED
    BY <1>1, TypeInit, TableInit DEF LookupInv, SearchInv, LookupRight

LEMMA LookupStepRight ==
    ASSUME StrictOrder, LookupInv, [Next]_vars
    PROVE  LookupInv'
  <1>1. TypeInv'
    BY TypeStep DEF LookupInv
  <1> QED
    BY <1>1, TableStep, LookupRightStep DEF LookupInv

(* In the table that is checked in, and in every table the script makes of *)
(* any headers and exports, the binary search finds the registration of a  *)
(* name exactly when there is one: sorted on one side and std::lower_bound *)
(* on the other use the same strict order.                                 *)
THEOREM LookupCorrect ==
    ASSUME StrictOrder
    PROVE  Spec => []LookupRight
  <1>1. LookupInv /\ [Next]_vars => LookupInv'
    BY LookupStepRight
  <1>2. LookupInv => LookupRight
    BY DEF LookupInv
  <1> QED
    BY LookupInit, <1>1, <1>2, PTL DEF Spec

-----------------------------------------------------------------------------
(* What is printed.                                                        *)

PrintedInv ==
    pc = "printed" =>
        /\ event.Query \in {functionName, NoSignature}
        /\ event.FormattedArguments =
              IF signature = NoSignature THEN Untyped(event.Query)
              ELSE FormatArguments(signature, Snapshot(signature, event.Call, event.Query))

LEMMA Concatenated ==
    ASSUME NEW x, NEW y, NEW z
    PROVE  /\ <<x>> \o <<>> \o <<>> = <<x>>
           /\ <<x>> \o <<y>> \o <<>> = <<x, y>>
           /\ <<x>> \o <<y>> \o <<z>> = <<x, y, z>>
  <1> DEFINE S == {x, y, z}
  <1>1. /\ <<x>> \in Seq(S) /\ <<y>> \in Seq(S) /\ <<z>> \in Seq(S)
        /\ <<x, y>> \in Seq(S) /\ <<x, y, z>> \in Seq(S)
    OBVIOUS
  <1> HIDE DEF S
  <1>2. <<x>> \o <<>> = <<x>> /\ <<x, y>> \o <<>> = <<x, y>>
    BY <1>1, ConcatEmptySeq
  <1>3. <<x>> \o <<y>> = <<x, y>>
    <2> DEFINE s == <<x>> \o <<y>>
    <2>1. s \in Seq(S) /\ Len(s) = 2 /\ s[1] = x /\ s[2] = y
      BY <1>1, ConcatProperties
    <2> HIDE DEF s
    <2>2. Len(s) = Len(<<x, y>>) /\ \A i \in 1 .. Len(s) : s[i] = <<x, y>>[i]
      BY <2>1
    <2>3. s = <<x, y>>
      BY <1>1, <2>1, <2>2, SeqEqual, Zenon
    <2> QED
      BY <2>3 DEF s
  <1>4. <<x, y>> \o <<z>> = <<x, y, z>>
    <2> DEFINE s == <<x, y>> \o <<z>>
    <2>1. s \in Seq(S) /\ Len(s) = 3 /\ s[1] = x /\ s[2] = y /\ s[3] = z
      BY <1>1, ConcatProperties
    <2> HIDE DEF s
    <2>2. Len(s) = Len(<<x, y, z>>) /\ \A i \in 1 .. Len(s) : s[i] = <<x, y, z>>[i]
      BY <2>1
    <2>3. s = <<x, y, z>>
      BY <1>1, <2>1, <2>2, SeqEqual, Zenon
    <2> QED
      BY <2>3 DEF s
  <1> QED
    BY <1>2, <1>3, <1>4

\* Argument k as the signature r prints it, and all that it prints.
Shown(r, k, call, query) ==
    [Type |-> ArgumentTypes(r)[k], Position |-> k,
     Word |-> IF k = 1 THEN FirstArgument(query) ELSE <<call, k>>]
AllShown(r, call, query) ==
    {Shown(r, k, call, query) : k \in {1, 5, 6} \cap (1 .. ArgumentCount(r))}

LEMMA FormattedArguments ==
    ASSUME NEW r \in SignatureRegistration, NEW call, NEW query,
           NEW p, p = FormatArguments(r, Snapshot(r, call, query))
    PROVE  {p[i] : i \in DOMAIN p} = AllShown(r, call, query)
  <1> DEFINE n == ArgumentCount(r)
             a(k) == Shown(r, k, call, query)
  <1>1. n \in Nat
    BY DEF ArgumentCount, ArgumentTypes, SignatureRegistration
  <1>2. p = (IF n >= 1 THEN <<a(1)>> ELSE <<>>) \o (IF n >= 5 THEN <<a(5)>> ELSE <<>>)
            \o (IF n >= 6 THEN <<a(6)>> ELSE <<>>)
    <2>1. a(1) = [Type |-> ArgumentTypes(r)[1], Position |-> 1, Word |-> FirstArgument(query)]
          /\ a(5) = [Type |-> ArgumentTypes(r)[5], Position |-> 5, Word |-> <<call, 5>>]
          /\ a(6) = [Type |-> ArgumentTypes(r)[6], Position |-> 6, Word |-> <<call, 6>>]
      BY DEF Shown
    <2> HIDE DEF a
    <2> QED
      BY <2>1 DEF FormatArguments, Snapshot, Argument
  <1> DEFINE D == {1, 5, 6} \cap (1 .. n)
  <1> HIDE DEF a, n, D
  <1> SUFFICES {p[i] : i \in DOMAIN p} = {a(k) : k \in D}
    BY DEF a, n, D, AllShown
  <1>4. CASE n = 0
    <2>1. p = <<>> /\ D = {}
      BY <1>2, <1>4 DEF D
    <2> QED
      BY <2>1
  <1>5. CASE n \in 1 .. 4
    <2>1. p = <<a(1)>>
      <3>1. p = <<a(1)>> \o <<>> \o <<>>
        <4>1. n >= 1 /\ ~(n >= 5) /\ ~(n >= 6)
          BY <1>5
        <4> QED
          BY <1>2, <4>1, Zenon
      <3> QED
        BY <3>1, Concatenated
    <2>2. D = {1}
      BY <1>5 DEF D
    <2> QED
      BY <2>1, <2>2
  <1>6. CASE n = 5
    <2>1. p = <<a(1), a(5)>>
      <3>1. p = <<a(1)>> \o <<a(5)>> \o <<>>
        BY <1>2, <1>6
      <3> QED
        BY <3>1, Concatenated
    <2>2. D = {1, 5}
      BY <1>6 DEF D
    <2> QED
      BY <2>1, <2>2
  <1>7. CASE n \in Nat /\ n > 5
    <2>1. p = <<a(1), a(5), a(6)>>
      <3>1. p = <<a(1)>> \o <<a(5)>> \o <<a(6)>>
        BY <1>2, <1>7
      <3> QED
        BY <3>1, Concatenated
    <2>2. D = {1, 5, 6}
      BY <1>7 DEF D
    <2> QED
      BY <2>1, <2>2
  <1> QED
    BY <1>1, <1>4, <1>5, <1>6, <1>7

LEMMA PrintedStep ==
    ASSUME PrintedInv, [Next]_vars
    PROVE  PrintedInv'
  <1>1. ASSUME NEW call, NEW query \in {functionName, NoSignature}, PrintArguments(call, query)
        PROVE  PrintedInv'
    <2>1. /\ event'.Call = call /\ event'.Query = query
          /\ event'.FormattedArguments =
                IF signature = NoSignature THEN Untyped(query)
                ELSE FormatArguments(signature, Snapshot(signature, call, query))
      BY <1>1 DEF PrintArguments
    <2>2. UNCHANGED <<signature, functionName>>
      BY <1>1 DEF PrintArguments
    <2> QED
      BY <1>1, <2>1, <2>2, Zenon DEF PrintedInv
  <1>2. ASSUME NEW name, \/ FindGeneratedSyscallSignature(name) \/ SearchUpperHalf
                         \/ SearchLowerHalf \/ EndSearch \/ Return
        PROVE  PrintedInv'
    BY <1>2 DEF FindGeneratedSyscallSignature, SearchUpperHalf, SearchLowerHalf, EndSearch,
                Return, PrintedInv, Searching
  <1>3. CASE UNCHANGED lookupVars
    BY <1>3 DEF lookupVars, PrintedInv
  <1>4. Filter \/ Build => UNCHANGED lookupVars
    BY DEF Filter, KeepLine, DropLine, If, Elif, Else, Endif, Stray, NextHeader, NextLine,
           Build, EndFilter, ExtractPrototype, EndExtract, EndEntries, UpdateHeaders, Compile,
           CompileFails, AddEntry, SkipEntry, Visit
  <1>5. Lookup => PrintedInv'
    BY <1>1, <1>2 DEF Lookup, LookupStep
  <1> QED
    BY <1>3, <1>4, <1>5 DEF Next, Failed, vars

LEMMA PrintedInit == Init => PrintedInv
  BY DEF Init, AtRest, PrintedInv

\* In a sorted table a name has one row.
LEMMA OneRow ==
    ASSUME StrictOrder, TypeInv, SortedBy(registrations),
           NEW i \in Positions, NEW j \in Positions, Name(registrations[i]) = Name(registrations[j])
    PROVE  i = j
  <1>1. Name(registrations[i]) \in Names /\ Positions = DOMAIN registrations
        /\ i \in Int /\ j \in Int
    BY DEF TypeInv, TypeOK, LookupTypeOK, Positions, SignatureRegistration, Name
  <1>2. ~Less(Name(registrations[i]), Name(registrations[j]))
        /\ ~Less(Name(registrations[j]), Name(registrations[i]))
    BY <1>1 DEF StrictOrder
  <1> QED
    BY <1>1, <1>2 DEF SortedBy

LEMMA PrintedIsRight == StrictOrder /\ LookupInv /\ PrintedInv => NothingFabricated
  <1> SUFFICES ASSUME StrictOrder, LookupInv, PrintedInv, pc = "printed", event.Query = event.Call,
                      NEW i \in Positions, Name(registrations[i]) = event.Call
               PROVE  {printed[j] : j \in DOMAIN printed}
                          = {OwnArgument(registrations[i], k) :
                                k \in {1, 5, 6} \cap (1 .. ArgumentCount(registrations[i]))}
    BY DEF NothingFabricated
  <1> DEFINE r == registrations[i]
  <1>1. TypeInv /\ r \in SignatureRegistration /\ Name(r) \in Names
    BY DEF LookupInv, TypeInv, TypeOK, LookupTypeOK, Positions, SignatureRegistration, Name
  <1>2. event.Query = functionName /\ functionName # NoSignature
    BY <1>1, LookupAssumption DEF PrintedInv
  <1>3. signature # NoSignature /\ Name(signature) = functionName
    BY <1>2 DEF LookupInv, LookupRight
  <1>4. signature = r
    <2>1. PICK k \in Positions : signature = registrations[k]
      BY <1>1, <1>3 DEF TypeInv, TypeOK, LookupTypeOK
    <2>2. k = i
      BY <1>1, <1>2, <1>3, <2>1, OneRow DEF LookupInv, TableInv
    <2> QED
      BY <2>1, <2>2
  <1> DEFINE D == {1, 5, 6} \cap (1 .. ArgumentCount(r))
  <1>5. printed = FormatArguments(r, Snapshot(r, event.Call, event.Query))
    BY <1>3, <1>4 DEF PrintedInv, printed
  <1>6. {printed[j] : j \in DOMAIN printed} = AllShown(r, event.Call, event.Query)
    <2> HIDE DEF r
    <2> QED
      BY <1>1, <1>5, FormattedArguments
  <1>7. ASSUME NEW k \in D PROVE Shown(r, k, event.Call, event.Query) = OwnArgument(r, k)
    BY <1>2 DEF Shown, OwnArgument, FirstArgument
  <1> QED
    BY <1>6, <1>7 DEF AllShown

(* When the query has named the call that was captured, its own arguments  *)
(* are printed, all that were captured and with their own types: in every  *)
(* sorted table, for functions of any number of arguments.  It takes the   *)
(* search to find the row of that function among all others.               *)
THEOREM ArgumentsNotFabricated ==
    ASSUME StrictOrder
    PROVE  Spec => []NothingFabricated
  <1>1. Init => LookupInv /\ PrintedInv
    BY LookupInit, PrintedInit
  <1>2. LookupInv /\ PrintedInv /\ [Next]_vars => LookupInv' /\ PrintedInv'
    BY LookupStepRight, PrintedStep
  <1>3. LookupInv /\ PrintedInv => NothingFabricated
    BY PrintedIsRight
  <1> QED
    BY <1>1, <1>2, <1>3, PTL DEF Spec

\* What the static_assert has tested, for the rows of the program that runs.
BuiltInv ==
    phase = "ready" /\ headers # <<>> => \A i \in Positions : Compiles(registrations[i])

LEMMA SameHeaders ==
    ASSUME UNCHANGED headers, NEW r
    PROVE  Compiles(r)' <=> Compiles(r)
  <1>1. Declared(Function(r))' = Declared(Function(r))
    BY DEF Declared
  <1> QED
    BY <1>1, Zenon DEF Compiles

LEMMA BuiltStep ==
    ASSUME BuiltInv, [Next]_vars
    PROVE  BuiltInv'
  <1>1. CASE Compile
    BY <1>1, SameHeaders DEF Compile, BuiltInv, Positions
  <1>2. CASE Filter \/ (Build /\ ~Compile)
    <2>1. phase' # "ready"
      BY <1>2 DEF Filter, KeepLine, DropLine, If, Elif, Else, Endif, Stray, NextHeader, NextLine,
                  Reading, Build, EndFilter, ExtractPrototype, EndExtract, EndEntries,
                  UpdateHeaders, CompileFails, AddEntry, SkipEntry, Visit
    <2> QED
      BY <2>1 DEF BuiltInv
  <1>3. CASE UNCHANGED <<registrations, phase, headers>>
    BY <1>3, SameHeaders DEF BuiltInv, Positions
  <1>4. Lookup \/ UNCHANGED vars => UNCHANGED <<registrations, phase, headers>>
    BY DEF Lookup, LookupStep, FindGeneratedSyscallSignature, SearchUpperHalf, SearchLowerHalf,
           EndSearch, PrintArguments, Return, vars
  <1> QED
    BY <1>1, <1>2, <1>3, <1>4 DEF Next, Failed

(* However the headers have changed since the table was generated, a       *)
(* program that compiles prints no word that is not an argument of the     *)
(* function as those headers declare it.                                   *)
THEOREM WordsAreDeclared == Spec => []WordsDeclared
  <1>1. Init => BuiltInv
    BY DEF Init, BuiltInv
  <1>2. TypeInv /\ PrintedInv /\ BuiltInv /\ [Next]_vars => TypeInv' /\ PrintedInv' /\ BuiltInv'
    BY TypeStep, PrintedStep, BuiltStep
  <1>3. TypeInv /\ PrintedInv /\ BuiltInv => WordsDeclared
    <2> SUFFICES ASSUME TypeInv, PrintedInv, BuiltInv,
                        pc = "printed", signature # NoSignature, headers # <<>>,
                        NEW types \in Declared(Function(signature)),
                        NEW i \in DOMAIN printed
                 PROVE  printed[i].Position \in 1 .. Len(types)
      BY DEF WordsDeclared
    <2>1. PICK k \in Positions : signature = registrations[k]
      BY DEF TypeInv, TypeOK, LookupTypeOK
    <2>2. phase = "ready"
      BY DEF TypeInv, LookupWhenReady
    <2>3. Len(types) = ArgumentCount(signature)
      BY <2>1, <2>2 DEF BuiltInv, Compiles
    <2>4. signature \in SignatureRegistration
      BY <2>1 DEF TypeInv, TypeOK, LookupTypeOK, Positions
    <2>5. printed = FormatArguments(signature, Snapshot(signature, event.Call, event.Query))
      BY DEF PrintedInv, printed
    <2>6. printed[i] \in AllShown(signature, event.Call, event.Query)
      BY <2>4, <2>5, FormattedArguments
    <2>7. printed[i].Position \in 1 .. ArgumentCount(signature)
      BY <2>6 DEF AllShown, Shown
    <2> QED
      BY <2>3, <2>7
  <1> QED
    BY TypeInit, PrintedInit, <1>1, <1>2, <1>3, PTL DEF Spec

-----------------------------------------------------------------------------
(* The filter.  What a line reads as depends on the directives before it:  *)
(* the two stacks hold, for each depth, what C makes of them.              *)

Branches == {"if", "elif", "else"}
Ends == {"elif", "else", "endif"}

\* The branches that line l stands in are taken, as far as they are out of depth n.
AllTaken(h, l, n) ==
    \A b \in 1 .. l - 1 : Governs(h, b, l) /\ Level(h, b) < n => Taken(h, b)

\* A branch so far of the last block at depth n has a condition that holds.
AnyHeld(h, l, n) ==
    \E a \in 1 .. l - 1 :
        /\ h[a].Directive \in Branches /\ Level(h, a) = n
        /\ Between(h, a, l, {"if", "endif"}) = {} /\ Holds(h, a)

\* A block that does not reach to line l has its endif before.
BlocksEnd(h, l) ==
    \A b \in 1 .. l - 1 :
        h[b].Directive \in Branches /\ Level(h, b) >= Depth(h, l)
            => Between(h, b, l, {"endif"}) # {}

(* A line is a directive or none.                                          *)
LEMMA LineDirective ==
    ASSUME NEW h \in Header, NEW l \in DOMAIN h
    PROVE  /\ h[l].Directive \in {"none", "if", "elif", "else", "endif"}
           /\ DOMAIN h = 1 .. Len(h) /\ Len(h) \in Nat /\ l \in Nat /\ l >= 1 /\ l <= Len(h)
           /\ h[l].Directive \in {"if", "elif"} => h[l].Condition \in BOOLEAN
  <1>1. h[l] \in Line
    BY DEF Header
  <1>2. h[l].Directive # "none" => h[l] \in [Directive : Directives, Condition : BOOLEAN]
    BY <1>1 DEF Line
  <1> QED
    BY <1>1, <1>2 DEF Line, Directives, Header

(* A directive more or less is one more of its kind before the next line.  *)
LEMMA BeforeStep ==
    ASSUME NEW h, NEW l \in Nat \ {0}, NEW d
    PROVE  /\ Cardinality(Before(h, l, d)) \in Nat
           /\ Cardinality(Before(h, l + 1, d)) =
                  Cardinality(Before(h, l, d)) + (IF h[l].Directive = d THEN 1 ELSE 0)
  <1>1. IsFiniteSet(1 .. l - 1)
    BY FS_Interval
  <1>2. IsFiniteSet(Before(h, l, d))
    BY <1>1, FS_Subset DEF Before
  <1>3. Cardinality(Before(h, l, d)) \in Nat
    BY <1>2, FS_CardinalityType
  <1>4. CASE h[l].Directive = d
    <2>1. Before(h, l + 1, d) = Before(h, l, d) \cup {l} /\ l \notin Before(h, l, d)
      BY <1>4 DEF Before
    <2>2. Cardinality(Before(h, l + 1, d)) = Cardinality(Before(h, l, d)) + 1
      BY <1>2, <2>1, FS_AddElement
    <2> QED
      BY <1>3, <1>4, <2>2
  <1>5. CASE h[l].Directive # d
    <2>1. Before(h, l + 1, d) = Before(h, l, d)
      BY <1>5 DEF Before
    <2> QED
      BY <1>3, <1>5, <2>1
  <1> QED
    BY <1>4, <1>5

LEMMA DepthStep ==
    ASSUME NEW h, NEW l \in Nat \ {0}
    PROVE  /\ Depth(h, l) \in Int
           /\ Depth(h, l + 1) = Depth(h, l) + (IF h[l].Directive = "if" THEN 1
                                               ELSE IF h[l].Directive = "endif" THEN -1 ELSE 0)
           /\ Level(h, l) = Depth(h, l) - (IF h[l].Directive = "if" THEN 0 ELSE 1)
  BY BeforeStep DEF Depth, Level

LEMMA DepthFirst == \A h : Depth(h, 1) = 0
  <1> SUFFICES ASSUME NEW h PROVE Depth(h, 1) = 0
    OBVIOUS
  <1>1. \A d : Before(h, 1, d) = {}
    BY DEF Before
  <1> QED
    BY <1>1, FS_EmptySet DEF Depth

(* What lies between a directive and the next line.                        *)
LEMMA BetweenStep ==
    ASSUME NEW h, NEW l \in Nat, NEW b \in 1 .. l - 1, NEW ds
    PROVE  Between(h, b, l + 1, ds) =
               Between(h, b, l, ds)
               \cup (IF h[l].Directive \in ds /\ Level(h, l) = Level(h, b) THEN {l} ELSE {})
  BY DEF Between

LEMMA NothingBetween ==
    ASSUME NEW h, NEW l \in Nat, NEW ds
    PROVE  Between(h, l, l + 1, ds) = {}
  BY DEF Between

LEMMA GovernsStep ==
    ASSUME NEW h, NEW l \in Nat \ {0}
    PROVE  /\ \A b \in 1 .. l - 1 :
                 Governs(h, b, l + 1) <=>
                     /\ h[b].Directive \in Branches
                     /\ Between(h, b, l, Ends) = {}
                     /\ ~(h[l].Directive \in Ends /\ Level(h, l) = Level(h, b))
                     /\ Level(h, b) < Depth(h, l + 1)
           /\ Governs(h, l, l + 1) <=> h[l].Directive \in Branches
  <1>1. \A b \in 1 .. l - 1 :
            Between(h, b, l + 1, Ends) = {} <=>
                /\ Between(h, b, l, Ends) = {}
                /\ ~(h[l].Directive \in Ends /\ Level(h, l) = Level(h, b))
    BY BetweenStep
  <1>2. Between(h, l, l + 1, Ends) = {}
    BY NothingBetween
  <1>3. h[l].Directive \in Branches => Level(h, l) < Depth(h, l + 1)
    BY DepthStep DEF Branches
  <1> QED
    BY <1>1, <1>2, <1>3 DEF Governs, Branches, Ends

(* A block that has ended stays so, and one ends with its endif.           *)
LEMMA BlocksEndStep ==
    ASSUME NEW h \in Header, NEW l \in DOMAIN h, BlocksEnd(h, l)
    PROVE  BlocksEnd(h, l + 1)
  <1> DEFINE D == Depth(h, l)
  <1>1. l \in Nat \ {0} /\ D \in Int
    BY LineDirective, DepthStep
  <1> SUFFICES ASSUME NEW b \in 1 .. l, h[b].Directive \in Branches,
                      Level(h, b) >= Depth(h, l + 1)
               PROVE  Between(h, b, l + 1, {"endif"}) # {}
    BY <1>1 DEF BlocksEnd
  <1>2. b # l
    BY <1>1, DepthStep DEF Branches
  <1>3. Between(h, b, l + 1, {"endif"}) =
            Between(h, b, l, {"endif"})
            \cup (IF h[l].Directive \in {"endif"} /\ Level(h, l) = Level(h, b) THEN {l} ELSE {})
    BY <1>1, <1>2, BetweenStep
  <1>4. Level(h, b) \in Int
    BY <1>1, DepthStep
  <1>5. CASE Level(h, b) >= D
    <2>1. Between(h, b, l, {"endif"}) # {}
      BY <1>1, <1>2, <1>5 DEF BlocksEnd
    <2> QED
      BY <1>3, <2>1
  <1>6. CASE ~(Level(h, b) >= D)
    <2>1. h[l].Directive = "endif" /\ Level(h, l) = Level(h, b)
      BY <1>1, <1>4, <1>6, DepthStep
    <2> QED
      BY <1>3, <2>1
  <1> QED
    BY <1>5, <1>6

(* What the branches around the next line are.                             *)
LEMMA AllTakenStep ==
    ASSUME NEW h \in Header, NEW l \in DOMAIN h, BlocksEnd(h, l), NEW n \in Int
    PROVE  /\ h[l].Directive \in {"none", "if"} /\ n <= Depth(h, l)
                  => (AllTaken(h, l + 1, n) <=> AllTaken(h, l, n))
           /\ h[l].Directive \in Ends /\ n < Depth(h, l)
                  => (AllTaken(h, l + 1, n) <=> AllTaken(h, l, n))
           /\ h[l].Directive = "if" /\ n = Depth(h, l) + 1
                  => (AllTaken(h, l + 1, n) <=> AllTaken(h, l, n - 1) /\ Taken(h, l))
           /\ h[l].Directive \in {"elif", "else"} /\ n = Depth(h, l)
                  => (AllTaken(h, l + 1, n) <=> AllTaken(h, l, n - 1) /\ Taken(h, l))
  <1> DEFINE D == Depth(h, l)
             Known(b) == /\ h[b].Directive \in Branches
                         /\ Between(h, b, l, Ends) = {}
  <1>1. l \in Nat \ {0} /\ D \in Int
    BY LineDirective, DepthStep
  <1>2. /\ Depth(h, l + 1) = D + (IF h[l].Directive = "if" THEN 1
                                  ELSE IF h[l].Directive = "endif" THEN -1 ELSE 0)
        /\ Level(h, l) = D - (IF h[l].Directive = "if" THEN 0 ELSE 1)
    BY <1>1, DepthStep
  <1>3. \A b \in 1 .. l - 1 : Level(h, b) \in Int
    BY <1>1, DepthStep
  <1>4. \A b \in 1 .. l - 1 : Governs(h, b, l) <=> Known(b) /\ Level(h, b) < D
    BY DEF Governs, Branches, Ends
  <1>5. \A b \in 1 .. l - 1 :
            Governs(h, b, l + 1) <=> /\ Known(b)
                                     /\ ~(h[l].Directive \in Ends /\ Level(h, l) = Level(h, b))
                                     /\ Level(h, b) < Depth(h, l + 1)
    BY <1>1, GovernsStep
  <1>6. Governs(h, l, l + 1) <=> h[l].Directive \in Branches
    BY <1>1, GovernsStep
  <1>7. \A b \in 1 .. l - 1 : Known(b) => Level(h, b) < D
    <2> SUFFICES ASSUME NEW b \in 1 .. l - 1, Known(b), Level(h, b) >= D PROVE FALSE
      BY <1>1, <1>3
    <2>1. Between(h, b, l, {"endif"}) # {}
      BY DEF BlocksEnd
    <2>2. Between(h, b, l, {"endif"}) \subseteq Between(h, b, l, Ends)
      BY DEF Between, Ends
    <2> QED
      BY <2>1, <2>2
  <1>8. AllTaken(h, l + 1, n) <=>
            /\ \A b \in 1 .. l - 1 : Governs(h, b, l + 1) /\ Level(h, b) < n => Taken(h, b)
            /\ Governs(h, l, l + 1) /\ Level(h, l) < n => Taken(h, l)
    BY <1>1 DEF AllTaken
  <1> HIDE DEF D, Known
  <1>9. ASSUME h[l].Directive \in {"none", "if"}, n <= D
        PROVE  AllTaken(h, l + 1, n) <=> AllTaken(h, l, n)
    <2>1. \A b \in 1 .. l - 1 : Governs(h, b, l + 1) <=> Governs(h, b, l)
      BY <1>1, <1>2, <1>3, <1>4, <1>5, <1>7, <1>9 DEF Ends
    <2>2. ~(Governs(h, l, l + 1) /\ Level(h, l) < n)
      BY <1>1, <1>2, <1>6, <1>9 DEF Branches
    <2> QED
      BY <1>8, <2>1, <2>2 DEF AllTaken
  <1>10. ASSUME h[l].Directive \in Ends, n < D
         PROVE  AllTaken(h, l + 1, n) <=> AllTaken(h, l, n)
    <2>1. \A b \in 1 .. l - 1 :
              Governs(h, b, l + 1) /\ Level(h, b) < n <=> Governs(h, b, l) /\ Level(h, b) < n
      BY <1>1, <1>2, <1>3, <1>4, <1>5, <1>7, <1>10 DEF Ends
    <2>2. ~(Level(h, l) < n)
      BY <1>1, <1>2, <1>10 DEF Ends
    <2> QED
      BY <1>8, <2>1, <2>2 DEF AllTaken
  <1>11. ASSUME h[l].Directive = "if", n = D + 1
         PROVE  AllTaken(h, l + 1, n) <=> AllTaken(h, l, n - 1) /\ Taken(h, l)
    <2>1. \A b \in 1 .. l - 1 :
              Governs(h, b, l + 1) /\ Level(h, b) < n <=> Governs(h, b, l) /\ Level(h, b) < n - 1
      BY <1>1, <1>2, <1>3, <1>4, <1>5, <1>7, <1>11 DEF Ends
    <2>2. Governs(h, l, l + 1) /\ Level(h, l) < n
      BY <1>1, <1>2, <1>6, <1>11 DEF Branches
    <2> QED
      BY <1>8, <2>1, <2>2 DEF AllTaken
  <1>12. ASSUME h[l].Directive \in {"elif", "else"}, n = D
         PROVE  AllTaken(h, l + 1, n) <=> AllTaken(h, l, n - 1) /\ Taken(h, l)
    <2>1. \A b \in 1 .. l - 1 :
              Governs(h, b, l + 1) /\ Level(h, b) < n <=> Governs(h, b, l) /\ Level(h, b) < n - 1
      BY <1>1, <1>2, <1>3, <1>4, <1>5, <1>7, <1>12 DEF Ends
    <2>2. Governs(h, l, l + 1) /\ Level(h, l) < n
      BY <1>1, <1>2, <1>6, <1>12 DEF Branches
    <2> QED
      BY <1>8, <2>1, <2>2 DEF AllTaken
  <1> QED
    BY <1>9, <1>10, <1>11, <1>12 DEF D

(* Whether a branch of the block around the next line has been held.       *)
LEMMA AnyHeldStep ==
    ASSUME NEW h \in Header, NEW l \in DOMAIN h, NEW n \in Int
    PROVE  /\ h[l].Directive \in {"none", "if"} /\ n < Depth(h, l)
                  => (AnyHeld(h, l + 1, n) <=> AnyHeld(h, l, n))
           /\ h[l].Directive \in Ends /\ n < Depth(h, l) - 1
                  => (AnyHeld(h, l + 1, n) <=> AnyHeld(h, l, n))
           /\ h[l].Directive = "if" /\ n = Depth(h, l)
                  => (AnyHeld(h, l + 1, n) <=> Holds(h, l))
           /\ h[l].Directive \in {"elif", "else"} /\ n = Depth(h, l) - 1
                  => (AnyHeld(h, l + 1, n) <=> AnyHeld(h, l, n) \/ Holds(h, l))
  <1> DEFINE D == Depth(h, l)
             Opens == {"if", "endif"}
             Held(a, m) == /\ h[a].Directive \in Branches /\ Level(h, a) = n
                           /\ Between(h, a, m, Opens) = {} /\ Holds(h, a)
  <1>1. l \in Nat \ {0} /\ D \in Int
    BY LineDirective, DepthStep
  <1>2. Level(h, l) = D - (IF h[l].Directive = "if" THEN 0 ELSE 1)
    BY <1>1, DepthStep
  <1>3. \A a \in 1 .. l - 1 :
            Held(a, l + 1) <=> Held(a, l) /\ ~(h[l].Directive \in Opens /\ Level(h, l) = n)
    <2> TAKE a \in 1 .. l - 1
    <2>1. Between(h, a, l + 1, Opens) =
              Between(h, a, l, Opens)
              \cup (IF h[l].Directive \in Opens /\ Level(h, l) = Level(h, a) THEN {l} ELSE {})
      BY <1>1, BetweenStep
    <2> QED
      BY <2>1
  <1>4. Held(l, l + 1) <=> h[l].Directive \in Branches /\ Level(h, l) = n /\ Holds(h, l)
    BY <1>1, NothingBetween
  <1>5. AnyHeld(h, l, n) <=> \E a \in 1 .. l - 1 : Held(a, l)
    BY DEF AnyHeld
  <1>6. AnyHeld(h, l + 1, n) <=> Held(l, l + 1) \/ \E a \in 1 .. l - 1 : Held(a, l + 1)
    BY <1>1 DEF AnyHeld
  <1> HIDE DEF D, Held
  <1> QED
    BY <1>1, <1>2, <1>3, <1>4, <1>5, <1>6 DEF D, Branches, Ends

(* When a branch is taken.                                                 *)
LEMMA TakenBranch ==
    ASSUME NEW h \in Header, NEW l \in DOMAIN h, WellFormed(h)
    PROVE  /\ h[l].Directive = "if" => (Taken(h, l) <=> h[l].Condition)
           /\ h[l].Directive \in {"elif", "else"} =>
                  (Taken(h, l) <=> Holds(h, l) /\ ~AnyHeld(h, l, Depth(h, l) - 1))
  <1>1. l \in Nat \ {0} /\ Depth(h, l) \in Int /\ DOMAIN h = 1 .. Len(h) /\ Len(h) \in Nat /\ l <= Len(h)
    BY LineDirective, DepthStep
  <1>2. ASSUME h[l].Directive = "if" PROVE Taken(h, l) <=> h[l].Condition
    BY <1>2 DEF Taken, Holds, Precedes
  <1>3. ASSUME h[l].Directive \in {"elif", "else"}
        PROVE  Taken(h, l) <=> Holds(h, l) /\ ~AnyHeld(h, l, Depth(h, l) - 1)
    <2>1. Level(h, l) = Depth(h, l) - 1
      BY <1>1, <1>3, DepthStep
    <2>2. ASSUME NEW a \in 1 .. l - 1, h[a].Directive = "else", Level(h, a) = Level(h, l),
                 Between(h, a, l, {"if", "endif"}) = {}
          PROVE  FALSE
      <3>1. a \in DOMAIN h /\ l \in Between(h, a, Len(h) + 1, {"elif", "else"})
        BY <1>1, <1>3, <2>2 DEF Between
      <3>2. Between(h, a, l, {"endif"}) # {}
        BY <2>2, <3>1 DEF WellFormed
      <3>3. Between(h, a, l, {"endif"}) \subseteq Between(h, a, l, {"if", "endif"})
        BY DEF Between
      <3> QED
        BY <2>2, <3>2, <3>3
    <2>3. \A a \in 1 .. l - 1 :
              Precedes(h, a, l) <=> /\ h[a].Directive \in Branches /\ Level(h, a) = Level(h, l)
                                    /\ Between(h, a, l, {"if", "endif"}) = {}
      BY <1>3, <2>2 DEF Precedes, Branches
    <2> QED
      BY <2>1, <2>3 DEF Taken, AnyHeld
  <1> QED
    BY <1>2, <1>3

\* What the stacks are to hold when line l is read: for each depth, the top first.
StacksTell(h, l, depth, active, branches) ==
    /\ depth \in Nat /\ depth = Depth(h, l) /\ BlocksEnd(h, l)
    /\ active \in Seq(BOOLEAN) /\ Len(active) = depth + 1
    /\ branches \in Seq(BOOLEAN \X BOOLEAN) /\ Len(branches) = depth
    /\ \A n \in 0 .. depth : active[depth + 1 - n] <=> AllTaken(h, l, n)
    /\ \A n \in 0 .. depth - 1 : /\ branches[depth - n][1] <=> AllTaken(h, l, n)
                                 /\ branches[depth - n][2] <=> AnyHeld(h, l, n)

LEMMA PushedElements ==
    ASSUME NEW S, NEW stack \in Seq(S), NEW x \in S
    PROVE  /\ Push(x, stack)[1] = x
           /\ \A i \in 2 .. Len(stack) + 1 : Push(x, stack)[i] = stack[i - 1]
           /\ Push(x, stack) \in Seq(S) /\ Len(Push(x, stack)) = Len(stack) + 1
  BY DEF Push

LEMMA PoppedElements ==
    ASSUME NEW S, NEW stack \in Seq(S), stack # <<>>
    PROVE  /\ \A i \in 1 .. Len(stack) - 1 : Tail(stack)[i] = stack[i + 1]
           /\ Tail(stack) \in Seq(S) /\ Len(Tail(stack)) = Len(stack) - 1
           /\ Head(stack) = stack[1] /\ Head(stack) \in S
  OBVIOUS

(* The same for the two stacks.                                            *)
LEMMA PushedActive ==
    ASSUME NEW active \in Seq(BOOLEAN), NEW top \in BOOLEAN
    PROVE  /\ Push(top, active)[1] = top
           /\ \A i \in 2 .. Len(active) + 1 : Push(top, active)[i] = active[i - 1]
           /\ Push(top, active) \in Seq(BOOLEAN) /\ Len(Push(top, active)) = Len(active) + 1
  <1> DEFINE B == BOOLEAN
  <1>1. active \in Seq(B) /\ top \in B
    OBVIOUS
  <1> HIDE DEF B
  <1>2. /\ Push(top, active)[1] = top
        /\ \A i \in 2 .. Len(active) + 1 : Push(top, active)[i] = active[i - 1]
        /\ Push(top, active) \in Seq(B) /\ Len(Push(top, active)) = Len(active) + 1
    BY ONLY <1>1, PushedElements
  <1> QED
    BY <1>2 DEF B

LEMMA PushedBranch ==
    ASSUME NEW branches \in Seq(BOOLEAN \X BOOLEAN), NEW pair \in BOOLEAN \X BOOLEAN
    PROVE  /\ Push(pair, branches)[1] = pair
           /\ \A i \in 2 .. Len(branches) + 1 : Push(pair, branches)[i] = branches[i - 1]
           /\ Push(pair, branches) \in Seq(BOOLEAN \X BOOLEAN)
           /\ Len(Push(pair, branches)) = Len(branches) + 1
  <1> DEFINE P == BOOLEAN \X BOOLEAN
  <1>1. branches \in Seq(P) /\ pair \in P
    OBVIOUS
  <1> HIDE DEF P
  <1>2. /\ Push(pair, branches)[1] = pair
        /\ \A i \in 2 .. Len(branches) + 1 : Push(pair, branches)[i] = branches[i - 1]
        /\ Push(pair, branches) \in Seq(P) /\ Len(Push(pair, branches)) = Len(branches) + 1
    BY ONLY <1>1, PushedElements
  <1> QED
    BY <1>2 DEF P

LEMMA PoppedStacks ==
    ASSUME NEW active \in Seq(BOOLEAN), NEW branches \in Seq(BOOLEAN \X BOOLEAN),
           active # <<>>, branches # <<>>
    PROVE  /\ \A i \in 1 .. Len(active) - 1 : Tail(active)[i] = active[i + 1]
           /\ \A i \in 1 .. Len(branches) - 1 : Tail(branches)[i] = branches[i + 1]
           /\ Tail(active) \in Seq(BOOLEAN) /\ Len(Tail(active)) = Len(active) - 1
           /\ Tail(branches) \in Seq(BOOLEAN \X BOOLEAN)
           /\ Len(Tail(branches)) = Len(branches) - 1
           /\ Head(active) = active[1] /\ Head(active) \in BOOLEAN
           /\ Head(branches) = branches[1] /\ Head(branches) \in BOOLEAN \X BOOLEAN
  <1> DEFINE B == BOOLEAN
             P == BOOLEAN \X BOOLEAN
  <1>1. active \in Seq(B) /\ branches \in Seq(P)
    OBVIOUS
  <1> SUFFICES /\ \A i \in 1 .. Len(active) - 1 : Tail(active)[i] = active[i + 1]
               /\ \A i \in 1 .. Len(branches) - 1 : Tail(branches)[i] = branches[i + 1]
               /\ Tail(active) \in Seq(B) /\ Len(Tail(active)) = Len(active) - 1
               /\ Tail(branches) \in Seq(P) /\ Len(Tail(branches)) = Len(branches) - 1
               /\ Head(active) = active[1] /\ Head(active) \in B
               /\ Head(branches) = branches[1] /\ Head(branches) \in P
    OBVIOUS
  <1> HIDE DEF B, P
  <1> QED
    BY <1>1, PoppedElements

(* The stacks behind an if.                                                *)
LEMMA IfStacks ==
    ASSUME NEW h \in Header, WellFormed(h), NEW l \in DOMAIN h, h[l].Directive = "if",
           NEW D, NEW active, NEW branches, StacksTell(h, l, D, active, branches)
    PROVE  StacksTell(h, l + 1, D + 1, Push(Head(active) /\ h[l].Condition, active),
                      Push(<<Head(active), h[l].Condition>>, branches))
  <1> DEFINE on == Head(active)
             c == h[l].Condition
             top == on /\ c
             pair == <<on, c>>
             a2 == Push(top, active)
             b2 == Push(pair, branches)
  <1>1. c \in BOOLEAN /\ l \in Nat \ {0}
    BY LineDirective
  <1>2. /\ active \in Seq(BOOLEAN) /\ branches \in Seq(BOOLEAN \X BOOLEAN)
        /\ Len(active) = D + 1 /\ Len(branches) = D /\ D \in Nat /\ D = Depth(h, l)
    BY DEF StacksTell
  <1>3. on = active[1] /\ on \in BOOLEAN
    BY <1>2
  <1>4. Depth(h, l + 1) = D + 1
    BY <1>1, <1>2, DepthStep
  <1>5. top \in BOOLEAN /\ pair \in BOOLEAN \X BOOLEAN
    BY <1>1, <1>3
  <1> HIDE DEF top, pair
  <1>6. Len(active) + 1 = D + 2 /\ Len(branches) + 1 = D + 1
    BY <1>2
  <1>7. /\ a2[1] = top /\ a2 \in Seq(BOOLEAN) /\ Len(a2) = Len(active) + 1
        /\ \A i \in 2 .. Len(active) + 1 : a2[i] = active[i - 1]
    BY ONLY <1>2, <1>5, PushedActive
  <1>8. /\ b2[1] = pair /\ b2 \in Seq(BOOLEAN \X BOOLEAN) /\ Len(b2) = Len(branches) + 1
        /\ \A i \in 2 .. Len(branches) + 1 : b2[i] = branches[i - 1]
    <2>1. branches \in Seq(BOOLEAN \X BOOLEAN)
      BY <1>2
    <2>2. pair \in BOOLEAN \X BOOLEAN
      BY <1>5
    <2> QED
      BY ONLY <2>1, <2>2, PushedBranch
  <1>9. top <=> on /\ c
    BY DEF top
  <1>10. (pair[1] <=> on) /\ (pair[2] <=> c)
    BY DEF pair
  <1> HIDE DEF a2, b2, top, pair, on, c
  <1>11. /\ Len(a2) = D + 1 + 1 /\ \A i \in 2 .. D + 2 : a2[i] = active[i - 1]
         /\ Len(b2) = D + 1 /\ \A i \in 2 .. D + 1 : b2[i] = branches[i - 1]
    BY <1>2, <1>6, <1>7, <1>8
  <1>12. D + 1 \in Nat
    BY <1>2
  <1>13. BlocksEnd(h, l) /\ BlocksEnd(h, l + 1)
    BY BlocksEndStep DEF StacksTell
  <1>14. on <=> AllTaken(h, l, D)
    BY <1>2, <1>3 DEF StacksTell
  <1>15. \A n \in 0 .. D + 1 : a2[D + 1 + 1 - n] <=> AllTaken(h, l + 1, n)
    <2> TAKE n \in 0 .. D + 1
    <2>1. CASE n = D + 1
      <3>1. AllTaken(h, l + 1, n) <=> AllTaken(h, l, D) /\ Taken(h, l)
        BY <1>1, <1>2, <1>13, <2>1, AllTakenStep
      <3>2. Taken(h, l) <=> c
        BY <1>2, TakenBranch DEF c
      <3>3. D + 1 + 1 - n = 1
        BY <1>2, <2>1
      <3> QED
        BY <1>7, <1>8, <1>11, <1>14, <1>9, <3>1, <3>2, <3>3
    <2>2. CASE n <= D
      <3>0. n <= Depth(h, l) /\ n \in Int /\ h[l].Directive \in {"none", "if"}
        BY <1>2, <2>2
      <3>1. AllTaken(h, l + 1, n) <=> AllTaken(h, l, n)
        BY <1>13, <3>0, AllTakenStep, Zenon
      <3>2. D + 1 + 1 - n \in 2 .. D + 2 /\ (D + 1 + 1 - n) - 1 = D + 1 - n /\ n \in 0 .. D
        <4>1. D \in Nat /\ n \in Nat /\ n <= D
          BY <1>2, <2>2
        <4> QED
          BY ONLY <4>1
      <3>3. active[D + 1 - n] <=> AllTaken(h, l, n)
        BY <3>2 DEF StacksTell
      <3> QED
        BY <1>7, <1>8, <1>11, <3>1, <3>2, <3>3
    <2> QED
      BY <1>2, <2>1, <2>2
  <1>16. \A n \in 0 .. (D + 1) - 1 : /\ b2[(D + 1) - n][1] <=> AllTaken(h, l + 1, n)
                                     /\ b2[(D + 1) - n][2] <=> AnyHeld(h, l + 1, n)
    <2> TAKE n \in 0 .. (D + 1) - 1
    <2>1. AllTaken(h, l + 1, n) <=> AllTaken(h, l, n)
      BY <1>1, <1>2, <1>13, AllTakenStep
    <2>2. CASE n = D
      <3>1. AnyHeld(h, l + 1, n) <=> c
        BY <1>1, <1>2, <2>2, AnyHeldStep DEF Holds, c
      <3>2. (D + 1) - n = 1
        BY <1>2, <2>2
      <3> QED
        BY <1>7, <1>8, <1>11, <1>14, <1>10, <2>1, <2>2, <3>1, <3>2
    <2>3. CASE n < D
      <3>1. AnyHeld(h, l + 1, n) <=> AnyHeld(h, l, n)
        BY <1>1, <1>2, <2>3, AnyHeldStep
      <3>2. (D + 1) - n \in 2 .. D + 1 /\ ((D + 1) - n) - 1 = D - n /\ n \in 0 .. D - 1
        BY <1>2, <2>3
      <3>3. /\ branches[D - n][1] <=> AllTaken(h, l, n)
            /\ branches[D - n][2] <=> AnyHeld(h, l, n)
        BY <3>2 DEF StacksTell
      <3> QED
        BY <1>7, <1>8, <1>11, <2>1, <3>1, <3>2, <3>3
    <2> QED
      BY <1>2, <2>2, <2>3
  <1>17. StacksTell(h, l + 1, D + 1, a2, b2)
    <2> DEFINE E == D + 1
    <2>1. /\ E \in Nat /\ E = Depth(h, l + 1) /\ BlocksEnd(h, l + 1)
          /\ a2 \in Seq(BOOLEAN) /\ Len(a2) = E + 1
          /\ b2 \in Seq(BOOLEAN \X BOOLEAN) /\ Len(b2) = E
          /\ \A n \in 0 .. E : a2[E + 1 - n] <=> AllTaken(h, l + 1, n)
          /\ \A n \in 0 .. E - 1 : /\ b2[E - n][1] <=> AllTaken(h, l + 1, n)
                                   /\ b2[E - n][2] <=> AnyHeld(h, l + 1, n)
      <3>1. E \in Nat /\ E = Depth(h, l + 1)
        BY <1>12, <1>4
      <3>2. a2 \in Seq(BOOLEAN) /\ Len(a2) = E + 1
        BY <1>7, <1>11
      <3>3. b2 \in Seq(BOOLEAN \X BOOLEAN) /\ Len(b2) = E
        BY <1>8, <1>11
      <3> QED
        BY <1>13, <1>15, <1>16, <3>1, <3>2, <3>3
    <2> HIDE DEF E
    <2>2. StacksTell(h, l + 1, E, a2, b2)
      BY <2>1, Zenon DEF StacksTell
    <2> QED
      BY <2>2 DEF E
  <1> QED
    BY <1>17 DEF a2, b2, top, pair, on, c

(* The stacks behind an elif or an else: the branch is taken if its        *)
(* condition holds and no earlier one of the block held.                   *)
LEMMA BranchStacks ==
    ASSUME NEW h \in Header, WellFormed(h), NEW l \in DOMAIN h,
           h[l].Directive \in {"elif", "else"}, NEW c \in BOOLEAN, c <=> Holds(h, l),
           NEW D, NEW active, NEW branches, StacksTell(h, l, D, active, branches), branches # <<>>
    PROVE  StacksTell(h, l + 1, D,
               Push(Head(branches)[1] /\ ~Head(branches)[2] /\ c, Tail(active)),
               Push(<<Head(branches)[1], Head(branches)[2] \/ c>>, Tail(branches)))
  <1> DEFINE around == Head(branches)[1]
             taken == Head(branches)[2]
             ta == Tail(active)
             tb == Tail(branches)
             top == around /\ ~taken /\ c
             pair == <<around, taken \/ c>>
             a2 == Push(top, ta)
             b2 == Push(pair, tb)
  <1>1. l \in Nat \ {0}
    BY LineDirective
  <1>2. /\ active \in Seq(BOOLEAN) /\ branches \in Seq(BOOLEAN \X BOOLEAN)
        /\ Len(active) = D + 1 /\ Len(branches) = D
        /\ D \in Nat /\ D = Depth(h, l) /\ D >= 1 /\ active # <<>>
    BY DEF StacksTell
  <1>3. Depth(h, l + 1) = D
    <2>1. h[l].Directive # "if" /\ h[l].Directive # "endif"
      OBVIOUS
    <2>2. Depth(h, l + 1) = Depth(h, l) + 0
      BY <1>1, <2>1, DepthStep
    <2> QED
      BY <1>2, <2>2
  <1>4. /\ \A i \in 1 .. D : ta[i] = active[i + 1]
        /\ \A i \in 1 .. D - 1 : tb[i] = branches[i + 1]
        /\ ta \in Seq(BOOLEAN) /\ Len(ta) = D
        /\ tb \in Seq(BOOLEAN \X BOOLEAN) /\ Len(tb) = D - 1
        /\ around = branches[1][1] /\ taken = branches[1][2]
        /\ around \in BOOLEAN /\ taken \in BOOLEAN
    BY <1>2, PoppedStacks
  <1>5. top \in BOOLEAN /\ pair \in BOOLEAN \X BOOLEAN
    BY <1>4
  <1> HIDE DEF top, pair, ta, tb
  <1>6. Len(ta) + 1 = D + 1 /\ Len(tb) + 1 = D
    BY <1>2, <1>4
  <1>7. /\ a2[1] = top /\ a2 \in Seq(BOOLEAN) /\ Len(a2) = Len(ta) + 1
        /\ \A i \in 2 .. Len(ta) + 1 : a2[i] = ta[i - 1]
    BY <1>4, <1>5, PushedActive
  <1>8. /\ b2[1] = pair /\ b2 \in Seq(BOOLEAN \X BOOLEAN) /\ Len(b2) = Len(tb) + 1
        /\ \A i \in 2 .. Len(tb) + 1 : b2[i] = tb[i - 1]
    BY <1>4, <1>5, PushedBranch
  <1>9. top <=> around /\ ~taken /\ c
    BY DEF top
  <1>10. (pair[1] <=> around) /\ (pair[2] <=> taken \/ c)
    BY DEF pair
  <1> HIDE DEF a2, b2, around, taken
  <1>11. /\ Len(a2) = D + 1 /\ \A i \in 2 .. D + 1 : a2[i] = ta[i - 1]
         /\ Len(b2) = D /\ \A i \in 2 .. D : b2[i] = tb[i - 1]
    BY <1>2, <1>6, <1>7, <1>8
  <1>12. BlocksEnd(h, l) /\ BlocksEnd(h, l + 1)
    BY BlocksEndStep DEF StacksTell
  <1>13. (around <=> AllTaken(h, l, D - 1)) /\ (taken <=> AnyHeld(h, l, D - 1))
    <2>1. D - 1 \in 0 .. D - 1 /\ D - (D - 1) = 1
      BY <1>2
    <2> QED
      BY <1>4, <2>1 DEF StacksTell
  <1>14. \A n \in 0 .. D : a2[D + 1 - n] <=> AllTaken(h, l + 1, n)
    <2> TAKE n \in 0 .. D
    <2>1. CASE n = D
      <3>1. AllTaken(h, l + 1, n) <=> AllTaken(h, l, D - 1) /\ Taken(h, l)
        BY <1>1, <1>2, <1>12, <2>1, AllTakenStep
      <3>2. Taken(h, l) <=> c /\ ~AnyHeld(h, l, D - 1)
        BY <1>2, TakenBranch
      <3>3. D + 1 - n = 1
        BY <1>2, <2>1
      <3> QED
        BY <1>7, <1>8, <1>11, <1>13, <1>9, <3>1, <3>2, <3>3
    <2>2. CASE n < D
      <3>1. AllTaken(h, l + 1, n) <=> AllTaken(h, l, n)
        BY <1>1, <1>2, <1>12, <2>2, AllTakenStep DEF Ends
      <3>2. D + 1 - n \in 2 .. D + 1 /\ (D + 1 - n) - 1 \in 1 .. D
            /\ ((D + 1 - n) - 1) + 1 = D + 1 - n
        BY <1>2, <2>2
      <3>3. active[D + 1 - n] <=> AllTaken(h, l, n)
        BY DEF StacksTell
      <3> QED
        BY <1>4, <1>7, <1>8, <1>11, <3>1, <3>2, <3>3
    <2> QED
      BY <1>2, <2>1, <2>2
  <1>15. \A n \in 0 .. D - 1 : /\ b2[D - n][1] <=> AllTaken(h, l + 1, n)
                               /\ b2[D - n][2] <=> AnyHeld(h, l + 1, n)
    <2> TAKE n \in 0 .. D - 1
    <2>1. AllTaken(h, l + 1, n) <=> AllTaken(h, l, n)
      BY <1>1, <1>2, <1>12, AllTakenStep DEF Ends
    <2>2. CASE n = D - 1
      <3>1. AnyHeld(h, l + 1, n) <=> AnyHeld(h, l, n) \/ c
        BY <1>1, <1>2, <2>2, AnyHeldStep
      <3>2. D - n = 1
        BY <1>2, <2>2
      <3> QED
        BY <1>7, <1>8, <1>11, <1>13, <1>10, <2>1, <2>2, <3>1, <3>2
    <2>3. CASE n < D - 1
      <3>1. AnyHeld(h, l + 1, n) <=> AnyHeld(h, l, n)
        BY <1>1, <1>2, <2>3, AnyHeldStep DEF Ends
      <3>2. D - n \in 2 .. D /\ (D - n) - 1 \in 1 .. D - 1 /\ ((D - n) - 1) + 1 = D - n
        BY <1>2, <2>3
      <3>3. /\ branches[D - n][1] <=> AllTaken(h, l, n)
            /\ branches[D - n][2] <=> AnyHeld(h, l, n)
        BY DEF StacksTell
      <3> QED
        BY <1>4, <1>7, <1>8, <1>11, <2>1, <3>1, <3>2, <3>3
    <2> QED
      BY <1>2, <2>2, <2>3
  <1>16. StacksTell(h, l + 1, D, a2, b2)
    BY <1>2, <1>3, <1>7, <1>8, <1>11, <1>12, <1>14, <1>15 DEF StacksTell
  <1> QED
    BY <1>16 DEF a2, b2, top, pair, ta, tb, around, taken

(* The stacks behind an endif.                                             *)
LEMMA EndifStacks ==
    ASSUME NEW h \in Header, WellFormed(h), NEW l \in DOMAIN h, h[l].Directive = "endif",
           NEW D, NEW active, NEW branches, StacksTell(h, l, D, active, branches), branches # <<>>
    PROVE  StacksTell(h, l + 1, D - 1, Tail(active), Tail(branches))
  <1> DEFINE ta == Tail(active)
             tb == Tail(branches)
  <1>1. l \in Nat \ {0}
    BY LineDirective
  <1>2. /\ active \in Seq(BOOLEAN) /\ branches \in Seq(BOOLEAN \X BOOLEAN)
        /\ Len(active) = D + 1 /\ Len(branches) = D
        /\ D \in Nat /\ D = Depth(h, l) /\ D >= 1 /\ active # <<>>
    BY DEF StacksTell
  <1>3. Depth(h, l + 1) = D - 1
    BY <1>1, <1>2, DepthStep
  <1>4. /\ \A i \in 1 .. D : ta[i] = active[i + 1]
        /\ \A i \in 1 .. D - 1 : tb[i] = branches[i + 1]
        /\ ta \in Seq(BOOLEAN) /\ Len(ta) = D - 1 + 1
        /\ tb \in Seq(BOOLEAN \X BOOLEAN) /\ Len(tb) = D - 1
    BY <1>2, PoppedStacks
  <1> HIDE DEF ta, tb
  <1>5. D - 1 \in Nat
    BY <1>2
  <1>6. Len(ta) = (D - 1) + 1
    BY <1>2, <1>4
  <1>7. BlocksEnd(h, l) /\ BlocksEnd(h, l + 1)
    BY BlocksEndStep DEF StacksTell
  <1>8. \A n \in 0 .. D - 1 : ta[D - 1 + 1 - n] <=> AllTaken(h, l + 1, n)
    <2> TAKE n \in 0 .. D - 1
    <2>1. AllTaken(h, l + 1, n) <=> AllTaken(h, l, n)
      BY <1>1, <1>2, <1>7, AllTakenStep DEF Ends
    <2>2. D - 1 + 1 - n \in 1 .. D /\ (D - 1 + 1 - n) + 1 = D + 1 - n /\ n \in 0 .. D
      BY <1>2
    <2>3. active[D + 1 - n] <=> AllTaken(h, l, n)
      BY <2>2 DEF StacksTell
    <2> QED
      BY <1>4, <2>1, <2>2, <2>3
  <1>9. \A n \in 0 .. D - 1 - 1 : /\ tb[D - 1 - n][1] <=> AllTaken(h, l + 1, n)
                                  /\ tb[D - 1 - n][2] <=> AnyHeld(h, l + 1, n)
    <2> TAKE n \in 0 .. D - 1 - 1
    <2>1. AllTaken(h, l + 1, n) <=> AllTaken(h, l, n)
      BY <1>1, <1>2, <1>7, AllTakenStep DEF Ends
    <2>2. AnyHeld(h, l + 1, n) <=> AnyHeld(h, l, n)
      <3>1. n < Depth(h, l) - 1 /\ n \in Int
        BY <1>2
      <3> QED
        BY <1>2, <3>1, AnyHeldStep DEF Ends
    <2>3. D - 1 - n \in 1 .. D - 1 /\ (D - 1 - n) + 1 = D - n /\ n \in 0 .. D - 1
      BY <1>2
    <2>4. /\ branches[D - n][1] <=> AllTaken(h, l, n)
          /\ branches[D - n][2] <=> AnyHeld(h, l, n)
      BY <2>3 DEF StacksTell
    <2> QED
      BY <1>4, <2>1, <2>2, <2>3, <2>4
  <1>10. StacksTell(h, l + 1, D - 1, ta, tb)
    <2> DEFINE E == D - 1
    <2>1. /\ E \in Nat /\ E = Depth(h, l + 1) /\ BlocksEnd(h, l + 1)
          /\ ta \in Seq(BOOLEAN) /\ Len(ta) = E + 1
          /\ tb \in Seq(BOOLEAN \X BOOLEAN) /\ Len(tb) = E
          /\ \A n \in 0 .. E : ta[E + 1 - n] <=> AllTaken(h, l + 1, n)
          /\ \A n \in 0 .. E - 1 : /\ tb[E - n][1] <=> AllTaken(h, l + 1, n)
                                   /\ tb[E - n][2] <=> AnyHeld(h, l + 1, n)
      BY ONLY <1>5, <1>3, <1>4, <1>6, <1>7, <1>8, <1>9
    <2> HIDE DEF E
    <2>2. StacksTell(h, l + 1, E, ta, tb)
      BY <2>1, Zenon DEF StacksTell
    <2> QED
      BY <2>2 DEF E
  <1> QED
    BY <1>10 DEF ta, tb

(* The stacks behind a prototype.                                          *)
LEMMA PlainStacks ==
    ASSUME NEW h \in Header, NEW l \in DOMAIN h, h[l].Directive = "none",
           NEW D, NEW active, NEW branches, StacksTell(h, l, D, active, branches)
    PROVE  StacksTell(h, l + 1, D, active, branches)
  <1>1. /\ l \in Nat \ {0} /\ BlocksEnd(h, l) /\ BlocksEnd(h, l + 1)
        /\ D \in Nat /\ D = Depth(h, l)
    BY LineDirective, BlocksEndStep DEF StacksTell
  <1>2. Depth(h, l + 1) = D
    BY <1>1, DepthStep
  <1>3. \A n \in 0 .. D : AllTaken(h, l + 1, n) <=> AllTaken(h, l, n)
    BY <1>1, AllTakenStep
  <1>4. \A n \in 0 .. D - 1 : AnyHeld(h, l + 1, n) <=> AnyHeld(h, l, n)
    BY <1>1, AnyHeldStep
  <1> QED
    BY <1>1, <1>2, <1>3, <1>4 DEF StacksTell

(* The top of the stack tells whether C compiles the line.                 *)
LEMMA TopIsActive ==
    ASSUME NEW h, NEW l \in Nat, NEW D, NEW active, NEW branches,
           StacksTell(h, l, D, active, branches)
    PROVE  Head(active) <=> Active(h, l)
  <1>1. active[1] <=> AllTaken(h, l, D)
    <2>1. D \in 0 .. D /\ D + 1 - D = 1
      BY DEF StacksTell
    <2> QED
      BY <2>1 DEF StacksTell
  <1>2. AllTaken(h, l, D) <=> Active(h, l)
    BY DEF AllTaken, Active, Governs, StacksTell
  <1>3. Head(active) = active[1]
    BY DEF StacksTell
  <1> QED
    BY <1>1, <1>2, <1>3

(* At the first line.                                                      *)
LEMMA FirstStacks ==
    ASSUME NEW h
    PROVE  StacksTell(h, 1, 0, <<TRUE>>, <<>>)
  <1> DEFINE active == <<TRUE>>
             branches == <<>>
  <1>1. Depth(h, 1) = 0
    BY DepthFirst
  <1>2. BlocksEnd(h, 1) /\ AllTaken(h, 1, 0)
    BY DEF BlocksEnd, AllTaken
  <1>3. active \in Seq(BOOLEAN) /\ Len(active) = 1 /\ active[1] = TRUE
    OBVIOUS
  <1>4. branches \in Seq(BOOLEAN \X BOOLEAN) /\ Len(branches) = 0
    OBVIOUS
  <1> HIDE DEF active, branches
  <1>5. \A n \in 0 .. 0 : active[0 + 1 - n] <=> AllTaken(h, 1, n)
    <2> TAKE n \in 0 .. 0
    <2>1. n = 0 /\ 0 + 1 - n = 1
      OBVIOUS
    <2> QED
      BY <1>2, <1>3, <2>1
  <1>6. StacksTell(h, 1, 0, active, branches)
    BY <1>1, <1>2, <1>3, <1>4, <1>5 DEF StacksTell
  <1> QED
    BY <1>6 DEF active, branches

\* The prototype in line l of header k has been kept.
Kept(k, l) == \E i \in DOMAIN output : output[i] = <<k, l>>

StackInv ==
    phase = "filter" /\ header <= Len(headers) /\ WellFormed(headers[header]) =>
        StacksTell(headers[header], line, Len(branchStack), activeStack, branchStack)

\* Of the well-formed headers, what has been read.
KeptInv ==
    phase = "filter" =>
        \A k \in DOMAIN headers : WellFormed(headers[k]) =>
            \A l \in DOMAIN headers[k] :
                Kept(k, l) <=> /\ l \in Prototypes(headers[k])
                               /\ k < header \/ (k = header /\ l < line)

FilterInv == StackInv /\ KeptInv

LEMMA FilterInit == Init => FilterInv
  <1> SUFFICES ASSUME Init PROVE FilterInv
    OBVIOUS
  <1>1. header = 1 /\ line = 1 /\ activeStack = <<TRUE>> /\ branchStack = <<>> /\ output = <<>>
    BY DEF Init, ScriptAtRest
  <1>2. headers \in Seq(Header)
    BY TypeInit DEF TypeInv, TypeOK
  <1>3. StackInv
    <2>1. Len(<<>>) = 0
      OBVIOUS
    <2> QED
      BY <1>1, <2>1, FirstStacks DEF StackInv
  <1>4. KeptInv
    BY <1>1, <1>2 DEF KeptInv, Kept, Header
  <1> QED
    BY <1>3, <1>4 DEF FilterInv

\* The line that is read, in a header that C can read.
LEMMA StacksBefore ==
    ASSUME TypeInv, FilterInv, NEW directive, Reading(directive), WellFormed(headers[header])
    PROVE  /\ headers[header] \in Header /\ line \in DOMAIN headers[header]
           /\ headers[header][line].Directive = directive
           /\ StacksTell(headers[header], line, Len(branchStack), activeStack, branchStack)
  <1>1. header \in DOMAIN headers /\ line \in DOMAIN headers[header] /\ Current.Directive = directive
    BY CurrentLine
  <1>2. StacksTell(headers[header], line, Len(branchStack), activeStack, branchStack)
    BY DEF FilterInv, StackInv, Reading
  <1> QED
    BY <1>1, <1>2 DEF TypeInv, TypeOK, Current

\* What is left to show of a step that reads a line.
LEMMA LineRead ==
    ASSUME TypeInv, FilterInv, NEW directive, Reading(directive), NextLine,
           NEW ACTION keep,
           \A k, l : Kept(k, l)' <=> Kept(k, l) \/ (keep /\ k = header /\ l = line),
           WellFormed(headers[header]) =>
               /\ StacksTell(headers[header], line + 1, Len(branchStack'), activeStack', branchStack')
               /\ keep <=> line \in Prototypes(headers[header])
    PROVE  FilterInv'
  <1>1. /\ header \in DOMAIN headers /\ line \in DOMAIN headers[header]
        /\ phase = "filter" /\ header <= Len(headers)
    BY CurrentLine DEF Reading
  <1>2. headers' = headers /\ header' = header /\ line' = line + 1 /\ phase' = phase
    BY DEF NextLine
  <1>3. headers \in Seq(Header) /\ line \in Nat /\ header \in Nat
    BY DEF TypeInv, TypeOK
  <1>4. StackInv'
    BY <1>2 DEF StackInv
  <1>5. KeptInv'
    <2> SUFFICES ASSUME NEW k \in DOMAIN headers, WellFormed(headers[k]), NEW l \in DOMAIN headers[k]
                 PROVE  Kept(k, l)' <=> /\ l \in Prototypes(headers[k])
                                        /\ k < header \/ (k = header /\ l < line + 1)
      BY <1>2 DEF KeptInv
    <2>1. Kept(k, l) <=> /\ l \in Prototypes(headers[k])
                         /\ k < header \/ (k = header /\ l < line)
      BY <1>1 DEF FilterInv, KeptInv
    <2>2. k \in Nat /\ l \in Nat
      BY <1>3 DEF Header
    <2>3. CASE k = header /\ l = line
      <3>1. keep <=> l \in Prototypes(headers[k])
        BY <2>3
      <3>2. ~Kept(k, l)
        BY <1>3, <2>1, <2>3
      <3> QED
        BY <1>3, <2>3, <3>1, <3>2
    <2>4. CASE ~(k = header /\ l = line)
      BY <1>3, <2>1, <2>2, <2>4
    <2> QED
      BY <2>3, <2>4
  <1> QED
    BY <1>4, <1>5 DEF FilterInv

\* A directive is not kept.
LEMMA DirectiveRead ==
    ASSUME TypeInv, FilterInv, NEW directive, Reading(directive), directive # "none",
           NextLine, UNCHANGED output,
           WellFormed(headers[header]) =>
               StacksTell(headers[header], line + 1, Len(branchStack'), activeStack', branchStack')
    PROVE  FilterInv'
  <1>1. \A k, l : Kept(k, l)' <=> Kept(k, l)
    BY DEF Kept
  <1>2. line \notin Prototypes(headers[header])
    BY CurrentLine DEF Prototypes, Current
  <1> QED
    BY <1>1, <1>2, LineRead

LEMMA FilterStep == TypeInv /\ TypeInv' /\ FilterInv /\ [Next]_vars => FilterInv'
  <1> SUFFICES ASSUME TypeInv, TypeInv', FilterInv, [Next]_vars PROVE FilterInv'
    OBVIOUS
  <1> DEFINE h == headers[header]
             D == Len(branchStack)
  <1>1. ASSUME KeepLine PROVE FilterInv'
    <2>1. /\ Reading("none") /\ NextLine /\ Head(activeStack)
          /\ activeStack' = activeStack /\ branchStack' = branchStack
          /\ output' = Append(output, <<header, line>>)
      BY <1>1 DEF KeepLine
    <2>2. output \in Seq(Nat \X Nat) /\ line \in Nat /\ header \in Nat
      BY DEF TypeInv, TypeOK
    <2>3. \A k, l : Kept(k, l)' <=> Kept(k, l) \/ (TRUE /\ k = header /\ l = line)
      <3> DEFINE this == <<header, line>>
                 n == Len(output)
      <3>0. output' = Append(output, this)
        BY <2>1
      <3>1. output \in Seq(Nat \X Nat) /\ n \in Nat
        BY <2>2
      <3> HIDE DEF this
      <3>2. Len(output') = n + 1 /\ output'[n + 1] = this
        BY <3>0, <3>1
      <3>3. \A i \in 1 .. n : output'[i] = output[i]
        BY <3>0, <3>1
      <3>4. DOMAIN output' = 1 .. n + 1 /\ DOMAIN output = 1 .. n
        BY <3>0, <3>1, <3>2
      <3> HIDE DEF n
      <3> SUFFICES ASSUME NEW k, NEW l
                   PROVE  Kept(k, l)' <=> Kept(k, l) \/ this = <<k, l>>
        BY DEF this
      <3>5. Kept(k, l)' <=> \E i \in 1 .. n + 1 : output'[i] = <<k, l>>
        BY <3>4 DEF Kept
      <3>6. Kept(k, l) <=> \E i \in 1 .. n : output[i] = <<k, l>>
        BY <3>4 DEF Kept
      <3>7. \A i : i \in 1 .. n + 1 <=> i \in 1 .. n \/ i = n + 1
        BY <3>1
      <3> QED
        BY <3>2, <3>3, <3>5, <3>6, <3>7
    <2>4. WellFormed(h) => /\ StacksTell(h, line + 1, D, activeStack, branchStack)
                           /\ line \in Prototypes(h)
      <3> SUFFICES ASSUME WellFormed(h) PROVE /\ StacksTell(h, line + 1, D, activeStack, branchStack)
                                              /\ line \in Prototypes(h)
        OBVIOUS
      <3>1. /\ h \in Header /\ line \in DOMAIN h /\ h[line].Directive = "none"
            /\ StacksTell(h, line, D, activeStack, branchStack)
        BY <2>1, StacksBefore
      <3> HIDE DEF h, D
      <3>2. StacksTell(h, line + 1, D, activeStack, branchStack)
        BY <3>1, PlainStacks
      <3>3. Active(h, line)
        BY <2>1, <2>2, <3>1, TopIsActive
      <3> QED
        BY <3>1, <3>2, <3>3 DEF Prototypes
    <2> QED
      BY <2>1, <2>3, <2>4, LineRead
  <1>2. ASSUME DropLine PROVE FilterInv'
    <2>1. /\ Reading("none") /\ NextLine /\ ~Head(activeStack)
          /\ activeStack' = activeStack /\ branchStack' = branchStack
          /\ output' = output
      BY <1>2 DEF DropLine
    <2>2. \A k, l : Kept(k, l)' <=> Kept(k, l)
      BY <2>1 DEF Kept
    <2>3. line \in Nat /\ header \in Nat
      BY DEF TypeInv, TypeOK
    <2>4. WellFormed(h) => /\ StacksTell(h, line + 1, D, activeStack, branchStack)
                           /\ line \notin Prototypes(h)
      <3> SUFFICES ASSUME WellFormed(h) PROVE /\ StacksTell(h, line + 1, D, activeStack, branchStack)
                                              /\ line \notin Prototypes(h)
        OBVIOUS
      <3>1. /\ h \in Header /\ line \in DOMAIN h /\ h[line].Directive = "none"
            /\ StacksTell(h, line, D, activeStack, branchStack)
        BY <2>1, StacksBefore
      <3> HIDE DEF h, D
      <3>4. StacksTell(h, line + 1, D, activeStack, branchStack)
        BY <3>1, PlainStacks
      <3>5. ~Active(h, line)
        BY <2>1, <2>3, <3>1, TopIsActive
      <3> QED
        BY <3>4, <3>5 DEF Prototypes
    <2> QED
      BY <2>1, <2>2, <2>4, LineRead
  <1>3. ASSUME If PROVE FilterInv'
    <2>1. /\ Reading("if") /\ NextLine /\ UNCHANGED output
          /\ branchStack' = Push(<<Head(activeStack), h[line].Condition>>, branchStack)
          /\ activeStack' = Push(Head(activeStack) /\ h[line].Condition, activeStack)
      BY <1>3 DEF If, Current
    <2>2. ASSUME WellFormed(h)
          PROVE  StacksTell(h, line + 1, Len(branchStack'), activeStack', branchStack')
      <3>1. /\ h \in Header /\ line \in DOMAIN h /\ h[line].Directive = "if"
            /\ StacksTell(h, line, D, activeStack, branchStack)
        BY <2>1, <2>2, StacksBefore
      <3> HIDE DEF h, D
      <3>2. StacksTell(h, line + 1, D + 1, activeStack', branchStack')
        BY <2>1, <2>2, <3>1, IfStacks
      <3> QED
        BY <3>2 DEF StacksTell
    <2> QED
      BY <2>1, <2>2, DirectiveRead
  <1>4. ASSUME NEW c \in BOOLEAN, NEW d \in {"elif", "else"}, Reading(d), branchStack # <<>>,
               c = (d = "else" \/ Current.Condition), Branch(c), NextLine, UNCHANGED output
        PROVE  FilterInv'
    <2>1. /\ branchStack' = Push(<<Head(branchStack)[1], Head(branchStack)[2] \/ c>>, Tail(branchStack))
          /\ activeStack' = Push(Head(branchStack)[1] /\ ~Head(branchStack)[2] /\ c, Tail(activeStack))
      BY <1>4 DEF Branch, NewBranch, ParentActive, BranchTaken
    <2>2. ASSUME WellFormed(h)
          PROVE  StacksTell(h, line + 1, Len(branchStack'), activeStack', branchStack')
      <3>1. /\ h \in Header /\ line \in DOMAIN h /\ h[line].Directive = d
            /\ StacksTell(h, line, D, activeStack, branchStack)
        BY <1>4, <2>2, StacksBefore
      <3>2. c <=> Holds(h, line)
        BY <1>4, <3>1 DEF Holds, Current
      <3> HIDE DEF h, D
      <3>3. StacksTell(h, line + 1, D, activeStack', branchStack')
        BY <1>4, <2>1, <2>2, <3>1, <3>2, BranchStacks
      <3> QED
        BY <3>3 DEF StacksTell
    <2> QED
      BY <1>4, <2>2, DirectiveRead
  <1>5. ASSUME Elif PROVE FilterInv'
    <2>1. /\ Reading("elif") /\ branchStack # <<>> /\ Branch(Current.Condition)
          /\ NextLine /\ UNCHANGED output
      BY <1>5 DEF Elif
    <2>2. Current.Condition \in BOOLEAN
      BY <2>1, CurrentLine
    <2> QED
      BY <1>4, <2>1, <2>2
  <1>6. ASSUME Else PROVE FilterInv'
    BY <1>4, <1>6 DEF Else
  <1>7. ASSUME Endif PROVE FilterInv'
    <2>1. /\ Reading("endif") /\ branchStack # <<>> /\ NextLine /\ UNCHANGED output
          /\ branchStack' = Tail(branchStack) /\ activeStack' = Tail(activeStack)
      BY <1>7 DEF Endif
    <2>2. ASSUME WellFormed(h)
          PROVE  StacksTell(h, line + 1, Len(branchStack'), activeStack', branchStack')
      <3>1. /\ h \in Header /\ line \in DOMAIN h /\ h[line].Directive = "endif"
            /\ StacksTell(h, line, D, activeStack, branchStack)
        BY <2>1, <2>2, StacksBefore
      <3> HIDE DEF h, D
      <3>2. StacksTell(h, line + 1, D - 1, activeStack', branchStack')
        BY <2>1, <2>2, <3>1, EndifStacks
      <3> QED
        BY <3>2 DEF StacksTell
    <2> QED
      BY <2>1, <2>2, DirectiveRead
  <1>8. ASSUME Stray PROVE FilterInv'
    <2> PICK d \in {"elif", "else", "endif"} : Reading(d)
      BY <1>8 DEF Stray
    <2>1. branchStack = <<>> /\ NextLine /\ UNCHANGED output
      BY <1>8 DEF Stray
    <2>2. ~WellFormed(h)
      <3> SUFFICES ASSUME WellFormed(h) PROVE FALSE
        OBVIOUS
      <3>1. /\ h \in Header /\ line \in DOMAIN h /\ h[line].Directive = d
            /\ StacksTell(h, line, D, activeStack, branchStack)
        BY StacksBefore
      <3>2. D = 0
        BY <2>1
      <3> HIDE DEF h, D
      <3>3. Depth(h, line) = 0
        BY <3>1, <3>2 DEF StacksTell
      <3>4. Depth(h, line) > 0
        BY <3>1 DEF WellFormed
      <3> QED
        BY <3>3, <3>4
    <2> QED
      BY <2>1, <2>2, DirectiveRead
  <1>9. ASSUME NextHeader PROVE FilterInv'
    <2>1. /\ phase = "filter" /\ header <= Len(headers) /\ line > Len(headers[header])
          /\ header' = header + 1 /\ line' = 1 /\ headers' = headers /\ phase' = phase
          /\ activeStack' = <<TRUE>> /\ branchStack' = <<>> /\ output' = output
      BY <1>9 DEF NextHeader
    <2>2. headers \in Seq(Header) /\ line \in Nat \ {0} /\ header \in Nat \ {0}
      BY DEF TypeInv, TypeOK
    <2>3. StackInv'
      <3>1. Len(<<>>) = 0
        OBVIOUS
      <3> QED
        BY <2>1, <3>1, FirstStacks DEF StackInv
    <2>4. KeptInv'
      <3> SUFFICES ASSUME NEW k \in DOMAIN headers, WellFormed(headers[k]), NEW l \in DOMAIN headers[k]
                   PROVE  Kept(k, l)' <=> /\ l \in Prototypes(headers[k])
                                          /\ k < header + 1 \/ (k = header + 1 /\ l < 1)
        BY <2>1 DEF KeptInv
      <3>1. Kept(k, l)' <=> Kept(k, l)
        BY <2>1 DEF Kept
      <3>2. Kept(k, l) <=> /\ l \in Prototypes(headers[k])
                           /\ k < header \/ (k = header /\ l < line)
        BY <2>1 DEF FilterInv, KeptInv
      <3>3. k \in Nat /\ l \in Nat /\ l >= 1 /\ l <= Len(headers[k]) /\ Len(headers[k]) \in Nat
        BY <2>2 DEF Header
      <3> QED
        BY <2>1, <2>2, <3>1, <3>2, <3>3
    <2> QED
      BY <2>3, <2>4 DEF FilterInv
  <1>10. ASSUME phase' # "filter" PROVE FilterInv'
    BY <1>10 DEF FilterInv, StackInv, KeptInv
  <1>11. ASSUME Build PROVE FilterInv'
    BY <1>10, <1>11 DEF Build, EndFilter, ExtractPrototype, EndExtract, EndEntries, AddEntry,
           SkipEntry, Visit, UpdateHeaders, Compile, CompileFails
  <1>12. ASSUME Lookup PROVE FilterInv'
    BY <1>10, <1>12 DEF Lookup
  <1>13. ASSUME UNCHANGED vars PROVE FilterInv'
    BY <1>13 DEF vars, scriptVars, readVars, FilterInv, StackInv, KeptInv, Kept
  <1> QED
    BY <1>1, <1>2, <1>3, <1>5, <1>6, <1>7, <1>8, <1>9, <1>11, <1>12, <1>13
       DEF Next, Filter, Failed

(* What filter_active_lines keeps of a header that is well formed, up to   *)
(* the line it has reached, are the prototypes C compiles.                 *)
THEOREM FilterIsRight == Spec => []FilterRight
  <1>1. Init => FilterInv
    BY FilterInit
  <1>2. TypeInv /\ TypeInv' /\ FilterInv /\ [Next]_vars => FilterInv'
    BY FilterStep
  <1>3. TypeInv /\ FilterInv => FilterRight
    <2> SUFFICES ASSUME TypeInv, FilterInv, phase = "filter", header <= Len(headers),
                        WellFormed(headers[header])
                 PROVE  {p[2] : p \in {output[i] : i \in {i \in DOMAIN output : output[i][1] = header}}}
                            = Prototypes(headers[header]) \cap (1 .. line - 1)
      BY DEF FilterRight
    <2> DEFINE kept == {p[2] : p \in {output[i] : i \in {i \in DOMAIN output : output[i][1] = header}}}
    <2>1. output \in Seq(Nat \X Nat) /\ header \in DOMAIN headers /\ line \in Nat
      <3>1. headers \in Seq(Header) /\ header \in Nat \ {0}
        BY DEF TypeInv, TypeOK
      <3> QED
        BY <3>1 DEF TypeInv, TypeOK
    <2>2. \A l : l \in kept <=> Kept(header, l)
      <3> TAKE l
      <3>1. \A i \in DOMAIN output : output[i] = <<output[i][1], output[i][2]>>
        BY <2>1
      <3>2. l \in kept <=> \E i \in DOMAIN output : output[i][1] = header /\ output[i][2] = l
        OBVIOUS
      <3> QED
        BY <3>1, <3>2 DEF Kept
    <2>3. \A l : Kept(header, l) => l \in DOMAIN headers[header]
      BY DEF TypeInv, OutputOK, IsPrototype, Kept
    <2>4. \A l \in DOMAIN headers[header] :
              Kept(header, l) <=> l \in Prototypes(headers[header]) /\ l < line
      BY <2>1 DEF FilterInv, KeptInv, TypeInv, TypeOK
    <2>5. headers[header] \in Seq(Line)
      BY <2>1 DEF TypeInv, TypeOK, Header
    <2>6. \A l \in DOMAIN headers[header] : l \in 1 .. line - 1 <=> l < line
      BY <2>1, <2>5
    <2>7. Prototypes(headers[header]) \subseteq DOMAIN headers[header]
      BY DEF Prototypes
    <2> HIDE DEF kept
    <2>8. kept = Prototypes(headers[header]) \cap (1 .. line - 1)
      BY <2>2, <2>3, <2>4, <2>6, <2>7
    <2> QED
      BY <2>8 DEF kept
  <1> QED
    BY <1>1, <1>2, <1>3, TypeInit, TypeStep, PTL DEF Spec

-----------------------------------------------------------------------------
(* The table that is written.  extract_prototypes is left with one type    *)
(* list for each name wanted that is declared, and build_signature_entries *)
(* with one row for each export whose name such a list was found for.      *)

\* What the prefixes of str.startswith are: NtWow64 begins with Nt and Zw
\* does not, and the name that is looked up for a Zw export begins with Nt.
Prefixes ==
    \A name \in Names :
        /\ IsWow64(name) => IsNt(name)
        /\ IsZw(name) => ~IsNt(name) /\ IsNt(NtName(name))

\* A module has finitely many exports.
FiniteExports == \A names \in ExportSets : IsFiniteSet(names)

AllWellFormed == \A k \in DOMAIN headers : WellFormed(headers[k])

\* Prototypes are only gathered behind the filter, and rows behind that.
StagesInv ==
    /\ phase = "filter" => DOMAIN prototypes = {}
    /\ phase \in {"filter", "extract"} => registrations = <<>>
    /\ phase = "written" => left = {}
    /\ phase \in {"filter", "extract", "entries", "written"} => exports \in ExportSets

\* Each prototype is still to be visited or has been.
ExtractInv ==
    phase = "extract" /\ AllWellFormed =>
        /\ \A i \in DOMAIN output : output[i][2] \in Prototypes(headers[output[i][1]])
        /\ \A n \in DOMAIN prototypes : Wanted(n) /\ FirstDeclared(n, prototypes[n])
        /\ \A k \in DOMAIN headers : \A l \in Prototypes(headers[k]) :
               Wanted(headers[k][l].Name) =>
                   Kept(k, l) \/ headers[k][l].Name \in DOMAIN prototypes

PrototypesInv ==
    phase \in {"entries", "written"} /\ AllWellFormed =>
        /\ \A n : n \in DOMAIN prototypes <=> Wanted(n) /\ Declared(n) # {}
        /\ \A n \in DOMAIN prototypes : FirstDeclared(n, prototypes[n])

Visited == {export \in exports \ left : HasPrototype(export)}
RowFor(export) == <<export, TypeSource(export), prototypes[TypeSource(export)]>>

RowsInv ==
    phase \in {"entries", "written"} =>
        /\ Len(registrations) = Cardinality(Visited)
        /\ \A export \in Visited : \E i \in Positions : registrations[i] = RowFor(export)

\* The prototypes that are kept are in the order of the headers.
OrderInv ==
    /\ \A i, j \in DOMAIN output : i < j => Earlier(output[i], output[j])
    /\ phase = "filter" => \A i \in DOMAIN output : Earlier(output[i], <<header, line>>)

TableOfHeaders == StagesInv /\ OrderInv /\ ExtractInv /\ PrototypesInv /\ RowsInv

LEMMA DeclaredTypes ==
    ASSUME NEW name, NEW types
    PROVE  types \in Declared(name) <=>
               \E k \in DOMAIN headers : \E l \in Prototypes(headers[k]) :
                   headers[k][l].Name = name /\ headers[k][l].Types = types
  BY DEF Declared, DeclaredIn

LEMMA FirstIsDeclared ==
    ASSUME NEW name, NEW types, FirstDeclared(name, types)
    PROVE  types \in Declared(name)
  BY DeclaredTypes DEF FirstDeclared

LEMMA OrderStep ==
    ASSUME TypeInv, OrderInv, [Next]_vars
    PROVE  OrderInv'
  <1>1. output \in Seq(Nat \X Nat) /\ header \in Nat /\ line \in Nat
    BY DEF TypeInv, TypeOK
  <1>2. \A i \in DOMAIN output : output[i][1] \in Nat /\ output[i][2] \in Nat
    BY <1>1
  <1>3. CASE KeepLine
    <2>1. /\ output' = Append(output, <<header, line>>) /\ phase = "filter"
          /\ header' = header /\ line' = line + 1
      BY <1>3 DEF KeepLine, Reading, NextLine
    <2>2. /\ DOMAIN output' = DOMAIN output \cup {Len(output) + 1}
          /\ \A i \in DOMAIN output : output'[i] = output[i] /\ i \in Nat /\ i <= Len(output)
          /\ output'[Len(output) + 1] = <<header, line>> /\ Len(output) \in Nat
      <3>1. output' \in Seq(Nat \X Nat) /\ Len(output') = Len(output) + 1 /\ Len(output) \in Nat
        BY <1>1, <2>1
      <3>2. DOMAIN output = 1 .. Len(output) /\ DOMAIN output' = 1 .. Len(output')
        BY <1>1, <3>1
      <3>3. /\ \A i \in 1 .. Len(output) : output'[i] = output[i]
            /\ output'[Len(output) + 1] = <<header, line>>
        BY <1>1, <2>1
      <3> QED
        BY <3>1, <3>2, <3>3
    <2>3. ASSUME NEW i \in DOMAIN output', NEW j \in DOMAIN output', i < j
          PROVE  Earlier(output'[i], output'[j])
      <3>1. i \in DOMAIN output
        BY <2>2, <2>3
      <3>2. CASE j \in DOMAIN output
        BY <2>2, <2>3, <3>1, <3>2 DEF OrderInv
      <3>3. CASE j = Len(output) + 1
        BY <2>1, <2>2, <3>1, <3>3 DEF OrderInv
      <3> QED
        BY <2>2, <3>2, <3>3
    <2>4. ASSUME NEW i \in DOMAIN output' PROVE Earlier(output'[i], <<header, line + 1>>)
      <3>1. CASE i \in DOMAIN output
        <4>1. Earlier(output[i], <<header, line>>)
          BY <2>1, <3>1 DEF OrderInv
        <4> QED
          BY <1>1, <1>2, <2>2, <3>1, <4>1 DEF Earlier
      <3>2. CASE i = Len(output) + 1
        BY <1>1, <2>2, <3>2 DEF Earlier
      <3> QED
        BY <2>2, <3>1, <3>2
    <2> QED
      BY <2>1, <2>3, <2>4 DEF OrderInv
  <1>4. ASSUME phase = "filter", UNCHANGED output,
               \/ header' = header /\ line' = line + 1
               \/ header' = header + 1
        PROVE  OrderInv'
    <2>1. ASSUME NEW i \in DOMAIN output PROVE Earlier(output[i], <<header', line'>>)
      <3>1. Earlier(output[i], <<header, line>>)
        BY <1>4 DEF OrderInv
      <3> QED
        BY <1>1, <1>2, <1>4, <3>1 DEF Earlier
    <2> QED
      BY <1>4, <2>1 DEF OrderInv
  <1>5. CASE ExtractPrototype
    <2>1. output' = Tail(output) /\ output # <<>> /\ phase' = "extract"
      BY <1>5 DEF ExtractPrototype
    <2>2. \A i \in DOMAIN output' : i \in Nat /\ i + 1 \in DOMAIN output /\ output'[i] = output[i + 1]
      BY <1>1, <2>1
    <2>3. ASSUME NEW i \in DOMAIN output', NEW j \in DOMAIN output', i < j
          PROVE  Earlier(output'[i], output'[j])
      <3>1. i + 1 < j + 1
        BY <2>2, <2>3
      <3> QED
        BY <2>2, <3>1 DEF OrderInv
    <2> QED
      BY <2>1, <2>3 DEF OrderInv
  <1>6. ASSUME output' \in {output, <<>>}, phase' = "filter" => UNCHANGED <<phase, output, header, line>>
        PROVE  OrderInv'
    BY <1>6 DEF OrderInv
  <1>7. CASE Filter /\ ~KeepLine
    <2>1. /\ phase = "filter" /\ UNCHANGED output
          /\ \/ header' = header /\ line' = line + 1
             \/ header' = header + 1
      <3>1. CASE NextHeader
        BY <3>1 DEF NextHeader
      <3>2. CASE DropLine \/ If \/ Elif \/ Else \/ Endif \/ Stray
        BY <3>2 DEF DropLine, If, Elif, Else, Endif, Stray, NextLine, Reading
      <3> QED
        BY <1>7, <3>1, <3>2 DEF Filter
    <2> QED
      BY <1>4, <2>1
  <1>8. CASE Build /\ ~ExtractPrototype
    <2>1. output' \in {output, <<>>} /\ phase' # "filter"
      BY <1>8 DEF Build, EndFilter, EndExtract, EndEntries, AddEntry, SkipEntry, Visit,
             UpdateHeaders, Compile, CompileFails, scriptVars
    <2> QED
      BY <1>6, <2>1
  <1>9. Lookup \/ UNCHANGED vars => UNCHANGED <<phase, output, header, line>>
    BY DEF Lookup, vars, scriptVars, readVars
  <1> QED
    BY <1>3, <1>5, <1>6, <1>7, <1>8, <1>9 DEF Next, Failed

LEMMA StagesStep ==
    ASSUME TypeInv, StagesInv, [Next]_vars
    PROVE  StagesInv'
  <1>1. CASE Filter
    <2>1. UNCHANGED <<registrations, phase, exports, prototypes, left>> /\ phase = "filter"
      BY <1>1 DEF Filter, KeepLine, DropLine, If, Elif, Else, Endif, Stray, NextHeader, NextLine,
             Reading
    <2> QED
      BY <2>1 DEF StagesInv
  <1>2. CASE Build
    BY <1>2 DEF StagesInv, Build, EndFilter, ExtractPrototype, EndExtract, EndEntries, AddEntry,
           SkipEntry, Visit, UpdateHeaders, Compile, CompileFails, scriptVars
  <1>3. CASE Lookup
    BY <1>3 DEF StagesInv, Lookup
  <1>4. CASE UNCHANGED vars
    BY <1>4 DEF StagesInv, vars, scriptVars
  <1> QED
    BY <1>1, <1>2, <1>3, <1>4 DEF Next, Failed

LEMMA SameDeclarations ==
    ASSUME UNCHANGED headers
    PROVE  /\ \A n : Declared(n)' = Declared(n)
           /\ \A n, types : FirstDeclared(n, types)' <=> FirstDeclared(n, types)
  BY DEF Declared, FirstDeclared

\* Other steps than those of the script's second half do not disturb it.
LEMMA TableElsewhere ==
    ASSUME TableOfHeaders,
           \/ phase' \notin {"extract", "entries", "written"}
           \/ UNCHANGED <<phase, headers, exports, output, prototypes, left, registrations>>
    PROVE  ExtractInv' /\ PrototypesInv' /\ RowsInv'
  <1>1. CASE phase' \notin {"extract", "entries", "written"}
    BY <1>1 DEF ExtractInv, PrototypesInv, RowsInv
  <1>2. CASE UNCHANGED <<phase, headers, exports, output, prototypes, left, registrations>>
    <2>1. ExtractInv'
      BY <1>2, SameDeclarations DEF TableOfHeaders, ExtractInv, AllWellFormed, Kept
    <2>2. PrototypesInv'
      BY <1>2, SameDeclarations DEF TableOfHeaders, PrototypesInv, AllWellFormed
    <2>3. RowsInv'
      BY <1>2 DEF TableOfHeaders, RowsInv, Visited, RowFor, HasPrototype, TypeSource, Positions
    <2> QED
      BY <2>1, <2>2, <2>3
  <1> QED
    BY <1>1, <1>2

LEMMA EndFilterTable ==
    ASSUME TypeInv, FilterInv, TableOfHeaders, EndFilter
    PROVE  ExtractInv' /\ PrototypesInv' /\ RowsInv'
  <1>1. /\ phase = "filter" /\ header > Len(headers) /\ phase' = "extract"
        /\ UNCHANGED <<headers, output, prototypes>>
    BY DEF EndFilter, scriptVars
  <1>2. ExtractInv'
    <2> SUFFICES ASSUME AllWellFormed
                 PROVE  /\ \A i \in DOMAIN output : output[i][2] \in Prototypes(headers[output[i][1]])
                        /\ DOMAIN prototypes = {}
                        /\ \A k \in DOMAIN headers : \A l \in Prototypes(headers[k]) : Kept(k, l)
      BY <1>1 DEF ExtractInv, AllWellFormed, Kept, FirstDeclared
    <2>1. headers \in Seq(Header) /\ header \in Nat /\ output \in Seq(Nat \X Nat)
      BY DEF TypeInv, TypeOK
    <2>2. \A k \in DOMAIN headers : k \in Nat /\ k < header
      BY <1>1, <2>1
    <2>3. \A k \in DOMAIN headers : \A l \in DOMAIN headers[k] :
              Kept(k, l) <=> l \in Prototypes(headers[k])
      BY <1>1, <2>1, <2>2 DEF FilterInv, KeptInv, AllWellFormed
    <2>4. ASSUME NEW i \in DOMAIN output
          PROVE  output[i][2] \in Prototypes(headers[output[i][1]])
      <3>1. output[i] = <<output[i][1], output[i][2]>>
        BY <2>1
      <3>2. Kept(output[i][1], output[i][2])
        BY <3>1 DEF Kept
      <3>3. output[i][1] \in DOMAIN headers /\ output[i][2] \in DOMAIN headers[output[i][1]]
        BY DEF TypeInv, OutputOK, IsPrototype
      <3> QED
        BY <2>3, <3>2, <3>3
    <2>5. \A k \in DOMAIN headers : Prototypes(headers[k]) \subseteq DOMAIN headers[k]
      BY DEF Prototypes
    <2>6. DOMAIN prototypes = {}
      BY <1>1 DEF TableOfHeaders, StagesInv
    <2> QED
      BY <2>3, <2>4, <2>5, <2>6
  <1> QED
    BY <1>1, <1>2 DEF PrototypesInv, RowsInv

\* setdefault visits the next prototype.
LEMMA ExtractTable ==
    ASSUME TypeInv, TableOfHeaders, ExtractPrototype
    PROVE  ExtractInv' /\ PrototypesInv' /\ RowsInv'
  <1> DEFINE position == Head(output)
             p == LineAt(position)
             new == New(p.Name)
  <1>1. /\ phase = "extract" /\ output # <<>> /\ phase' = "extract" /\ headers' = headers
        /\ output' = Tail(output) /\ DOMAIN prototypes' = DOMAIN prototypes \cup new
        /\ \A n \in DOMAIN prototypes' :
               prototypes'[n] = IF n \in new THEN p.Types ELSE prototypes[n]
    BY DEF ExtractPrototype, New
  <1>2. output \in Seq(Nat \X Nat)
    BY DEF TypeInv, TypeOK
  <1>3. /\ position = output[1] /\ 1 \in DOMAIN output /\ position = <<position[1], position[2]>>
        /\ \A i \in DOMAIN output' : i + 1 \in DOMAIN output /\ output'[i] = output[i + 1]
        /\ \A i \in DOMAIN output : i # 1 => i - 1 \in DOMAIN output' /\ output'[i - 1] = output[i]
    <2>1. Len(output) \in Nat \ {0} /\ position = output[1] /\ output[1] \in Nat \X Nat
      BY <1>1, <1>2
    <2>2. output' \in Seq(Nat \X Nat) /\ Len(output') = Len(output) - 1
      BY <1>1, <1>2
    <2>3. \A i \in 1 .. Len(output) - 1 : output'[i] = output[i + 1]
      BY <1>1, <1>2
    <2>4. DOMAIN output = 1 .. Len(output) /\ DOMAIN output' = 1 .. Len(output) - 1
      BY <1>2, <2>2
    <2>5. \A i \in DOMAIN output' : i + 1 \in DOMAIN output
      BY <2>1, <2>4
    <2>6. \A i \in DOMAIN output : i # 1 => i - 1 \in DOMAIN output' /\ (i - 1) + 1 = i
      BY <2>1, <2>4
    <2> QED
      BY <2>1, <2>3, <2>4, <2>5, <2>6
  <1>4. IsPrototype(position)
    BY <1>3 DEF TypeInv, OutputOK
  <1> SUFFICES ASSUME AllWellFormed
               PROVE  /\ \A i \in DOMAIN output' : output'[i][2] \in Prototypes(headers[output'[i][1]])
                      /\ \A n \in DOMAIN prototypes' : Wanted(n) /\ FirstDeclared(n, prototypes'[n])
                      /\ \A k \in DOMAIN headers : \A l \in Prototypes(headers[k]) :
                             Wanted(headers[k][l].Name) =>
                                 Kept(k, l)' \/ headers[k][l].Name \in DOMAIN prototypes'
    BY <1>1 DEF ExtractInv, PrototypesInv, RowsInv, AllWellFormed, FirstDeclared
  <1>5. /\ \A i \in DOMAIN output : output[i][2] \in Prototypes(headers[output[i][1]])
        /\ \A n \in DOMAIN prototypes : Wanted(n) /\ FirstDeclared(n, prototypes[n])
        /\ \A k \in DOMAIN headers : \A l \in Prototypes(headers[k]) :
               Wanted(headers[k][l].Name) => Kept(k, l) \/ headers[k][l].Name \in DOMAIN prototypes
    BY <1>1 DEF TableOfHeaders, ExtractInv
  <1>6. \A i \in DOMAIN output' : output'[i][2] \in Prototypes(headers[output'[i][1]])
    BY <1>3, <1>5
  <1>7. ASSUME Wanted(p.Name), p.Name \notin DOMAIN prototypes
        PROVE  FirstDeclared(p.Name, p.Types)
    <2>1. position[1] \in DOMAIN headers /\ position[2] \in Prototypes(headers[position[1]])
      BY <1>3, <1>4, <1>5 DEF IsPrototype
    <2>2. p = headers[position[1]][position[2]]
      BY DEF LineAt
    <2>3. ASSUME NEW k \in DOMAIN headers, NEW l \in Prototypes(headers[k]),
                 headers[k][l].Name = p.Name
          PROVE  ~Earlier(<<k, l>>, position)
      <3>1. PICK i \in DOMAIN output : output[i] = <<k, l>>
        BY <1>5, <1>7, <2>3 DEF Kept
      <3>2. i = 1 \/ 1 < i
        BY <1>2
      <3>3. i = 1 \/ Earlier(position, <<k, l>>)
        BY <1>3, <3>1, <3>2 DEF TableOfHeaders, OrderInv
      <3>4. position \in Nat \X Nat /\ <<k, l>> \in Nat \X Nat
        BY <1>2, <1>3, <3>1
      <3> QED
        BY <1>3, <3>1, <3>3, <3>4 DEF Earlier
    <2>4. position = <<position[1], position[2]>>
      BY <1>3
    <2> HIDE DEF position, p
    <2> QED
      BY <2>1, <2>2, <2>3, <2>4 DEF FirstDeclared
  <1>8. \A n \in DOMAIN prototypes' : Wanted(n) /\ FirstDeclared(n, prototypes'[n])
    BY <1>1, <1>5, <1>7 DEF New
  <1>9. ASSUME NEW k \in DOMAIN headers, NEW l \in Prototypes(headers[k]),
               Wanted(headers[k][l].Name)
        PROVE  Kept(k, l)' \/ headers[k][l].Name \in DOMAIN prototypes'
    <2>1. CASE headers[k][l].Name \in DOMAIN prototypes
      BY <1>1, <2>1
    <2>2. CASE Kept(k, l)
      <3>1. PICK i \in DOMAIN output : output[i] = <<k, l>>
        BY <2>2 DEF Kept
      <3>2. CASE i = 1
        <4>1. p = headers[k][l]
          BY <1>3, <3>1, <3>2 DEF LineAt
        <4> QED
          BY <1>1, <1>9, <4>1 DEF New
      <3>3. CASE i # 1
        BY <1>3, <3>1, <3>3 DEF Kept
      <3> QED
        BY <3>2, <3>3
    <2> QED
      BY <1>5, <1>9, <2>1, <2>2
  <1> QED
    BY <1>6, <1>8, <1>9

LEMMA EndExtractTable ==
    ASSUME TypeInv, TableOfHeaders, EndExtract
    PROVE  ExtractInv' /\ PrototypesInv' /\ RowsInv'
  <1>1. /\ phase = "extract" /\ phase' = "entries" /\ output = <<>>
        /\ UNCHANGED <<registrations, headers, exports, prototypes>> /\ left' = exports
    BY DEF EndExtract
  <1>2. PrototypesInv'
    <2> SUFFICES ASSUME AllWellFormed
                 PROVE  /\ \A n : n \in DOMAIN prototypes <=> Wanted(n) /\ Declared(n) # {}
                        /\ \A n \in DOMAIN prototypes : FirstDeclared(n, prototypes[n])
      BY <1>1 DEF PrototypesInv, AllWellFormed, Declared, FirstDeclared
    <2>1. /\ \A n \in DOMAIN prototypes : Wanted(n) /\ FirstDeclared(n, prototypes[n])
          /\ \A k \in DOMAIN headers : \A l \in Prototypes(headers[k]) :
                 Wanted(headers[k][l].Name) => Kept(k, l) \/ headers[k][l].Name \in DOMAIN prototypes
      BY <1>1 DEF TableOfHeaders, ExtractInv
    <2>2. \A k, l : ~Kept(k, l)
      BY <1>1 DEF Kept
    <2>3. ASSUME NEW n, Wanted(n), NEW types \in Declared(n) PROVE n \in DOMAIN prototypes
      <3>1. PICK k \in DOMAIN headers : \E l \in Prototypes(headers[k]) : headers[k][l].Name = n
        BY <2>3, DeclaredTypes
      <3> QED
        BY <2>1, <2>2, <2>3, <3>1
    <2> QED
      BY <2>1, <2>3, FirstIsDeclared
  <1>3. RowsInv'
    <2>1. Visited' = {}
      BY <1>1 DEF Visited
    <2>2. registrations' = <<>>
      BY <1>1 DEF TableOfHeaders, StagesInv
    <2>3. Len(<<>>) = 0
      OBVIOUS
    <2> QED
      BY <2>1, <2>2, <2>3, FS_EmptySet DEF RowsInv
  <1> QED
    BY <1>1, <1>2, <1>3 DEF ExtractInv

\* An export is visited: it has a row if it has a prototype.
LEMMA VisitTable ==
    ASSUME TypeInv, TableOfHeaders, FiniteExports,
           NEW export \in left, AddEntry(export) \/ SkipEntry(export)
    PROVE  ExtractInv' /\ PrototypesInv' /\ RowsInv'
  <1>1. /\ phase = "entries" /\ phase' = "entries" /\ left' = left \ {export}
        /\ UNCHANGED <<headers, exports, output, prototypes>> /\ export \in exports
    BY DEF AddEntry, SkipEntry, Visit, TypeInv, TypeOK
  <1>2. /\ Len(registrations) = Cardinality(Visited)
        /\ \A e \in Visited : \E i \in Positions : registrations[i] = RowFor(e)
    BY <1>1 DEF TableOfHeaders, RowsInv
  <1>3. IsFiniteSet(Visited)
    <2>1. IsFiniteSet(exports)
      BY <1>1 DEF TableOfHeaders, StagesInv, FiniteExports
    <2> QED
      BY <2>1, FS_Subset DEF Visited
  <1>4. (\A e : HasPrototype(e)' <=> HasPrototype(e)) /\ \A e : RowFor(e)' = RowFor(e)
    BY <1>1 DEF HasPrototype, RowFor, TypeSource
  <1>5. exports' \ left' = (exports \ left) \cup {export} /\ export \notin Visited
    BY <1>1 DEF Visited
  <1>6. RowsInv'
    <2>1. CASE SkipEntry(export)
      <3>1. ~HasPrototype(export) /\ registrations' = registrations
        BY <2>1 DEF SkipEntry
      <3>2. Visited' = Visited
        BY <1>1, <1>4, <1>5, <3>1 DEF Visited
      <3> QED
        BY <1>2, <1>4, <3>1, <3>2 DEF RowsInv, Positions
    <2>2. CASE AddEntry(export)
      <3>1. HasPrototype(export) /\ registrations' = Append(registrations, RowFor(export))
        BY <2>2 DEF AddEntry, RowFor
      <3>2. Visited' = Visited \cup {export}
        BY <1>1, <1>4, <1>5, <3>1 DEF Visited
      <3>3. Cardinality(Visited') = Cardinality(Visited) + 1
        BY <1>3, <1>5, <3>2, FS_AddElement
      <3>4. registrations \in Seq(SignatureRegistration)
        BY DEF TypeInv, TypeOK, LookupTypeOK
      <3>5. /\ Len(registrations') = Len(registrations) + 1
            /\ registrations'[Len(registrations) + 1] = RowFor(export)
            /\ \A i \in 1 .. Len(registrations) : registrations'[i] = registrations[i]
            /\ Len(registrations) \in Nat
        BY <3>1, <3>4
      <3>6. ASSUME NEW e \in Visited'
            PROVE  \E i \in 1 .. Len(registrations') : registrations'[i] = RowFor(e)
        <4>1. CASE e = export
          BY <3>5, <4>1
        <4>2. CASE e \in Visited
          BY <1>2, <3>5, <4>2 DEF Positions
        <4> QED
          BY <3>2, <4>1, <4>2
      <3> QED
        BY <1>2, <1>4, <3>3, <3>5, <3>6 DEF RowsInv, Positions
    <2> QED
      BY <2>1, <2>2
  <1>7. PrototypesInv'
    BY <1>1 DEF TableOfHeaders, PrototypesInv, AllWellFormed, Declared, FirstDeclared
  <1> QED
    BY <1>1, <1>6, <1>7 DEF ExtractInv

LEMMA TableOfHeadersStep ==
    ASSUME TypeInv, FilterInv, TableOfHeaders, FiniteExports, [Next]_vars
    PROVE  TableOfHeaders'
  <1>1. StagesInv'
    BY StagesStep DEF TableOfHeaders
  <1>3. OrderInv'
    BY OrderStep DEF TableOfHeaders
  <1>2. ExtractInv' /\ PrototypesInv' /\ RowsInv'
    <2>1. CASE Filter
      <3>1. phase' = "filter"
        BY <2>1 DEF Filter, KeepLine, DropLine, If, Elif, Else, Endif, Stray, NextHeader, NextLine,
               Reading
      <3> QED
        BY <3>1, TableElsewhere
    <2>2. CASE EndEntries
      <3>1. /\ phase = "entries" /\ phase' = "written"
            /\ UNCHANGED <<headers, exports, output, prototypes, left, registrations>>
        BY <2>2 DEF EndEntries, scriptVars
      <3> QED
        BY <3>1 DEF TableOfHeaders, ExtractInv, PrototypesInv, RowsInv, AllWellFormed, Declared,
               FirstDeclared,
               Visited, RowFor, HasPrototype, TypeSource, Positions
    <2>3. CASE UpdateHeaders \/ Compile \/ CompileFails
      <3>1. phase' \in {"updated", "ready", "failed"}
        BY <2>3 DEF UpdateHeaders, Compile, CompileFails
      <3> QED
        BY <3>1, TableElsewhere
    <2>4. CASE Lookup
      <3>1. phase' = "ready"
        BY <2>4 DEF Lookup
      <3> QED
        BY <3>1, TableElsewhere
    <2>5. CASE UNCHANGED vars
      BY <2>5, TableElsewhere DEF vars, scriptVars
    <2> QED
      BY <2>1, <2>2, <2>3, <2>4, <2>5, EndFilterTable, ExtractTable, EndExtractTable, VisitTable
         DEF Next, Build, Failed
  <1> QED
    BY <1>1, <1>2, <1>3 DEF TableOfHeaders

\* Which exports are given a row.
LEMMA PrintableExports ==
    ASSUME Prefixes, TypeInv, NEW export \in exports,
           \A n : n \in DOMAIN prototypes <=> Wanted(n) /\ Declared(n) # {}
    PROVE  /\ HasPrototype(export) <=> /\ IsNt(export) \/ IsZw(export)
                                       /\ ~IsWow64(Source(export))
                                       /\ Declared(Source(export)) # {}
           /\ HasPrototype(export) => TypeSource(export) = Source(export)
  <1>1. export \in Names
    BY DEF TypeInv, TypeOK
  <1>2. TypeSource(export) = Source(export)
    BY <1>1 DEF Prefixes, TypeSource, Source, Wanted
  <1>3. IsNt(Source(export)) <=> IsNt(export) \/ IsZw(export)
    BY <1>1 DEF Prefixes, Source
  <1>4. IsWow64(export) => Source(export) = export
    BY <1>1 DEF Prefixes, Source
  <1> QED
    BY <1>2, <1>3, <1>4 DEF HasPrototype, Wanted

(* The table that main writes has a row for each export that is declared   *)
(* under its own name or, for a Zw export, its Nt name, with the types of  *)
(* the first such declaration, and no others: whatever the headers, if     *)
(* they are well formed, and the order of the exports.                     *)
THEOREM TableIsOfHeaders ==
    ASSUME Prefixes, FiniteExports
    PROVE  Spec => []GeneratedRight
  <1>1. Init => TableOfHeaders
    <2>1. DOMAIN <<>> = {}
      OBVIOUS
    <2> QED
      BY <2>1 DEF Init, ScriptAtRest, TableOfHeaders, StagesInv, OrderInv, ExtractInv,
                    PrototypesInv, RowsInv
  <1>2. TypeInv /\ FilterInv /\ TableOfHeaders /\ [Next]_vars => TableOfHeaders'
    BY TableOfHeadersStep
  <1>3. TypeInv /\ TableOfHeaders => GeneratedRight
    <2> DEFINE printable == {e \in exports : /\ IsNt(e) \/ IsZw(e)
                                             /\ ~IsWow64(Source(e))
                                             /\ Declared(Source(e)) # {}}
    <2> SUFFICES ASSUME TypeInv, TableOfHeaders, phase = "written", AllWellFormed
                 PROVE  /\ Len(registrations) = Cardinality(printable)
                        /\ \A e \in printable : \E i \in Positions :
                              /\ Name(registrations[i]) = e /\ Function(registrations[i]) = Source(e)
                              /\ FirstDeclared(Source(e), ArgumentTypes(registrations[i]))
      BY DEF GeneratedRight, AllWellFormed
    <2>1. /\ \A n : n \in DOMAIN prototypes <=> Wanted(n) /\ Declared(n) # {}
          /\ \A n \in DOMAIN prototypes : FirstDeclared(n, prototypes[n])
      BY DEF TableOfHeaders, PrototypesInv
    <2>2. left = {}
      BY DEF TableOfHeaders, StagesInv
    <2>3. Visited = printable
      BY <2>1, <2>2, PrintableExports DEF Visited
    <2> HIDE DEF printable
    <2>4. /\ Len(registrations) = Cardinality(printable)
          /\ \A e \in printable : \E i \in Positions : registrations[i] = RowFor(e)
      BY <2>3 DEF TableOfHeaders, RowsInv
    <2>5. ASSUME NEW e \in printable
          PROVE  \E i \in Positions :
                    /\ Name(registrations[i]) = e /\ Function(registrations[i]) = Source(e)
                    /\ FirstDeclared(Source(e), ArgumentTypes(registrations[i]))
      <3>1. e \in exports /\ HasPrototype(e)
        BY <2>3 DEF Visited
      <3>2. TypeSource(e) = Source(e)
        BY <2>1, <3>1, PrintableExports
      <3>3. FirstDeclared(Source(e), prototypes[Source(e)])
        BY <2>1, <3>1, <3>2 DEF HasPrototype
      <3>4. PICK i \in Positions : registrations[i] = RowFor(e)
        BY <2>4
      <3>5. RowFor(e) = <<e, Source(e), prototypes[Source(e)]>>
        BY <3>2 DEF RowFor
      <3>6. /\ Name(registrations[i]) = e /\ Function(registrations[i]) = Source(e)
            /\ ArgumentTypes(registrations[i]) = prototypes[Source(e)]
        BY <3>4, <3>5 DEF Name, Function, ArgumentTypes
      <3> QED
        BY <3>3, <3>6
    <2> QED
      BY <2>4, <2>5
  <1> QED
    BY TypeInit, TypeStep, FilterInit, FilterStep, <1>1, <1>2, <1>3, PTL DEF Spec
=============================================================================
