-------------------------- MODULE SignatureGenerator --------------------------
(***************************************************************************)
(* The life of the table of signatures: generate_syscall_signatures.py     *)
(* writes it from the vendored headers and the exports of one machine, the *)
(* headers may change afterwards, a build compiles the table against them, *)
(* and the program looks exports of the machine it runs on up in it.       *)
(*                                                                         *)
(* A header is a sequence of lines.  A line is a directive, with the truth *)
(* of its condition, or a prototype.  ifdef and ifndef are ifs.            *)
(***************************************************************************)
EXTENDS SignatureLookup, Integers, FiniteSets

CONSTANTS HeaderSets,     \* the headers to generate from
          Updates,        \* the headers there may be later
          ExportSets,     \* the exports of machines
          Shipped,        \* the table that is checked in, with the exports
          ShippedExports, \* that are looked up in it
          IsNt(_), IsZw(_), IsWow64(_),  \* str.startswith
          NtName(_)       \* "Nt" + export_name[2:]

Directives == {"if", "elif", "else", "endif"}
Line == [Directive : Directives, Condition : BOOLEAN]
        \cup [Directive : {"none"}, Name : Names, Types : Seq(Types)]
Header == Seq(Line)

ASSUME GeneratorAssumption ==
    /\ HeaderSets \cup Updates \subseteq Seq(Header)
    /\ \A e \in ExportSets \cup {ShippedExports} : e \subseteq Names
    /\ Shipped \in Seq(SignatureRegistration)
    /\ NoSignature \notin SignatureRegistration

\* The table that is checked in is sorted, and a function has one list of types.
ASSUME ShippedAssumption ==
    /\ SortedBy(Shipped)
    /\ LET functions == {Function(Shipped[i]) : i \in DOMAIN Shipped}
           declarations == {<<Function(Shipped[i]), ArgumentTypes(Shipped[i])>> : i \in DOMAIN Shipped}
       IN  Cardinality(declarations) = Cardinality(functions)

VARIABLES phase,        \* what is going on, see Phases
          headers, exports,
          header, line, \* the line that is read
          activeStack, branchStack,  \* the last element of the code is the first
          output,       \* the positions of the prototypes that were kept
          prototypes,   \* name -> argument types
          left          \* the exports build_signature_entries has still to visit

Phases == {"filter", "extract", "entries", "written", "updated", "failed", "ready"}
readVars == <<header, line, activeStack, branchStack>>
scriptVars == <<readVars, output, prototypes, left>>
vars == <<registrations, lookupVars, phase, headers, exports, scriptVars>>

ScriptAtRest ==
    /\ header = 1 /\ line = 1 /\ activeStack = <<TRUE>> /\ branchStack = <<>>
    /\ output = <<>> /\ prototypes = <<>> /\ left = {}

\* Either the table is generated, or the one that is checked in is used.
Init ==
    /\ \/ phase = "filter" /\ headers \in HeaderSets /\ exports \in ExportSets
          /\ registrations = <<>>
       \/ phase = "ready" /\ headers = <<>> /\ exports = ShippedExports
          /\ registrations = Shipped
    /\ AtRest /\ ScriptAtRest

-----------------------------------------------------------------------------
(* filter_active_lines.                                                    *)

Push(x, stack) == <<x>> \o stack
Current == headers[header][line]
Reading(directive) ==
    /\ phase = "filter" /\ header <= Len(headers) /\ line <= Len(headers[header])
    /\ Current.Directive = directive

NextLine ==
    /\ line' = line + 1
    /\ UNCHANGED <<registrations, lookupVars, phase, headers, exports, header, prototypes, left>>

KeepLine ==
    /\ Reading("none") /\ Head(activeStack)
    /\ output' = Append(output, <<header, line>>)
    /\ NextLine /\ UNCHANGED <<activeStack, branchStack>>

DropLine ==
    /\ Reading("none") /\ ~Head(activeStack)
    /\ NextLine /\ UNCHANGED <<output, activeStack, branchStack>>

\* A pair of the branch stack: whether the block around is active, and whether
\* a branch of the block has been taken.
If ==
    /\ Reading("if")
    /\ branchStack' = Push(<<Head(activeStack), Current.Condition>>, branchStack)
    /\ activeStack' = Push(Head(activeStack) /\ Current.Condition, activeStack)
    /\ NextLine /\ UNCHANGED output

ParentActive == Head(branchStack)[1]
BranchTaken == Head(branchStack)[2]

\* Whether this branch is taken.
AnyBranch(condition) == condition  \* a mutant: earlier branches do not matter
NewBranch(condition) == ~BranchTaken /\ condition

\* A mutant: the entry of the block is pushed once more instead of replaced.
BranchPushed(condition) ==
    /\ branchStack' = Push(<<ParentActive, BranchTaken \/ condition>>, branchStack)
    /\ activeStack' = Push(ParentActive /\ NewBranch(condition), Tail(activeStack))

Branch(condition) ==
    /\ branchStack' = Push(<<ParentActive, BranchTaken \/ condition>>, Tail(branchStack))
    /\ activeStack' = Push(ParentActive /\ NewBranch(condition), Tail(activeStack))

Elif ==
    /\ Reading("elif") /\ branchStack # <<>>
    /\ Branch(Current.Condition)
    /\ NextLine /\ UNCHANGED output

Else ==
    /\ Reading("else") /\ branchStack # <<>>
    /\ Branch(TRUE)
    /\ NextLine /\ UNCHANGED output

Endif ==
    /\ Reading("endif") /\ branchStack # <<>>
    /\ branchStack' = Tail(branchStack) /\ activeStack' = Tail(activeStack)
    /\ NextLine /\ UNCHANGED output

\* Nothing is open that the directive could belong to.
Stray ==
    /\ \E d \in {"elif", "else", "endif"} : Reading(d)
    /\ branchStack = <<>>
    /\ NextLine /\ UNCHANGED <<output, activeStack, branchStack>>

\* load_phnt_text: each header is filtered with stacks of its own.
NextHeader ==
    /\ phase = "filter" /\ header <= Len(headers) /\ line > Len(headers[header])
    /\ header' = header + 1 /\ line' = 1
    /\ activeStack' = <<TRUE>> /\ branchStack' = <<>>
    /\ UNCHANGED <<registrations, lookupVars, phase, headers, exports, output, prototypes, left>>

-----------------------------------------------------------------------------
(* extract_prototypes, build_signature_entries and main.                   *)

LineAt(position) == headers[position[1]][position[2]]

EndFilter ==
    /\ phase = "filter" /\ header > Len(headers)
    /\ phase' = "extract"
    /\ UNCHANGED <<registrations, lookupVars, headers, exports, scriptVars>>

Wanted(name) == IsNt(name) /\ ~IsWow64(name)

\* A mutant: the last prototype of a name is the one that is kept.
NewOrKnown(name) == IF Wanted(name) THEN {name} ELSE {}
\* setdefault: the first prototype of a name is the one that is kept.
New(name) == IF Wanted(name) THEN {name} \ DOMAIN prototypes ELSE {}

ExtractPrototype ==
    /\ phase = "extract" /\ output # <<>>
    /\ output' = Tail(output)
    /\ LET p == LineAt(Head(output))
           new == New(p.Name)
       IN  prototypes' = [n \in DOMAIN prototypes \cup new |->
                              IF n \in new THEN p.Types ELSE prototypes[n]]
    /\ UNCHANGED <<registrations, lookupVars, phase, headers, exports, readVars, left>>

EndExtract ==
    /\ phase = "extract" /\ output = <<>>
    /\ phase' = "entries" /\ left' = exports
    /\ UNCHANGED <<registrations, lookupVars, headers, exports, readVars, output, prototypes>>

\* A Zw export without a prototype of its own has that of its Nt name.
OwnName(export) == export  \* a mutant: Zw exports have no prototypes
TypeSource(export) ==
    IF export \notin DOMAIN prototypes /\ IsZw(export) THEN NtName(export) ELSE export

HasPrototype(export) == ~IsWow64(export) /\ TypeSource(export) \in DOMAIN prototypes

\* A mutant: the exports are visited in the order of the image.
AnyOf(export, names) == TRUE
\* for export_name in sorted(export_names)
Least(export, names) == \A x \in names \ {export} : Less(export, x)

Visit(export) ==
    /\ phase = "entries" /\ export \in left /\ Least(export, left)
    /\ left' = left \ {export}
    /\ UNCHANGED <<lookupVars, phase, headers, exports, readVars, output, prototypes>>

AddEntry(export) ==
    /\ Visit(export) /\ HasPrototype(export)
    /\ registrations' = Append(registrations,
           <<export, TypeSource(export), prototypes[TypeSource(export)]>>)

SkipEntry(export) == Visit(export) /\ ~HasPrototype(export) /\ UNCHANGED registrations

\* write_if_changed
EndEntries ==
    /\ phase = "entries" /\ left = {}
    /\ phase' = "written"
    /\ UNCHANGED <<registrations, lookupVars, headers, exports, scriptVars>>

-----------------------------------------------------------------------------
(* What C makes of the headers, and the build of the table against them.   *)
(*                                                                         *)
(* A line l of a header h stands at a depth, a directive at the depth of   *)
(* the line its block stands at.                                           *)

Before(h, l, directive) == {k \in 1 .. l - 1 : h[k].Directive = directive}
Depth(h, l) == Cardinality(Before(h, l, "if")) - Cardinality(Before(h, l, "endif"))
Level(h, b) == Depth(h, b) - (IF h[b].Directive = "if" THEN 0 ELSE 1)

\* Directives d of the block that b stands in, or that b ends, between b and l.
Between(h, b, l, directives) ==
    {d \in b + 1 .. l - 1 : h[d].Directive \in directives /\ Level(h, d) = Level(h, b)}

\* The branches that line l stands in, and those of its block that precede b.
Governs(h, b, l) ==
    /\ h[b].Directive \in {"if", "elif", "else"}
    /\ Between(h, b, l, {"elif", "else", "endif"}) = {}
    /\ Level(h, b) < Depth(h, l)
Precedes(h, a, b) ==
    /\ h[a].Directive \in {"if", "elif"} /\ Level(h, a) = Level(h, b)
    /\ Between(h, a, b, {"if", "endif"}) = {} /\ h[b].Directive # "if"

Holds(h, b) == h[b].Directive = "else" \/ h[b].Condition
Taken(h, b) == Holds(h, b) /\ \A a \in 1 .. b - 1 : Precedes(h, a, b) => ~Holds(h, a)
Active(h, l) == \A b \in 1 .. l - 1 : Governs(h, b, l) => Taken(h, b)

Prototypes(h) == {l \in DOMAIN h : h[l].Directive = "none" /\ Active(h, l)}
DeclaredIn(hs, name) ==
    UNION {{h[l].Types : l \in {l \in Prototypes(h) : h[l].Name = name}} : h \in {hs[k] : k \in DOMAIN hs}}
Declared(name) == DeclaredIn(headers, name)

\* A mutant: the arguments are not counted.
IsDeclared(r) == Cardinality(Declared(Function(r))) = 1
\* decltype(&::Function), and the static_assert of SyscallSignature.
Compiles(r) ==
    /\ Cardinality(Declared(Function(r))) = 1
    /\ \A types \in Declared(Function(r)) : Len(types) = ArgumentCount(r)

UpdateHeaders ==
    /\ phase = "written" /\ phase' = "updated"
    /\ headers' \in Updates \cup {headers}
    /\ UNCHANGED <<registrations, lookupVars, exports, scriptVars>>

\* The program is then run on some machine.
Compile ==
    /\ phase = "updated" /\ \A i \in Positions : Compiles(registrations[i])
    /\ phase' = "ready" /\ exports' \in ExportSets
    /\ header' = 1 /\ line' = 1 /\ activeStack' = <<TRUE>> /\ branchStack' = <<>>
    /\ output' = <<>> /\ prototypes' = <<>> /\ left' = {}
    /\ UNCHANGED <<registrations, lookupVars, headers>>

CompileFails ==
    /\ phase = "updated" /\ \E i \in Positions : ~Compiles(registrations[i])
    /\ phase' = "failed"
    /\ UNCHANGED <<registrations, lookupVars, headers, exports, scriptVars>>

-----------------------------------------------------------------------------
Filter == KeepLine \/ DropLine \/ If \/ Elif \/ Else \/ Endif \/ Stray \/ NextHeader

Build ==
    \/ EndFilter \/ ExtractPrototype \/ EndExtract \/ EndEntries
    \/ \E export \in left : AddEntry(export) \/ SkipEntry(export)
    \/ UpdateHeaders \/ Compile \/ CompileFails

Lookup ==
    /\ phase = "ready"
    /\ LookupStep \/ \E name \in exports : FindGeneratedSyscallSignature(name)
    /\ UNCHANGED <<phase, headers, exports, scriptVars>>

Failed == phase = "failed" /\ UNCHANGED vars

Next == Filter \/ Build \/ Lookup \/ Failed

Spec == Init /\ [][Next]_vars

-----------------------------------------------------------------------------
(* Properties.                                                             *)

TypeOK ==
    /\ LookupTypeOK
    /\ phase \in Phases
    /\ headers \in Seq(Header)
    /\ exports \subseteq Names /\ left \subseteq exports
    /\ header \in Nat \ {0} /\ line \in Nat \ {0}
    /\ activeStack \in Seq(BOOLEAN) /\ branchStack \in Seq(BOOLEAN \X BOOLEAN)
    /\ Len(activeStack) = Len(branchStack) + 1
    /\ output \in Seq(Nat \X Nat)
    /\ DOMAIN prototypes \subseteq Names
    /\ \A n \in DOMAIN prototypes : prototypes[n] \in Seq(Types)

\* No directive stands outside of a block, and an else ends its block.
WellFormed(h) ==
    \A l \in DOMAIN h :
        /\ Depth(h, l) >= 0
        /\ h[l].Directive \in {"elif", "else", "endif"} => Depth(h, l) > 0
        /\ h[l].Directive = "else" =>
              \A d \in Between(h, l, Len(h) + 1, {"elif", "else"}) :
                  Between(h, l, d, {"endif"}) # {}

(* filter_active_lines keeps of a well-formed header the lines C compiles, *)
(* whatever the nesting and whichever branches hold, and no others.        *)
FilterRight ==
    phase = "filter" /\ header <= Len(headers) /\ WellFormed(headers[header]) =>
        {p[2] : p \in {output[i] : i \in {i \in DOMAIN output : output[i][1] = header}}}
            = Prototypes(headers[header]) \cap (1 .. line - 1)

\* The types of the first declaration of a name that C compiles.
Earlier(p, q) == p[1] < q[1] \/ (p[1] = q[1] /\ p[2] < q[2])
FirstDeclared(name, types) ==
    \E k \in DOMAIN headers : \E l \in Prototypes(headers[k]) :
        /\ headers[k][l].Name = name /\ headers[k][l].Types = types
        /\ \A m \in DOMAIN headers : \A n \in Prototypes(headers[m]) :
              headers[m][n].Name = name => ~Earlier(<<m, n>>, <<k, l>>)

\* The function whose declaration an export is to be printed by.
Source(export) == IF IsZw(export) THEN NtName(export) ELSE export

(* The table that is written has one row for each export that is declared, *)
(* under its own name or, for a Zw export, under its Nt name, with the     *)
(* types of the first such declaration, and no other row.                  *)
GeneratedRight ==
    phase = "written" /\ (\A k \in DOMAIN headers : WellFormed(headers[k])) =>
        LET printable == {e \in exports : /\ IsNt(e) \/ IsZw(e)
                                          /\ ~IsWow64(Source(e))
                                          /\ Declared(Source(e)) # {}}
        IN  /\ Len(registrations) = Cardinality(printable)
            /\ \A e \in printable : \E i \in Positions :
                  /\ Name(registrations[i]) = e /\ Function(registrations[i]) = Source(e)
                  /\ FirstDeclared(Source(e), ArgumentTypes(registrations[i]))

(* What is printed of a call are arguments that the function has in the    *)
(* headers the program was built with, however old the table is.           *)
WordsDeclared ==
    pc = "printed" /\ signature # NoSignature /\ headers # <<>> =>
        \A types \in Declared(Function(signature)) :
            \A i \in DOMAIN printed : printed[i].Position \in 1 .. Len(types)

(* "If a generated prototype drifts away from PHNT, the project fails at   *)
(* compile time instead of silently printing stale argument metadata"      *)
(* (README.md:114): a printed type is the one the function's argument has  *)
(* in the headers the program was built with.                              *)
MetadataCurrent ==
    pc = "printed" /\ signature # NoSignature /\ headers # <<>> =>
        \A types \in Declared(Function(signature)) :
            \A i \in DOMAIN printed : printed[i].Type = types[printed[i].Position]
=============================================================================
