---------------------------- MODULE SignatureLookup ----------------------------
(***************************************************************************)
(* FindGeneratedSyscallSignature: a binary search of the registrations by  *)
(* name, and what Classify and the signature found there print of the      *)
(* arguments of a call that was captured, whether the query of its thread  *)
(* has named that call, a later one, or failed.  The table is a variable:  *)
(* it is generated, then compiled.                                         *)
(*                                                                         *)
(* A registration is a triple of its name, the function of its decltype    *)
(* and the spellings of the argument types, in order.  Names of arguments  *)
(* and the digits of values are left out.                                  *)
(***************************************************************************)
EXTENDS Naturals, Sequences

CONSTANTS Names,         \* of functions
          Types,         \* spellings of argument types
          Less(_, _),    \* operator< of std::string_view
          NoSignature,   \* nullptr, and no function
          ZeroServices,  \* names whose service number may be 0, in some build of Windows
          OtherCalls     \* functions that are called beside the one that is queried

ASSUME LookupAssumption ==
    /\ NoSignature \notin Names
    /\ ZeroServices \cup OtherCalls \subseteq Names

SignatureRegistration == Names \X Names \X Seq(Types)
Name(r) == r[1]
Function(r) == r[2]
ArgumentTypes(r) == r[3]

VARIABLES registrations,  \* SignatureRegistrations()
          pc,             \* "idle", "search", "found" or "printed"
          functionName,   \* the name that is looked up
          first, count,   \* the range std::lower_bound still searches
          signature,      \* what the lookup has returned
          event           \* the call, what its query named, and what is printed

lookupVars == <<pc, functionName, first, count, signature, event>>

NoEvent == [Call |-> NoSignature, Query |-> NoSignature, FormattedArguments |-> <<>>]
printed == event.FormattedArguments

AtRest ==
    /\ pc = "idle" /\ functionName = NoSignature /\ first = 0 /\ count = 0
    /\ signature = NoSignature /\ event = NoEvent

\* Positions count from 0, as iterators do.
Row(i) == registrations[i + 1]
Half == count \div 2
Middle == first + Half

-----------------------------------------------------------------------------
(* std::lower_bound and the test of what it returns.                       *)

FindGeneratedSyscallSignature(name) ==
    /\ pc = "idle" /\ pc' = "search"
    /\ functionName' = name
    /\ first' = 0 /\ count' = Len(registrations)
    /\ UNCHANGED <<registrations, signature, event>>

Searching == pc = "search" /\ count > 0

BehindMiddle == count - (Half + 1)

SearchUpperHalf ==
    /\ Searching /\ Less(Name(Row(Middle)), functionName)
    /\ first' = Middle + 1 /\ count' = BehindMiddle
    /\ UNCHANGED <<registrations, pc, functionName, signature, event>>

SearchLowerHalf ==
    /\ Searching /\ ~Less(Name(Row(Middle)), functionName)
    /\ count' = Half
    /\ UNCHANGED <<registrations, pc, functionName, first, signature, event>>

Matches == first < Len(registrations) /\ Name(Row(first)) = functionName

EndSearch ==
    /\ pc = "search" /\ count = 0 /\ pc' = "found"
    /\ signature' = IF Matches THEN Row(first) ELSE NoSignature
    /\ UNCHANGED <<registrations, functionName, first, count, event>>

-----------------------------------------------------------------------------
(* What is printed of a call.  Word <<f, k>> is the k-th argument of the   *)
(* call of f, or what lies in that register or stack slot when f has fewer.*)

ArgumentCount(r) == Len(ArgumentTypes(r))

\* THREAD_LAST_SYSCALL_INFORMATION stays as it was initialised when the query fails.
Zero == <<NoSignature, 0>>
FirstArgument(query) == IF query = NoSignature THEN Zero ELSE <<query, 1>>

\* The first word is the query's; the fifth and sixth are of the slot, whatever the call.
Snapshot(r, call, query) ==
    [FirstArgument |-> FirstArgument(query),
     StackArgument5 |-> <<call, 5>>, StackArgument6 |-> <<call, 6>>,
     HasStackArgument5 |-> ArgumentCount(r) >= 5,
     HasStackArgument6 |-> ArgumentCount(r) >= 6]

Argument(r, k, word) == <<[Type |-> ArgumentTypes(r)[k], Position |-> k, Word |-> word]>>
Untyped(query) == <<[Type |-> "", Position |-> 1, Word |-> FirstArgument(query)]>>

\* A mutant: the sixth argument is shown with the fifth one's word.
FormatArgumentsWrong(r, snapshot) ==
    (IF ArgumentCount(r) >= 1 THEN Argument(r, 1, snapshot.FirstArgument) ELSE <<>>)
    \o (IF ArgumentCount(r) >= 5 /\ snapshot.HasStackArgument5
        THEN Argument(r, 5, snapshot.StackArgument5) ELSE <<>>)
    \o (IF ArgumentCount(r) >= 6 /\ snapshot.HasStackArgument6
        THEN Argument(r, 6, snapshot.StackArgument5) ELSE <<>>)

\* An empty sequence stands for "(no printable arguments)".
FormatArguments(r, snapshot) ==
    (IF ArgumentCount(r) >= 1 THEN Argument(r, 1, snapshot.FirstArgument) ELSE <<>>)
    \o (IF ArgumentCount(r) >= 5 /\ snapshot.HasStackArgument5
        THEN Argument(r, 5, snapshot.StackArgument5) ELSE <<>>)
    \o (IF ArgumentCount(r) >= 6 /\ snapshot.HasStackArgument6
        THEN Argument(r, 6, snapshot.StackArgument6) ELSE <<>>)

\* The entry that is printed by is the one of the number that the query gave,
\* which is 0 when it failed: the status is only looked at for the verdict.
PrintArguments(call, query) ==
    /\ pc = "found" /\ pc' = "printed"
    /\ query = NoSignature => functionName \in ZeroServices
    /\ event' = [Call |-> call, Query |-> query,
                 FormattedArguments |->
                     IF signature = NoSignature THEN Untyped(query)
                     ELSE FormatArguments(signature, Snapshot(signature, call, query))]
    /\ UNCHANGED <<registrations, functionName, first, count, signature>>

\* The caller goes on to its next lookup.
Return ==
    /\ pc = "printed" /\ pc' = "idle" /\ functionName' = NoSignature
    /\ first' = 0 /\ count' = 0 /\ signature' = NoSignature /\ event' = NoEvent
    /\ UNCHANGED registrations

LookupStep ==
    \/ SearchUpperHalf \/ SearchLowerHalf \/ EndSearch \/ Return
    \/ \E call \in {functionName} \cup OtherCalls, query \in {functionName, NoSignature} :
          PrintArguments(call, query)

-----------------------------------------------------------------------------
(* Properties.                                                             *)

Positions == 1 .. Len(registrations)

SortedBy(rows) == \A i, j \in DOMAIN rows : i < j => Less(Name(rows[i]), Name(rows[j]))

LookupTypeOK ==
    /\ registrations \in Seq(SignatureRegistration)
    /\ pc \in {"idle", "search", "found", "printed"}
    /\ functionName \in Names \cup {NoSignature}
    /\ first \in Nat /\ count \in Nat
    /\ pc # "idle" => functionName \in Names /\ first + count <= Len(registrations)
    /\ signature = NoSignature \/ \E i \in Positions : signature = registrations[i]
    /\ {event.Call, event.Query} \subseteq Names \cup {NoSignature}

(* The lookup returns the registration of the name it was asked for when   *)
(* the table has one, and nullptr when it has none.                        *)
LookupRight ==
    pc \in {"found", "printed"} =>
        /\ signature # NoSignature => Name(signature) = functionName
        /\ signature = NoSignature => \A i \in Positions : Name(registrations[i]) # functionName

\* Argument k of a call of r's function.
OwnArgument(r, k) == [Type |-> ArgumentTypes(r)[k], Position |-> k, Word |-> <<Name(r), k>>]

(* "Arguments 2-4 are intentionally not fabricated" (README.md:125): when  *)
(* the query has named the call that was captured, what is printed are the *)
(* first, fifth and sixth argument of that call, as far as its function    *)
(* has them, each with its own type and word.  That is of the search as    *)
(* much as of the printing: a wrong row has other types, or another count, *)
(* and then a word is shown that is no argument.  Where the query named a  *)
(* later call, or failed, words of the slot are shown as that entry's, and *)
(* nothing is claimed.                                                     *)
NothingFabricated ==
    pc = "printed" /\ event.Query = event.Call =>
        \A i \in Positions : Name(registrations[i]) = event.Call =>
            {printed[j] : j \in DOMAIN printed}
                = {OwnArgument(registrations[i], k) :
                       k \in {1, 5, 6} \cap (1 .. ArgumentCount(registrations[i]))}
=============================================================================
