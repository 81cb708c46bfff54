------------------------------ MODULE Matchers ------------------------------
(***************************************************************************)
(* How a fetch gets its rules (fetch.c: create_fetch, add_matchers,        *)
(* create_matcher) and decides which states they select (state_matches).   *)
(* Every allocation on the way may fail.                                   *)
(*                                                                         *)
(* A path object is a sequence of members [string, type, elements], as     *)
(* cJSON keeps them, repeated names included; a text is a sequence of      *)
(* letters.                                                                *)
(***************************************************************************)
EXTENDS Naturals, Sequences, FiniteSets

CONSTANTS
    Paths,          \* path objects a client may send
    Texts,          \* paths of states
    Lower,          \* [letters -> letters]: the lower case
    MaxMatchers     \* CONFIG_MAX_NUMBERS_OF_MATCHERS_IN_FETCH

\* Assumed where this module is instantiated.
Strings == Seq(DOMAIN Lower)
Elements == [type : STRING, text : Strings]
Members == [string : STRING, type : STRING, elements : Seq(Elements)]
PathsAssumption ==
    /\ Paths \subseteq [type : STRING, members : Seq(Members)]
    /\ Texts \subseteq Strings
    /\ MaxMatchers \in Nat

VARIABLES
    path,           \* the path object
    stage,          \* "request", "adding", "accepted", "refused" or "freed"
    matchers,       \* f->matcher: a sequence of path_matchers and NULLs
    rest,           \* the members add_matchers has still to look at
    match_index,
    pm,             \* the path_matcher that is being filled, or NULL
    answers,        \* error responses that were created; only the last one is sent
    held,           \* the number of allocated blocks
    starved         \* an allocation failed

vars == <<path, stage, matchers, rest, match_index, pm, answers, held, starved>>

\* A path_matcher: its function, whether it ignores the case, path_elements.
Matcher(name, ignore_case, elements) ==
    [name |-> name, ignore_case |-> ignore_case, elements |-> elements]
Null == Matcher("NULL", FALSE, <<>>)

\* The table `matchers', and the only rule with several elements.
RuleNames == {"equals", "contains", "startsWith", "endsWith", "equalsNot", "containsAllOf"}
HasMultiplePathElements(name) == name = "containsAllOf"

\* get_case_insensitive finds the first member of this name in any case;
\* add_matchers knows only the exact spelling.
CaseInsensitive == {"caseInsensitive", "CASEINSENSITIVE"}
Options(object) == {k \in DOMAIN object : object[k].string \in CaseInsensitive}

\* What create_fetch finds out before it allocates the fetch.
NumberOfMatchers(object) == Len(object) - IF Options(object) # {} THEN 1 ELSE 0
IgnoreCase(object) ==
    \E k \in Options(object) : /\ \A j \in Options(object) : k <= j
                              /\ object[k].type = "True"

Init ==
    /\ path \in Paths
    /\ stage = "request"
    /\ matchers = <<>>
    /\ rest = <<>>
    /\ match_index = 1
    /\ pm = Null
    /\ answers = 0
    /\ held = 0
    /\ starved = FALSE

-----------------------------------------------------------------------------
Refused(n) ==
    /\ stage' = "refused"
    /\ answers' = answers + n
    /\ UNCHANGED <<path, matchers, rest, match_index, pm>>

\* The fetch and the copy of its id are allocated, with room for n matchers;
\* without memory for the id the fetch is freed again.  For a path object
\* create_fetch then overwrites the answer of alloc_fetch with its own.
AllocFetch(n, then, members) ==
    \/ /\ stage' = then
       /\ matchers' = [i \in 1 .. n |-> Null]
       /\ rest' = members
       /\ held' = held + 2
       /\ UNCHANGED <<path, match_index, pm, answers, starved>>
    \/ Refused(IF members = <<>> THEN 1 ELSE 2) /\ starved' = TRUE /\ UNCHANGED held

CreateFetch ==
    /\ stage = "request"
    /\ CASE path.type = "missing" -> AllocFetch(1, "accepted", <<>>)
         [] path.type = "Object" /\ NumberOfMatchers(path.members) \in 1 .. MaxMatchers ->
                AllocFetch(NumberOfMatchers(path.members), "adding", path.members)
         [] OTHER -> Refused(1) /\ UNCHANGED <<held, starved>>

\* The blocks of a matcher: free_path_elements and the matcher itself
BlocksOf(matcher) == IF matcher = Null THEN 0 ELSE 1 + Len(matcher.elements)

\* free_matcher: those of the slots that are filled
FreeMatcher(slots) ==
    LET freed[n \in 0 .. Len(slots)] == IF n = 0 THEN 0 ELSE freed[n - 1] + BlocksOf(slots[n])
    IN  freed[Len(slots)]

\* create_matcher and add_matchers give up: what has been filled so far, the
\* other matchers, the id and the fetch are freed.
AddFails ==
    /\ Refused(1)
    /\ held' = held - BlocksOf(pm) - FreeMatcher(matchers) - 2

\* Mutant of AddOption: the option takes a slot.
AddOptionSlot ==
    /\ match_index' = match_index + 1
    /\ rest' = Tail(rest)
    /\ UNCHANGED <<path, stage, matchers, pm, answers, held, starved>>

\* The option is no matcher and takes no slot.
AddOption ==
    /\ rest' = Tail(rest)
    /\ UNCHANGED <<path, stage, matchers, match_index, pm, answers, held, starved>>

\* A rule of a known name, with a value of the type it needs.
WellTyped(member) ==
    /\ member.string \in RuleNames
    /\ member.type = IF HasMultiplePathElements(member.string) THEN "Array" ELSE "String"

\* create_matcher.  For an empty array create_path_matcher asks for more
\* memory than cjet_calloc ever gives.
CreateMatcher(member) ==
    \/ /\ ~WellTyped(member) \/ member.elements = <<>>
       /\ AddFails /\ UNCHANGED starved
    \/ /\ WellTyped(member)
       /\ \/ /\ member.elements # <<>>
             /\ pm' = Matcher(member.string, IgnoreCase(path.members), <<>>)
             /\ held' = held + 1
             /\ UNCHANGED <<path, stage, matchers, rest, match_index, answers, starved>>
          \/ AddFails /\ starved' = TRUE

\* fill_path_elements: the next element, which must be a string; after the last
\* one the matcher is stored.
FillPathElement(elements) ==
    LET next == elements[Len(pm.elements) + 1]
        filled == [pm EXCEPT !.elements = Append(@, next.text)]
    IN  \/ /\ next.type = "String"
           /\ held' = held + 1
           /\ IF Len(filled.elements) = Len(elements)
              THEN /\ matchers' = [matchers EXCEPT ![match_index] = filled]
                   /\ match_index' = match_index + 1
                   /\ rest' = Tail(rest)
                   /\ pm' = Null
              ELSE pm' = filled /\ UNCHANGED <<matchers, match_index, rest>>
           /\ UNCHANGED <<path, stage, answers, starved>>
        \/ next.type # "String" /\ AddFails /\ UNCHANGED starved
        \/ next.type = "String" /\ AddFails /\ starved' = TRUE

\* One round of add_matchers
AddMatchers ==
    /\ stage = "adding"
    /\ CASE rest = <<>> ->
                /\ stage' = "accepted"
                /\ UNCHANGED <<path, matchers, rest, match_index, pm, answers, held, starved>>
         [] rest # <<>> /\ pm # Null -> FillPathElement(Head(rest).elements)
         [] rest # <<>> /\ pm = Null ->
                IF Head(rest).string = "caseInsensitive" THEN AddOption
                ELSE CreateMatcher(Head(rest))

\* free_fetch
FreeFetch ==
    /\ stage = "accepted"
    /\ stage' = "freed"
    /\ held' = held - FreeMatcher(matchers) - 2
    /\ UNCHANGED <<path, matchers, rest, match_index, pm, answers, starved>>

Next == CreateFetch \/ AddMatchers \/ FreeFetch

Spec == Init /\ [][Next]_vars

-----------------------------------------------------------------------------
(* The match functions *)

Folded(ignore_case, text) == IF ignore_case THEN [k \in DOMAIN text |-> Lower[text[k]]] ELSE text

\* strncmp, strcmp of the end, and strstr
StartsWith(a, text) == Len(a) <= Len(text) /\ a = SubSeq(text, 1, Len(a))
EndsWith(a, text) == Len(a) <= Len(text) /\ a = SubSeq(text, Len(text) - Len(a) + 1, Len(text))
Occurs(a, text) == \E k \in 1 .. Len(text) + 1 : StartsWith(a, SubSeq(text, k, Len(text)))

MatchFunction(matcher, text) ==
    LET state_path == Folded(matcher.ignore_case, text)
        Element(k) == Folded(matcher.ignore_case, matcher.elements[k])
    IN  CASE matcher.name = "equals" -> Element(1) = state_path
          [] matcher.name = "equalsNot" -> Element(1) # state_path
          [] matcher.name = "startsWith" -> StartsWith(Element(1), state_path)
          [] matcher.name = "endsWith" -> EndsWith(Element(1), state_path)
          [] matcher.name = "contains" -> Occurs(Element(1), state_path)
          [] matcher.name = "containsAllOf" ->
                \A k \in DOMAIN matcher.elements : Occurs(Element(k), state_path)

\* state_matches: without a first matcher everything is selected; the first
\* that does not match ends the search, an empty slot reached before, the
\* program.
StateMatches(text) ==
    LET Passes(k) == matchers[k] # Null /\ MatchFunction(matchers[k], text)
        Reached(k) == \A j \in 1 .. k - 1 : Passes(j)
    IN  CASE matchers[1] = Null \/ \A k \in DOMAIN matchers : Passes(k) -> "selected"
          [] matchers[1] # Null /\ \E k \in DOMAIN matchers : Reached(k) /\ matchers[k] = Null -> "crash"
          [] OTHER -> "left"

-----------------------------------------------------------------------------
\* What the rules of a path object mean
Holds(member, ignore_case, text) ==
    LET Same(a, b) == IF ignore_case THEN Lower[a] = Lower[b] ELSE a = b
        At(a, k) == k + Len(a) <= Len(text) /\ \A j \in DOMAIN a : Same(a[j], text[k + j])
        Anywhere(a) == \E k \in 0 .. Len(text) : At(a, k)
        a1 == member.elements[1].text
    IN  CASE member.string = "equals" -> Len(a1) = Len(text) /\ At(a1, 0)
          [] member.string = "equalsNot" -> ~(Len(a1) = Len(text) /\ At(a1, 0))
          [] member.string = "startsWith" -> At(a1, 0)
          [] member.string = "endsWith" -> Len(a1) <= Len(text) /\ At(a1, Len(text) - Len(a1))
          [] member.string = "contains" -> Anywhere(a1)
          [] member.string = "containsAllOf" -> \A k \in DOMAIN member.elements : Anywhere(member.elements[k].text)

OptionsGiven(object) == {k \in DOMAIN object : object[k].string = "caseInsensitive"}
Rules(object) == DOMAIN object \ OptionsGiven(object)

\* An accepted fetch selects the states for which every rule of its path object
\* holds, wherever among them the option stands, and a fetch that is refused or
\* freed leaves no memory behind; it is refused only for a reason.  The
\* exception is an option given twice: it counts as one rule more, and the slot
\* that stays empty selects everything or ends the program (fetch.c:
\* create_fetch, add_matchers).
FetchSelectsByRules ==
    LET members == IF path.type = "Object" THEN path.members ELSE <<>>
        rules == Rules(members)
        optionOnce == Cardinality(OptionsGiven(members)) < 2
    IN  /\ stage = "accepted" =>
            \A text \in Texts :
                /\ StateMatches(text) = "crash" => ~optionOnce
                /\ optionOnce =>
                      (StateMatches(text) = "selected" <=>
                          \A k \in rules : Holds(members[k], IgnoreCase(members), text))
        /\ stage \in {"refused", "freed"} => held = 0
        /\ answers > 1 => starved
        /\ stage = "refused" /\ ~starved =>
              \/ path.type \notin {"missing", "Object"}
              \/ Cardinality(rules) \notin 1 .. MaxMatchers
              \/ ~optionOnce
              \/ \E k \in rules :
                    \/ ~WellTyped(members[k]) \/ members[k].elements = <<>>
                    \/ \E i \in DOMAIN members[k].elements : members[k].elements[i].type # "String"
=============================================================================
