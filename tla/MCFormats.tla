----------------------------- MODULE MCFormats -----------------------------
(***************************************************************************)
(* What turns bytes into messages and requests into answers, for TLC: the  *)
(* parsers, checkers and builders of cjet and of the libraries it brings   *)
(* along.  They share no state, so one of them, the machine, is chosen at  *)
(* the start and the variables of the others idle.  Variables of the same  *)
(* name are those of the machine that runs.                                *)
(***************************************************************************)
EXTENDS Reassembly, Handshake

CONSTANTS
    Machines,       \* what is checked
    MaxHeader, Noise,                                    \* HttpParser
    NestingLimit, BufferSize, Prebuffers, IntMax,        \* Json
    MaxGroups,                                           \* JsonString
    Items, Names, NULL, MaxChildren, MaxRoots,           \* JsonTree
    Paths, StatePaths, Lower, MaxMatchers,               \* Matchers
    BlockSize, Header, MaxHeap,                          \* Answers
    Asked, NoTimeout, NoNumber, Default,                 \* Timeout
    NsPerMs, MsPerSecond, Limit, Precision

VARIABLES
    machine,
    p, heard, w, said,                                   \* HttpParser
    pc, tree, format, todo, out, overrun,                \* Json, with text; todo, blocks: Answers, too
    at, stack, value, blocks, starved,                   \* Json; at: JsonString, starved: Matchers
    step, round, content, room, end, string, first,      \* JsonString
    heap, live, children,                                \* JsonTree
    path, stage, matchers, rest, match_index,            \* Matchers
    pm, answers, held,
    kind, id, parents, allocated_memory, missed,         \* Answers
    called, element, asked, answer, timer                \* Timeout

Http == INSTANCE HttpParser WITH StartLines <- SampleStartLines, Lines <- SampleLines,
                                 Chunks <- SampleChunks, Plans <- SamplePlans
Json == INSTANCE Json WITH Trees <- SampleTrees, Width <- SampleWidth, Noise <- SampleNoise
JsonString == INSTANCE JsonString WITH Groups <- SampleGroups
JsonTree == INSTANCE JsonTree
Matchers == INSTANCE Matchers WITH Texts <- StatePaths
Answers == INSTANCE Answers
Timeout == INSTANCE Timeout

ASSUME InputsAssumption ==
    /\ Timeout!ConstantsAssumption /\ Answers!SizesAssumption /\ Matchers!PathsAssumption

\* The variables of a machine that no other machine has
httpVars == <<p, heard, w, said>>
urlVars == <<url, is_connect, s, uf, found_at, u, result>>
utf8Vars == <<checker, valid, verdict, hidden>>
jsonVars == <<pc, tree, format, out, overrun, stack, value>>
stringVars == <<step, round, content, room, end, string, first>>
treeVars == <<heap, live, children>>
extensionVars == <<extension, response, judged, offered, streams>>
octetsVars == <<context, message, digest, in, frame>>
matchersVars == <<path, stage, matchers, rest, match_index, pm, answers, held>>
answersVars == <<kind, id, parents, allocated_memory, missed>>
timeoutVars == <<called, element, asked, answer, timer>>
sharedVars == <<text, at, todo, blocks, starved>>
allVars == <<httpVars, urlVars, utf8Vars, jsonVars, stringVars, treeVars, extensionVars,
             octetsVars, matchersVars, answersVars, timeoutVars, sharedVars, vars>>

Idle == "idle"
HttpIdle == p = Idle /\ heard = Idle /\ w = Idle /\ said = Idle
UrlIdle == /\ url = Idle /\ is_connect = Idle /\ s = Idle /\ uf = Idle
           /\ found_at = Idle /\ u = Idle /\ result = Idle
Utf8Idle == checker = Idle /\ valid = Idle /\ verdict = Idle /\ hidden = Idle
JsonIdle == /\ pc = Idle /\ tree = Idle /\ format = Idle /\ out = Idle
            /\ overrun = Idle /\ stack = Idle /\ value = Idle
StringIdle == /\ step = Idle /\ round = Idle /\ content = Idle /\ room = Idle
              /\ end = Idle /\ string = Idle /\ first = Idle
TreeIdle == heap = Idle /\ live = Idle /\ children = Idle
ExtensionIdle == /\ extension = Idle /\ response = Idle /\ judged = Idle
                 /\ offered = Idle /\ streams = Idle
OctetsIdle == context = Idle /\ message = Idle /\ digest = Idle /\ in = Idle /\ frame = Idle
MatchersIdle == /\ path = Idle /\ stage = Idle /\ matchers = Idle /\ rest = Idle
                /\ match_index = Idle /\ pm = Idle /\ answers = Idle /\ held = Idle
AnswersIdle == /\ kind = Idle /\ id = Idle /\ parents = Idle
               /\ allocated_memory = Idle /\ missed = Idle
TimeoutIdle == /\ called = Idle /\ element = Idle /\ asked = Idle
               /\ answer = Idle /\ timer = Idle
ReassemblyIdle ==
    state = Idle /\ size = Idle /\ avail_in = Idle /\ total = Idle /\ pace = Idle

\* The machines that have a shared variable
WithText == {"json", "utf8"}
WithAt == {"json", "string"}
WithBlocks == {"json", "answers"}
WithStarved == {"json", "matchers"}

Runs(name) == machine = name

FormatsInit ==
    /\ machine \in Machines
    /\ IF Runs("http") THEN Http!Init ELSE HttpIdle
    /\ IF Runs("url") THEN Url!Init ELSE UrlIdle
    /\ IF Runs("utf8") THEN Utf8!Init ELSE Utf8Idle
    /\ IF Runs("json") THEN Json!Init ELSE JsonIdle
    /\ IF Runs("string") THEN JsonString!Init ELSE StringIdle
    /\ IF Runs("tree") THEN JsonTree!Init ELSE TreeIdle
    /\ IF Runs("extension") THEN Extension!Init ELSE ExtensionIdle
    /\ IF Runs("octets") THEN Octets!Init ELSE OctetsIdle
    /\ IF Runs("matchers") THEN Matchers!Init ELSE MatchersIdle
    /\ IF Runs("answers") THEN Answers!Init ELSE AnswersIdle
    /\ IF Runs("timeout") THEN Timeout!Init ELSE TimeoutIdle
    /\ IF Runs("reassembly") THEN Init ELSE ReassemblyIdle
    /\ machine \notin WithText => text = Idle
    /\ machine \notin WithAt => at = Idle
    /\ machine \notin WithBlocks => todo = Idle /\ blocks = Idle
    /\ machine \notin WithStarved => starved = Idle

\* All but the variables of a machine stay as they are.
OthersIdle(name) ==
    /\ Runs(name)
    /\ IF name = "http" THEN TRUE ELSE UNCHANGED httpVars
    /\ IF name = "url" THEN TRUE ELSE UNCHANGED urlVars
    /\ IF name = "utf8" THEN TRUE ELSE UNCHANGED utf8Vars
    /\ IF name = "json" THEN TRUE ELSE UNCHANGED jsonVars
    /\ IF name = "string" THEN TRUE ELSE UNCHANGED stringVars
    /\ IF name = "tree" THEN TRUE ELSE UNCHANGED treeVars
    /\ IF name = "extension" THEN TRUE ELSE UNCHANGED extensionVars
    /\ IF name = "octets" THEN TRUE ELSE UNCHANGED octetsVars
    /\ IF name = "matchers" THEN TRUE ELSE UNCHANGED matchersVars
    /\ IF name = "answers" THEN TRUE ELSE UNCHANGED answersVars
    /\ IF name = "timeout" THEN TRUE ELSE UNCHANGED timeoutVars
    /\ IF name = "reassembly" THEN TRUE ELSE UNCHANGED vars
    /\ IF name \in WithText THEN TRUE ELSE UNCHANGED text
    /\ IF name \in WithAt THEN TRUE ELSE UNCHANGED at
    /\ IF name \in WithBlocks THEN TRUE ELSE UNCHANGED <<todo, blocks>>
    /\ IF name \in WithStarved THEN TRUE ELSE UNCHANGED starved

FormatsNext ==
    /\ UNCHANGED machine
    /\ \/ OthersIdle("http") /\ Http!Next
       \/ OthersIdle("url") /\ Url!Next
       \/ OthersIdle("utf8") /\ Utf8!Next
       \/ OthersIdle("json") /\ Json!Next
       \/ OthersIdle("string") /\ JsonString!Next
       \/ OthersIdle("tree") /\ JsonTree!Next
       \/ OthersIdle("extension") /\ Extension!Next
       \/ OthersIdle("octets") /\ Octets!Next
       \/ OthersIdle("matchers") /\ Matchers!Next
       \/ OthersIdle("answers") /\ Answers!Next
       \/ OthersIdle("timeout") /\ Timeout!Next
       \/ OthersIdle("reassembly") /\ Next

FormatsSpec == FormatsInit /\ [][FormatsNext]_<<machine, allVars>>

-----------------------------------------------------------------------------
\* http_parser_execute: HttpParser!HeardAsWritten
HeardAsWritten == Runs("http") => Http!HeardAsWritten

\* http_parser_parse_url: UrlParser!UrlPartsSound
UrlPartsSound == Runs("url") => Url!UrlPartsSound

\* cjet_is_text_valid and its fast paths: Utf8Checker!TellsText
TellsText == Runs("utf8") => Utf8!TellsText

\* cJSON_Print and cJSON_ParseWithOpts: Json!RoundTrip and, for the bytes of
\* strings, JsonString!StringsKept
JsonRoundTrip ==
    /\ Runs("json") => Json!RoundTrip
    /\ Runs("string") => JsonString!StringsKept

\* The list operations of cJSON: JsonTree!ListsSound
ListsSound == Runs("tree") => JsonTree!ListsSound

\* What a websocket handshake agrees on and answers, and the payloads that
\* follow it: Extension!AnswerMatchesStreams (permessage-deflate), the
\* properties of Octets (the accept value, and unmask_payload)
HandshakeSound ==
    /\ Runs("extension") => Extension!AnswerMatchesStreams
    /\ Runs("octets") =>
          Octets!HashedAsPadded /\ Octets!EncodedBitsKept /\ Octets!UnmaskedOnce

\* The rules of a fetch: Matchers!FetchSelectsByRules
FetchSelectsByRules == Runs("matchers") => Matchers!FetchSelectsByRules

\* The answers response.c builds: Answers!AnswersComplete
AnswersComplete == Runs("answers") => Answers!AnswersComplete

\* The timeouts of routed requests: Timeout!TimeoutsKept
TimeoutsKept == Runs("timeout") => Timeout!TimeoutsKept

\* Reassembly of compressed fragments: Reassembly!SteadyFragmentsComplete
FragmentsComplete == Runs("reassembly") => SteadyFragmentsComplete
=============================================================================
