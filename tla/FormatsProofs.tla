--------------------------- MODULE FormatsProofs ----------------------------
(***************************************************************************)
(* Proofs about the machines of MCFormats, for all values of its           *)
(* constants.  A property of one machine holds in FormatsSpec because the  *)
(* steps of the others leave its variables alone.                          *)
(***************************************************************************)
EXTENDS MCFormats, HandshakeProofs, FiniteSetTheorems, WellFoundedInduction, TLAPS

-----------------------------------------------------------------------------
(* The machine that was chosen at the start is the one that steps.         *)

LEMMA TimeoutRuns ==
    /\ FormatsInit /\ Runs("timeout") => Timeout!Init
    /\ [FormatsNext]_<<machine, allVars>> /\ Runs("timeout")' =>
          Runs("timeout") /\ [Timeout!Next]_(Timeout!vars)
<1>1. FormatsInit /\ Runs("timeout") => Timeout!Init
    BY DEF FormatsInit
<1>2. FormatsNext /\ Runs("timeout")' => Runs("timeout") /\ Timeout!Next
    BY DEF FormatsNext, OthersIdle, Runs
<1>3. UNCHANGED <<machine, allVars>> /\ Runs("timeout")' => Runs("timeout") /\ UNCHANGED Timeout!vars
    BY DEF allVars, timeoutVars, Timeout!vars, Runs
<1> QED BY <1>1, <1>2, <1>3

LEMMA ReassemblyRuns ==
    /\ FormatsInit /\ Runs("reassembly") => Init
    /\ [FormatsNext]_<<machine, allVars>> /\ Runs("reassembly")' =>
          Runs("reassembly") /\ [Next]_vars
<1>1. FormatsInit /\ Runs("reassembly") => Init
    BY DEF FormatsInit
<1>2. FormatsNext /\ Runs("reassembly")' => Runs("reassembly") /\ Next
    BY DEF FormatsNext, OthersIdle, Runs
<1>3. UNCHANGED <<machine, allVars>> /\ Runs("reassembly")' => Runs("reassembly") /\ UNCHANGED vars
    BY DEF allVars, vars, Runs
<1> QED BY <1>1, <1>2, <1>3

LEMMA AnswersRuns ==
    /\ FormatsInit /\ Runs("answers") => Answers!Init
    /\ [FormatsNext]_<<machine, allVars>> /\ Runs("answers")' =>
          Runs("answers") /\ [Answers!Next]_(Answers!vars)
<1>1. FormatsInit /\ Runs("answers") => Answers!Init
    BY DEF FormatsInit
<1>2. FormatsNext /\ Runs("answers")' => Runs("answers") /\ Answers!Next
    BY DEF FormatsNext, OthersIdle, Runs
<1>3. UNCHANGED <<machine, allVars>> /\ Runs("answers")' => Runs("answers") /\ UNCHANGED Answers!vars
    BY DEF allVars, answersVars, sharedVars, Answers!vars, Runs
<1> QED BY <1>1, <1>2, <1>3

LEMMA MatchersRuns ==
    /\ FormatsInit /\ Runs("matchers") => Matchers!Init
    /\ [FormatsNext]_<<machine, allVars>> /\ Runs("matchers")' =>
          Runs("matchers") /\ [Matchers!Next]_(Matchers!vars)
<1>1. FormatsInit /\ Runs("matchers") => Matchers!Init
    BY DEF FormatsInit
<1>2. FormatsNext /\ Runs("matchers")' => Runs("matchers") /\ Matchers!Next
    BY DEF FormatsNext, OthersIdle, Runs
<1>3. UNCHANGED <<machine, allVars>> /\ Runs("matchers")' => Runs("matchers") /\ UNCHANGED Matchers!vars
    BY DEF allVars, matchersVars, sharedVars, Matchers!vars, Runs
<1> QED BY <1>1, <1>2, <1>3

-----------------------------------------------------------------------------
(* Timeout: every set of timeouts a client may ask for, every unit of time *)
(* and every width of the type that holds one.                             *)

\* What the element has been given, and that no timer runs before the end.
TimeoutInv ==
    /\ called \in {"add", "set", "done"}
    /\ asked \in Timeout!Requested /\ element.asked \in Timeout!Requested
    /\ called # "done" => /\ asked = NoTimeout /\ answer = "none"
                          /\ ~timer.armed
    /\ called = "add" => element.asked = NoTimeout
    /\ called = "set" => /\ element.timeout_nsec # 0
                         /\ \E default_timeout \in Timeout!Converted(Default) :
                               element.timeout_nsec \in Timeout!TimeoutInNsec(element.asked, default_timeout)
    /\ Timeout!TimeoutsKept

\* The two parts a timer is given make up the nanoseconds it was asked for.
LEMMA PartsMakeUpTime ==
  ASSUME NEW ns \in Nat
  PROVE  LET ts == Timeout!ToItimerspec(ns)
         IN  /\ ts.sec \in Nat /\ ts.nsec \in Nat
             /\ ts.nsec < NsPerMs * MsPerSecond
             /\ ts.sec * NsPerMs * MsPerSecond + ts.nsec = ns
<1> DEFINE unit == NsPerMs * MsPerSecond
<1>1. unit \in Nat /\ unit > 0
  BY InputsAssumption DEF Timeout!ConstantsAssumption
<1>2. ns \div unit \in Nat /\ ns - (ns \div unit) * unit \in 0 .. unit - 1
  <2> SUFFICES ASSUME NEW d \in Nat, d > 0
               PROVE  ns \div d \in Nat /\ ns - (ns \div d) * d \in 0 .. d - 1
    BY <1>1
  <2>1. ns \div d \in Int /\ ns \div d >= 0
    OBVIOUS
  <2>2. ns - (ns \div d) * d < d /\ ns - (ns \div d) * d >= 0
    OBVIOUS
  <2> QED BY <2>1, <2>2
<1> QED BY InputsAssumption, <1>1, <1>2 DEF Timeout!ToItimerspec, Timeout!ConstantsAssumption

\* A timeout that is no error and in the range is converted to about what it
\* is, and never to 0; a 0 that stands for no error is one beyond the range.
LEMMA ConvertedNear ==
  ASSUME NEW ms \in Nat \ {0}, NEW ns \in Timeout!Converted(ms)
  PROVE  ns \in Nat /\ ((ns \in Timeout!Near(ms) /\ ns # 0) \/ ~Timeout!InRange(ms))
<1> USE InputsAssumption DEF Timeout!ConstantsAssumption
<1>1. CASE Timeout!InRange(ms)
  <2> DEFINE nanos == ms * NsPerMs
  <2>1. nanos \in Nat /\ nanos > 3
    <3>1. \A a, b \in Nat : a > 0 /\ b > 3 => a * b \in Nat /\ a * b > 3
      OBVIOUS
    <3>2. ms \in Nat /\ NsPerMs \in Nat /\ ms > 0 /\ NsPerMs > 3
      OBVIOUS
    <3> QED BY <3>1, <3>2
  <2> HIDE DEF nanos
  <2>2. nanos \div Precision \in Nat /\ 2 * (nanos \div Precision) <= nanos
    <3> SUFFICES ASSUME NEW a \in Nat, NEW d \in Nat, d > 1
                 PROVE  a \div d \in Nat /\ 2 * (a \div d) <= a
      BY <2>1
    <3>1. a \div d \in Nat /\ d * (a \div d) <= a
      OBVIOUS
    <3> DEFINE rounded == a \div d
    <3> HIDE DEF rounded
    <3>2. rounded \in Nat /\ d * rounded <= a
      BY <3>1 DEF rounded
    <3>3. 2 * rounded <= d * rounded
      BY <3>2
    <3> QED BY <3>2, <3>3 DEF rounded
  <2>3. ns \in nanos - (nanos \div Precision) - 1 .. nanos + (nanos \div Precision)
    BY <1>1 DEF Timeout!Converted, Timeout!Near, Timeout!Rounding, nanos
  <2>4. ns \in Nat /\ ns # 0
    BY <2>1, <2>2, <2>3
  <2> QED BY <1>1, <2>4 DEF Timeout!Converted
<1>2. CASE ~Timeout!InRange(ms)
  <2>1. Limit \div 2 \in Nat /\ Limit - 1 \in Nat
    OBVIOUS
  <2> QED BY <1>2, <2>1 DEF Timeout!Converted
<1> QED BY <1>1, <1>2

LEMMA ConvertedAsMeant ==
  ASSUME NEW request \in Timeout!Requested, NEW default_timeout \in Nat \ {0},
         NEW ns \in Timeout!TimeoutInNsec(request, default_timeout)
  PROVE  /\ ns \in Nat
         /\ request = NoTimeout => ns = default_timeout
         /\ request # NoTimeout /\ Timeout!Rejected(request) => ns = 0
         /\ request # NoTimeout /\ ~Timeout!Rejected(request) =>
               request \in Nat \ {0} /\ ((ns \in Timeout!Near(request) /\ ns # 0) \/ ~Timeout!InRange(request))
<1>1. CASE request = NoTimeout
  BY <1>1 DEF Timeout!TimeoutInNsec
<1>2. CASE request # NoTimeout /\ Timeout!Rejected(request)
  BY <1>2 DEF Timeout!TimeoutInNsec
<1>3. CASE request # NoTimeout /\ ~Timeout!Rejected(request)
  <2>1. request \in Nat \ {0}
    BY <1>3, InputsAssumption DEF Timeout!ConstantsAssumption, Timeout!Requested, Timeout!Rejected
  <2>2. ns \in Timeout!Converted(request)
    BY <1>3 DEF Timeout!TimeoutInNsec
  <2> QED BY <1>3, <2>1, <2>2, ConvertedNear
<1> QED BY <1>1, <1>2, <1>3

\* The configured timeout is in the range.
LEMMA DefaultConverted ==
  ASSUME NEW default_timeout \in Timeout!Converted(Default)
  PROVE  /\ default_timeout \in Nat \ {0} /\ default_timeout \in Timeout!Near(Default)
         /\ Default \in Nat \ {0} /\ Timeout!InRange(Default) /\ ~Timeout!Rejected(Default)
<1>1. Default \in Nat \ {0} /\ Timeout!InRange(Default) /\ NoNumber \notin Int
  BY InputsAssumption DEF Timeout!ConstantsAssumption
<1>2. ~Timeout!Rejected(Default)
  BY <1>1 DEF Timeout!Rejected
<1> QED BY <1>1, <1>2, ConvertedNear

-----------------------------------------------------------------------------
LEMMA TimeoutInit == Timeout!Init => TimeoutInv
BY DEF Timeout!Init, TimeoutInv, Timeout!Requested, Timeout!TimeoutsKept

\* A timeout is added with the element, is refused with it, or takes its place.
LEMMA TimeoutStep ==
  ASSUME TimeoutInv, [Timeout!Next]_(Timeout!vars)
  PROVE  TimeoutInv'
<1>1. CASE UNCHANGED Timeout!vars
  BY <1>1 DEF Timeout!vars, TimeoutInv, Timeout!TimeoutsKept, Timeout!Meant, Timeout!Rejected
<1>2. CASE Timeout!Add
  <2> PICK request \in Timeout!Requested :
         \E default_timeout \in Timeout!Converted(Default) :
            \E n \in Timeout!TimeoutInNsec(request, default_timeout) :
                /\ element' = [timeout_nsec |-> n, asked |-> request]
                /\ IF n = 0 THEN Timeout!Refuse(request) ELSE called' = "set" /\ UNCHANGED <<answer, timer>>
    BY <1>2 DEF Timeout!Add
  <2> PICK default_timeout \in Timeout!Converted(Default) :
         \E n \in Timeout!TimeoutInNsec(request, default_timeout) :
             /\ element' = [timeout_nsec |-> n, asked |-> request]
             /\ IF n = 0 THEN Timeout!Refuse(request) ELSE called' = "set" /\ UNCHANGED <<answer, timer>>
    OBVIOUS
  <2>1. PICK ns \in Timeout!TimeoutInNsec(request, default_timeout) :
          /\ element' = [timeout_nsec |-> ns, asked |-> request]
          /\ IF ns = 0 THEN Timeout!Refuse(request) ELSE called' = "set" /\ UNCHANGED <<answer, timer>>
    OBVIOUS
  <2>2. default_timeout \in Nat \ {0}
    BY DefaultConverted
  <2>3. called = "add" /\ UNCHANGED asked /\ asked = NoTimeout /\ ~timer.armed
    BY <1>2 DEF Timeout!Add, TimeoutInv
  <2>4. CASE ns = 0
    <3>1. /\ called' = "done" /\ UNCHANGED timer
          /\ answer' = IF Timeout!Rejected(request) THEN "error" ELSE "nothing"
      BY <2>1, <2>4 DEF Timeout!Refuse
    <3>2. request # NoTimeout
      BY <2>2, <2>4, ConvertedAsMeant
    <3>3. Timeout!Meant' = request
      BY <2>1, <2>3, <3>2 DEF Timeout!Meant
    <3>4. ~Timeout!Rejected(request) => ~Timeout!InRange(request)
      BY <2>2, <2>4, <3>2, ConvertedAsMeant
    <3>5. Timeout!TimeoutsKept'
      BY <2>3, <3>1, <3>3, <3>4 DEF Timeout!TimeoutsKept, Timeout!Rejected
    <3> QED BY <2>1, <2>3, <3>1, <3>5 DEF TimeoutInv
  <2>5. CASE ns # 0
    <3>1. /\ element'.timeout_nsec = ns /\ element'.asked = request
          /\ called' = "set" /\ UNCHANGED <<answer, timer>> /\ answer = "none"
      BY <1>2, <2>1, <2>5 DEF TimeoutInv, Timeout!Add
    <3> QED BY <2>3, <2>5, <3>1 DEF TimeoutInv, Timeout!TimeoutsKept
  <2> QED BY <2>4, <2>5
<1>3. CASE Timeout!SetOrCall
  <2> DEFINE default == element.timeout_nsec
  <2> PICK request \in Timeout!Requested :
         /\ asked' = request
         /\ \E n \in Timeout!TimeoutInNsec(request, default) :
               IF n = 0 THEN Timeout!Refuse(request) ELSE called' = "done" /\ Timeout!Start(n) /\ UNCHANGED answer
    BY <1>3 DEF Timeout!SetOrCall
  <2>1. PICK ns \in Timeout!TimeoutInNsec(request, default) :
          /\ asked' = request
          /\ IF ns = 0 THEN Timeout!Refuse(request) ELSE called' = "done" /\ Timeout!Start(ns) /\ UNCHANGED answer
    OBVIOUS
  <2>2. /\ called = "set" /\ UNCHANGED element /\ ~timer.armed
        /\ element.asked \in Timeout!Requested /\ default # 0
        /\ \E default_timeout \in Timeout!Converted(Default) :
              default \in Timeout!TimeoutInNsec(element.asked, default_timeout)
    BY <1>3 DEF Timeout!SetOrCall, TimeoutInv
  <2> PICK configured \in Timeout!Converted(Default) :
              default \in Timeout!TimeoutInNsec(element.asked, configured)
    BY <2>2
  <2>3. /\ configured \in Nat \ {0} /\ configured \in Timeout!Near(Default)
        /\ Default \in Nat \ {0} /\ ~Timeout!Rejected(Default)
    BY DefaultConverted
  <2> DEFINE kept == IF element.asked = NoTimeout THEN Default ELSE element.asked
  <2>4. /\ default \in Nat \ {0} /\ kept \in Nat /\ ~Timeout!Rejected(kept)
        /\ default \in Timeout!Near(kept) \/ ~Timeout!InRange(kept)
    BY <2>2, <2>3, ConvertedAsMeant
  <2>5. Timeout!Meant' = IF request = NoTimeout THEN kept ELSE request
    BY <2>1, <2>2 DEF Timeout!Meant
  <2>6. CASE ns = 0
    <3>1. /\ called' = "done" /\ UNCHANGED timer
          /\ answer' = IF Timeout!Rejected(request) THEN "error" ELSE "nothing"
      BY <2>1, <2>6 DEF Timeout!Refuse
    <3>2. request # NoTimeout
      BY <2>4, <2>6, ConvertedAsMeant
    <3>3. ~Timeout!Rejected(request) => ~Timeout!InRange(request)
      BY <2>4, <2>6, <3>2, ConvertedAsMeant
    <3>4. Timeout!TimeoutsKept'
      BY <2>2, <2>5, <3>1, <3>2, <3>3 DEF Timeout!TimeoutsKept, Timeout!Rejected
    <3> QED BY <2>1, <2>2, <3>1, <3>4 DEF TimeoutInv
  <2>7. CASE ns # 0
    <3>1. ns \in Nat /\ ~Timeout!Rejected(Timeout!Meant')
          /\ (ns \in Timeout!Near(Timeout!Meant') \/ ~Timeout!InRange(Timeout!Meant'))
      BY <2>4, <2>5, <2>7, ConvertedAsMeant
    <3>2. /\ timer'.nsec < NsPerMs * MsPerSecond
          /\ timer'.sec * NsPerMs * MsPerSecond + timer'.nsec = ns
          /\ timer'.sec \in Nat /\ timer'.nsec \in Nat
          /\ timer'.armed <=> timer'.sec # 0 \/ timer'.nsec # 0
      <4> DEFINE ts == Timeout!ToItimerspec(ns)
      <4>1. timer' = [sec |-> ts.sec, nsec |-> ts.nsec, armed |-> ts.sec # 0 \/ ts.nsec # 0]
        BY <2>1, <2>7 DEF Timeout!Start
      <4>2. /\ ts.sec \in Nat /\ ts.nsec \in Nat
            /\ ts.nsec < NsPerMs * MsPerSecond
            /\ ts.sec * NsPerMs * MsPerSecond + ts.nsec = ns
        BY <3>1, PartsMakeUpTime
      <4> HIDE DEF ts
      <4> QED BY <4>1, <4>2
    <3>3. timer'.armed
      BY InputsAssumption, <2>7, <3>1, <3>2 DEF Timeout!ConstantsAssumption
    <3>4. Timeout!TimeoutsKept'
      BY <3>1, <3>2, <3>3 DEF Timeout!TimeoutsKept, Timeout!Rejected
    <3> QED BY <2>1, <2>2, <2>7, <3>4 DEF TimeoutInv
  <2> QED BY <2>6, <2>7
<1> QED BY <1>1, <1>2, <1>3 DEF Timeout!Next

\* A timeout a client may ask for is kept, but for two roundings and a fraction
\* of a nanosecond, by a timer that is armed, or answered with an error, unless
\* it is beyond the range of uint64_t.
THEOREM TimeoutsKeptAlways == FormatsSpec => []TimeoutsKept
<1> DEFINE Inv == Runs("timeout") => TimeoutInv
<1>1. FormatsInit => Inv
    BY TimeoutRuns, TimeoutInit
<1>2. Inv /\ [FormatsNext]_<<machine, allVars>> => Inv'
    BY TimeoutRuns, TimeoutStep
<1>3. Inv => TimeoutsKept
    BY DEF TimeoutsKept, TimeoutInv
<1> QED BY <1>1, <1>2, <1>3, PTL DEF FormatsSpec

-----------------------------------------------------------------------------
(* Reassembly: all lengths of fragments.                                   *)

\* reassemble keeps the invariant, whichever state follows it: the buffer of
\* a message with steady fragments has room for the fragment and one byte more.
LEMMA ReassembleKeeps ==
    ASSUME BufferInv, state = "gathering",
           NEW len \in Nat, len # 0,
           NEW after \in {"gathering", "complete"},
           Reassemble(len, after)
    PROVE  BufferInv'
<1> DEFINE b == Grown(Buffer(len), len)
<1>1. /\ b.size \in Nat /\ b.avail \in Nat
      /\ total' = total + len
      /\ pace' = IF total > 0 /\ len > total + 3 THEN "jumps" ELSE pace
      /\ size' = b.size
    BY DEF BufferInv, TypeOK, Reassemble, Grown, Buffer, SizeBytes
<1>2. TypeOK'
    BY <1>1 DEF BufferInv, TypeOK, Reassemble
<1>3. ASSUME pace' = "steady"
      PROVE  b.avail > len /\ b.size - b.avail - 4 = total
    BY <1>1, <1>3 DEF BufferInv, TypeOK, SumLen, Grown, Buffer, SizeBytes
<1>4. ASSUME pace' = "steady"
      PROVE  avail_in' = b.avail - len /\ state' = after
    BY <1>1, <1>3, <1>4 DEF Reassemble
<1>5. ASSUME pace' = "steady"
      PROVE  avail_in' > 0 /\ (SumLen = total)' /\ total' > 0
    BY <1>1, <1>3, <1>4, <1>5 DEF BufferInv, TypeOK, SumLen, SizeBytes
<1> QED
    BY <1>1, <1>2, <1>4, <1>5 DEF BufferInv, SteadyFragmentsComplete

\* Every step of a reassembly keeps the invariant.
LEMMA ReassemblyStep ==
  ASSUME BufferInv, [Next]_vars
  PROVE  BufferInv'
<1> USE ConstantsAssumption
<1>1. ASSUME NEW len \in Lengths, Fragment(len) PROVE BufferInv'
  <2>1. CASE len = 0
      BY <1>1, <2>1 DEF Fragment, vars, BufferInv, TypeOK, SteadyFragmentsComplete, SumLen
  <2>2. CASE len # 0
      BY <1>1, <2>2, ReassembleKeeps DEF Fragment
  <2> QED BY <2>1, <2>2
<1>2. ASSUME NEW len \in Lengths, LastFragment(len) PROVE BufferInv'
  <2>1. CASE len = 0
      BY <1>2, <2>1 DEF LastFragment, BufferInv, TypeOK, SteadyFragmentsComplete, SumLen
  <2>2. CASE len # 0
      BY <1>2, <2>2, ReassembleKeeps DEF LastFragment
  <2> QED BY <2>1, <2>2
<1>3. CASE Decompress
    BY <1>3 DEF Decompress, BufferInv, TypeOK, SteadyFragmentsComplete, SumLen, SizeBytes
<1>4. CASE Fail
    BY <1>4 DEF Fail, BufferInv, TypeOK, SteadyFragmentsComplete, SumLen
<1>5. CASE UNCHANGED vars
    BY <1>5 DEF vars, BufferInv, TypeOK, SteadyFragmentsComplete, SumLen
<1> QED BY <1>1, <1>2, <1>3, <1>4, <1>5 DEF Next

\* A compressed message whose fragments are steady in length is inflated
\* whole and its gathering writes nothing past the end of the buffer.
THEOREM FragmentsCompleteAlways == FormatsSpec => []FragmentsComplete
<1> DEFINE Inv == Runs("reassembly") => BufferInv
<1>1. FormatsInit => Inv
  <2>1. Init => BufferInv
    BY DEF Init, BufferInv, TypeOK, SteadyFragmentsComplete
  <2> QED BY <2>1, ReassemblyRuns
<1>2. Inv /\ [FormatsNext]_<<machine, allVars>> => Inv'
    BY ReassemblyRuns, ReassemblyStep
<1>3. Inv => FragmentsComplete
    BY DEF FragmentsComplete, BufferInv
<1> QED BY <1>1, <1>2, <1>3, PTL DEF FormatsSpec

-----------------------------------------------------------------------------
(* Answers: every size of a block, of its header and of the heap, and every *)
(* allocation that fails.                                                  *)

\* The step of its script that makes an item, that links it, and to what.
MadeAt(item) ==
    IF kind = "error"
    THEN CASE item = "root" -> 1 [] item = "id" -> 2 [] item = "error" -> 4
           [] item = "message" -> 5 [] item = "code" -> 7 [] item = "data" -> 9
           [] item = "reason" -> 11 [] OTHER -> 14
    ELSE CASE item = "result" -> 1 [] item = "root" -> 2 [] item = "id" -> 3 [] OTHER -> 6

LinkedAt(item) ==
    IF kind = "error"
    THEN CASE item = "id" -> 3 [] item = "message" -> 6 [] item = "code" -> 8
           [] item = "data" -> 10 [] item = "reason" -> 12 [] item = "error" -> 13
           [] OTHER -> 14
    ELSE CASE item = "id" -> 4 [] item = "result" -> 5 [] OTHER -> 6

ParentOf(item) ==
    CASE item \in {"id", "error", "result"} -> "root"
      [] item \in {"message", "code", "data"} -> "error"
      [] item = "reason" -> "data"
      [] OTHER -> "none"

KeyMissed == \E b \in missed : b.part = "key"

\* The items made and linked so far are those of the steps already taken.
Built ==
    /\ \A b \in blocks : /\ b.item \in Answers!AnswerItems /\ Answers!Made(b.item)
                         /\ b.part = "key" => b.item \in DOMAIN parents
    /\ \A item \in DOMAIN parents : Answers!Made(item)
    /\ \A item \in Answers!AnswerItems :
          /\ Answers!Made(item) => MadeAt(item) < todo
          /\ MadeAt(item) < todo => Answers!Made(item) \/ item \in {"data", "reason", "result"}
          /\ Answers!Made(item) /\ LinkedAt(item) < todo => item \in DOMAIN parents \/ KeyMissed
    /\ kind = "error" /\ todo \in 10 .. 12 => Answers!Made("data")
    /\ Answers!Made("reason") => Answers!Made("data")
    /\ Answers!Block("item", "result") \in missed =>
          kind = "result" /\ todo > 1 /\ ~Answers!Made("result")
    /\ kind = "result" /\ todo > 1 /\ ~Answers!Made("result") =>
          Answers!Block("item", "result") \in missed

\* Without an answer there is nothing left, but for a key or a reason that had
\* no memory.
Abandoned ==
    /\ Answers!Finished /\ ~Answers!Made("root")
    /\ blocks = {} \/ KeyMissed \/ Answers!Block("item", "reason") \in missed

AnswerInv ==
    /\ kind \in {"error", "result"} /\ id \in {"string", "number", "other", "missing"}
    /\ todo \in 1 .. Len(Answers!Script) + 1
    /\ DOMAIN parents \subseteq Answers!AnswerItems
    /\ \A item \in DOMAIN parents : parents[item] = ParentOf(item) /\ LinkedAt(item) < todo
    /\ IsFiniteSet(blocks)
    /\ allocated_memory = Cardinality(blocks) * (BlockSize + Header)
    /\ allocated_memory <= MaxHeap
    /\ Built \/ Abandoned

\* Each item is made at one step of its script and linked at another one.
LEMMA ScriptSteps ==
  ASSUME kind \in {"error", "result"}, todo \in 1 .. Len(Answers!Script)
  PROVE  /\ Len(Answers!Script) = (IF kind = "error" THEN 13 ELSE 5)
         /\ Answers!Step.make \in Answers!AnswerItems
         /\ Answers!Step.parent = "none" => MadeAt(Answers!Step.make) = todo
         /\ Answers!Step.parent # "none" =>
               /\ LinkedAt(Answers!Step.make) = todo
               /\ Answers!Step.parent = ParentOf(Answers!Step.make)
         /\ \A item \in Answers!AnswerItems :
               /\ MadeAt(item) = todo => Answers!Step = Answers!Make(item)
               /\ LinkedAt(item) = todo => Answers!Step = Answers!Link(item, ParentOf(item))
<1> USE DEF Answers!Script, Answers!Step, Answers!Make, Answers!Link, Answers!AnswerItems, MadeAt, LinkedAt, ParentOf
<1>1. CASE kind = "error"
  <2>1. Len(Answers!ErrorScript) = 13
    BY DEF Answers!ErrorScript
  <2>2. todo \in 1 .. 13
    BY <1>1, <2>1
  <2>3. CASE todo \in {1, 2, 3, 4}
    BY <1>1, <2>1, <2>3 DEF Answers!ErrorScript
  <2>4. CASE todo \in {5, 6, 7, 8}
    BY <1>1, <2>1, <2>4 DEF Answers!ErrorScript
  <2>5. CASE todo \in {9, 10, 11, 12, 13}
    BY <1>1, <2>1, <2>5 DEF Answers!ErrorScript
  <2> QED BY <2>2, <2>3, <2>4, <2>5
<1>2. CASE kind = "result"
  <2>1. Len(Answers!ResultScript) = 5
    BY DEF Answers!ResultScript
  <2>2. todo \in 1 .. 5
    BY <1>2, <2>1
  <2> QED BY <1>2, <2>1, <2>2 DEF Answers!ResultScript
<1> QED BY <1>1, <1>2

\* Answers counts with its own instance of FiniteSets.
LEMMA SameCount ==
  ASSUME NEW S
  PROVE  Answers!Cardinality(S) = Cardinality(S)
BY DEF Answers!Cardinality, Cardinality

\* What is in use is what the blocks add up to.
MemoryCounted ==
    /\ IsFiniteSet(blocks)
    /\ allocated_memory = Cardinality(blocks) * (BlockSize + Header)
    /\ allocated_memory <= MaxHeap

\* cjet_malloc counts blocks that are new.
LEMMA AllocatedCounted ==
  ASSUME MemoryCounted, NEW new, IsFiniteSet(new), new \cap blocks = {}, Answers!Allocated(new)
  PROVE  MemoryCounted'
<1> DEFINE unit == BlockSize + Header
<1>1. unit \in Nat
  BY InputsAssumption DEF Answers!SizesAssumption
<1>2. /\ IsFiniteSet(blocks \cup new)
      /\ Cardinality(blocks \cup new) = Cardinality(blocks) + Cardinality(new)
      /\ Cardinality(blocks) \in Nat /\ Cardinality(new) \in Nat
  <2>1. blocks \cap new = {}
    OBVIOUS
  <2>2. Cardinality(blocks \cap new) = 0
    BY <2>1, FS_EmptySet
  <2>3. IsFiniteSet(blocks)
    BY DEF MemoryCounted
  <2>4. Cardinality(blocks) \in Nat /\ Cardinality(new) \in Nat
    BY <2>3, FS_CardinalityType
  <2>5. /\ IsFiniteSet(blocks \cup new)
        /\ Cardinality(blocks \cup new) = Cardinality(blocks) + Cardinality(new) - Cardinality(blocks \cap new)
    BY <2>3, FS_Union
  <2> QED BY <2>2, <2>4, <2>5
<1>3. ASSUME NEW a \in Nat, NEW b \in Nat PROVE (a + b) * unit = a * unit + b * unit
  BY <1>1, <1>3
<1>4. /\ blocks' = blocks \cup new
      /\ allocated_memory' = allocated_memory + Cardinality(new) * unit
      /\ allocated_memory + Cardinality(new) * unit <= MaxHeap
  BY SameCount DEF Answers!Allocated, Answers!Fits
<1> HIDE DEF unit
<1>5. (Cardinality(blocks) + Cardinality(new)) * unit = Cardinality(blocks) * unit + Cardinality(new) * unit
  BY <1>2, <1>3
<1> QED BY <1>2, <1>4, <1>5 DEF MemoryCounted, unit

\* cjet_free counts blocks that there are.
LEMMA FreedCounted ==
  ASSUME MemoryCounted, NEW old, old \subseteq blocks, Answers!Freed(old)
  PROVE  MemoryCounted'
<1> DEFINE unit == BlockSize + Header
<1>1. unit \in Nat /\ MaxHeap \in Nat
  BY InputsAssumption DEF Answers!SizesAssumption
<1>2. /\ IsFiniteSet(blocks \ old)
      /\ Cardinality(blocks \ old) = Cardinality(blocks) - Cardinality(old)
      /\ Cardinality(blocks) \in Nat /\ Cardinality(old) \in Nat
      /\ Cardinality(blocks \ old) \in Nat
  <2>1. IsFiniteSet(blocks)
    BY DEF MemoryCounted
  <2>2. IsFiniteSet(old)
    BY <2>1, FS_Subset
  <2>3. blocks \cap old = old
    OBVIOUS
  <2>4. /\ IsFiniteSet(blocks \ old)
        /\ Cardinality(blocks \ old) = Cardinality(blocks) - Cardinality(blocks \cap old)
    BY <2>1, FS_Difference
  <2> QED BY <2>1, <2>2, <2>3, <2>4, FS_CardinalityType
<1>3. ASSUME NEW a \in Nat, NEW b \in Nat, a - b \in Nat
      PROVE  (a - b) * unit = a * unit - b * unit /\ (a - b) * unit <= a * unit /\ a * unit \in Int
  BY <1>1, <1>3
<1>4. /\ blocks' = blocks \ old
      /\ allocated_memory' = allocated_memory - Cardinality(old) * unit
  BY SameCount DEF Answers!Freed
<1> HIDE DEF unit
<1>5. /\ (Cardinality(blocks) - Cardinality(old)) * unit = Cardinality(blocks) * unit - Cardinality(old) * unit
      /\ (Cardinality(blocks) - Cardinality(old)) * unit <= Cardinality(blocks) * unit
      /\ Cardinality(blocks) * unit \in Int /\ (Cardinality(blocks) - Cardinality(old)) * unit \in Int
  <2>1. Cardinality(blocks) - Cardinality(old) \in Nat
    BY <1>2
  <2>2. \A a \in Nat : a * unit \in Int
    BY <1>1
  <2> QED BY <1>2, <1>3, <2>1, <2>2
<1> QED BY <1>1, <1>2, <1>4, <1>5 DEF MemoryCounted, unit

\* What is deleted are the items, what is linked to them, and so on.
LEMMA DeletedReaches ==
  ASSUME NEW items, NEW b \in blocks,
         \/ b.item \in items
         \/ b.item \in DOMAIN parents /\ parents[b.item] \in items
  PROVE  b \in Answers!Deleted(items)
BY DEF Answers!Deleted, Answers!Below, Answers!LinkedTo

\* Where all that was made is deleted with the root, nothing is left.
LEMMA GivenUp ==
  ASSUME AnswerInv, ~Answers!Finished, NEW items, Answers!GiveUp(items),
         Answers!Made("root") => "root" \in items,
         missed \subseteq missed',
         KeyMissed' \/ Answers!Block("item", "reason") \in missed'
            \/ \A b \in blocks : \/ b.item \in items
                                 \/ b.item \in DOMAIN parents /\ parents[b.item] \in items
  PROVE  AnswerInv'
<1>1. MemoryCounted'
  <2>1. Answers!Deleted(items) \subseteq blocks /\ Answers!Freed(Answers!Deleted(items))
    BY DEF Answers!GiveUp, Answers!Deleted
  <2>2. MemoryCounted
    BY DEF AnswerInv, MemoryCounted
  <2> QED BY <2>1, <2>2, FreedCounted
<1>2. /\ UNCHANGED <<kind, id, parents>> /\ todo' = Len(Answers!Script) + 1
      /\ blocks' = blocks \ Answers!Deleted(items)
  BY DEF Answers!GiveUp, Answers!Freed
<1>3. Len(Answers!Script) \in Nat /\ Answers!Script' = Answers!Script /\ todo \in Nat /\ todo <= Len(Answers!Script)
  <2>1. Len(Answers!Script) \in {5, 13}
    BY DEF Answers!Script, Answers!ErrorScript, Answers!ResultScript, Answers!Make, Answers!Link
  <2>2. Answers!Script' = Answers!Script
    BY <1>2 DEF Answers!Script, Answers!ErrorScript, Answers!ResultScript
  <2> QED BY <2>1, <2>2 DEF AnswerInv, Answers!Finished
<1>4. Answers!Finished' /\ todo' \in 1 .. Len(Answers!Script') + 1 /\ todo' > todo
  BY <1>2, <1>3 DEF Answers!Finished
<1>5. ~Answers!Made("root")'
  <2>1. ASSUME Answers!Made("root") PROVE Answers!Block("item", "root") \in Answers!Deleted(items)
    BY <2>1, DeletedReaches DEF Answers!Made, Answers!Block
  <2> QED BY <1>2, <2>1 DEF Answers!Made
<1>6. blocks' = {} \/ KeyMissed' \/ Answers!Block("item", "reason") \in missed'
  BY <1>2, DeletedReaches
<1>7. Abandoned'
  BY <1>4, <1>5, <1>6 DEF Abandoned, Answers!Block
<1>8. /\ DOMAIN parents' \subseteq Answers!AnswerItems
      /\ \A item \in DOMAIN parents' : parents'[item] = ParentOf(item) /\ LinkedAt(item)' < todo'
  <2>1. \A item : LinkedAt(item)' = LinkedAt(item) /\ LinkedAt(item) \in Nat
    BY <1>2 DEF LinkedAt
  <2> QED BY <1>2, <1>3, <1>4, <2>1 DEF AnswerInv
<1> QED BY <1>1, <1>2, <1>4, <1>7, <1>8 DEF AnswerInv, MemoryCounted

\* The invariant holds while the script runs with what was built.
LEMMA StillBuilt ==
  ASSUME AnswerInv, todo' \in todo + 1 .. Len(Answers!Script) + 1, UNCHANGED <<kind, id>>,
         MemoryCounted', Built',
         DOMAIN parents' \subseteq Answers!AnswerItems,
         \A item \in DOMAIN parents' : parents'[item] = ParentOf(item) /\ LinkedAt(item) < todo'
  PROVE  AnswerInv'
<1>1. Answers!Script' = Answers!Script
  BY DEF Answers!Script, Answers!ErrorScript, Answers!ResultScript
<1>2. \A item : LinkedAt(item)' = LinkedAt(item)
  BY DEF LinkedAt
<1>3. todo' \in 1 .. Len(Answers!Script') + 1
  <2>1. Len(Answers!Script) \in {5, 13}
    BY DEF Answers!Script, Answers!ErrorScript, Answers!ResultScript, Answers!Make, Answers!Link
  <2> QED BY <1>1, <2>1 DEF AnswerInv
<1> QED BY <1>2, <1>3 DEF AnswerInv, MemoryCounted

\* What is not finished was not given up.
LEMMA BuildingOn ==
  ASSUME AnswerInv, ~Answers!Finished
  PROVE  /\ Built /\ MemoryCounted
         /\ kind \in {"error", "result"} /\ todo \in 1 .. Len(Answers!Script)
         /\ \A item : MadeAt(item) \in 1 .. 14 /\ LinkedAt(item) \in 1 .. 14
<1>1. Built /\ MemoryCounted /\ kind \in {"error", "result"}
  BY DEF AnswerInv, Abandoned, MemoryCounted
<1>2. todo \in 1 .. Len(Answers!Script)
  <2>1. Len(Answers!Script) \in {5, 13}
    BY DEF Answers!Script, Answers!ErrorScript, Answers!ResultScript, Answers!Make, Answers!Link
  <2> QED BY <2>1 DEF AnswerInv, Answers!Finished
<1>3. \A item : MadeAt(item) \in 1 .. 14 /\ LinkedAt(item) \in 1 .. 14
  BY <1>1 DEF MadeAt, LinkedAt
<1> QED BY <1>1, <1>2, <1>3

\* An item that is made now was not made before; its blocks are new.
LEMMA MakeKeeps ==
  ASSUME AnswerInv, Answers!MakeItem
  PROVE  AnswerInv'
<1> DEFINE item == Answers!Step.make
<1>1. /\ ~Answers!Finished /\ Built /\ MemoryCounted
      /\ kind \in {"error", "result"} /\ todo \in 1 .. Len(Answers!Script)
      /\ \A i : MadeAt(i) \in 1 .. 14 /\ LinkedAt(i) \in 1 .. 14
  BY BuildingOn DEF Answers!MakeItem
<1>2. /\ item \in Answers!AnswerItems /\ MadeAt(item) = todo
      /\ Len(Answers!Script) = (IF kind = "error" THEN 13 ELSE 5)
  BY <1>1, ScriptSteps DEF Answers!MakeItem
<1>3. \A b \in blocks : /\ b.item \in Answers!AnswerItems /\ Answers!Made(b.item)
                        /\ MadeAt(b.item) < todo /\ b.item # item
  BY <1>1, <1>2 DEF Built
<1>4. ~Answers!Made(item)
  BY <1>1, <1>2 DEF Built
<1>5. CASE /\ Answers!Allocated(Answers!BlocksOf(item))
           /\ todo' = todo + 1
           /\ UNCHANGED <<kind, id, parents, missed>>
  <2>1. /\ \A b \in Answers!BlocksOf(item) : b.item = item /\ b.part # "key"
        /\ Answers!Block("item", item) \in Answers!BlocksOf(item)
        /\ \A i : i # item => Answers!Block("item", i) \notin Answers!BlocksOf(item)
    BY DEF Answers!BlocksOf, Answers!Block
  <2>2. MemoryCounted'
    <3>1. IsFiniteSet(Answers!BlocksOf(item))
      <4>1. Answers!BlocksOf(item) \subseteq {Answers!Block("item", item)} \cup {Answers!Block("text", item)}
        BY DEF Answers!BlocksOf
      <4>2. IsFiniteSet({Answers!Block("item", item)} \cup {Answers!Block("text", item)})
        BY FS_Singleton, FS_Union
      <4> QED BY <4>1, <4>2, FS_Subset
    <3>2. Answers!BlocksOf(item) \cap blocks = {}
      BY <1>3, <2>1
    <3> QED BY <1>1, <1>5, <3>1, <3>2, AllocatedCounted
  <2>3. blocks' = blocks \cup Answers!BlocksOf(item)
    BY <1>5 DEF Answers!Allocated
  <2>4. \A i : Answers!Made(i)' <=> Answers!Made(i) \/ i = item
    BY <2>1, <2>3 DEF Answers!Made, Answers!Block
  <2>5. /\ \A i : MadeAt(i)' = MadeAt(i) /\ LinkedAt(i)' = LinkedAt(i)
        /\ KeyMissed' = KeyMissed /\ Answers!Block("item", "result")' = Answers!Block("item", "result")
    BY <1>5 DEF MadeAt, LinkedAt, KeyMissed, Answers!Block
  <2>6. Built'
    <3>1. \A b \in blocks' : /\ b.item \in Answers!AnswerItems /\ Answers!Made(b.item)'
                             /\ b.part = "key" => b.item \in DOMAIN parents'
      BY <1>1, <1>2, <1>5, <2>1, <2>3, <2>4 DEF Built
    <3>2. \A i \in DOMAIN parents' : Answers!Made(i)'
      BY <1>1, <1>5, <2>4 DEF Built
    <3>3. \A i \in Answers!AnswerItems :
             /\ Answers!Made(i)' => MadeAt(i)' < todo'
             /\ MadeAt(i)' < todo' => Answers!Made(i)' \/ i \in {"data", "reason", "result"}
             /\ Answers!Made(i)' /\ LinkedAt(i)' < todo' => i \in DOMAIN parents' \/ KeyMissed'
      <4>1. \A i \in Answers!AnswerItems : MadeAt(i) = todo => i = item
        BY <1>1, ScriptSteps DEF Answers!Make
      <4>2. \A i \in Answers!AnswerItems : LinkedAt(i) # todo
        <5>1. Answers!Step.parent = "none"
          BY DEF Answers!MakeItem
        <5> QED BY <1>1, <5>1, ScriptSteps DEF Answers!Link, ParentOf, LinkedAt, Answers!AnswerItems
      <4>3. LinkedAt(item) > todo
        BY <1>1, <1>2 DEF MadeAt, LinkedAt, Answers!AnswerItems
      <4> QED BY <1>1, <1>2, <1>5, <2>4, <2>5, <4>1, <4>2, <4>3 DEF Built
    <3>4. /\ kind' = "error" /\ todo' \in 10 .. 12 => Answers!Made("data")'
          /\ Answers!Made("reason")' => Answers!Made("data")'
      BY <1>1, <1>2, <1>5, <2>4 DEF Built, MadeAt, Answers!AnswerItems
    <3>5. /\ Answers!Block("item", "result") \in missed' =>
                kind' = "result" /\ todo' > 1 /\ ~Answers!Made("result")'
          /\ kind' = "result" /\ todo' > 1 /\ ~Answers!Made("result")' =>
                Answers!Block("item", "result") \in missed'
      <4>1. Answers!Block("item", "result") \in missed => kind = "result" /\ todo > 1
        BY <1>1, <1>2 DEF Built
      <4> QED BY <1>1, <1>2, <1>5, <2>4, <4>1 DEF Built, MadeAt, Answers!AnswerItems
    <3> QED BY <2>5, <3>1, <3>2, <3>3, <3>4, <3>5 DEF Built, Answers!AnswerItems
  <2>7. /\ DOMAIN parents' \subseteq Answers!AnswerItems
        /\ \A i \in DOMAIN parents' : parents'[i] = ParentOf(i) /\ LinkedAt(i) < todo'
    BY <1>1, <1>5 DEF AnswerInv
  <2>8. todo' \in todo + 1 .. Len(Answers!Script) + 1
    BY <1>1, <1>2, <1>5
  <2> QED BY <1>5, <2>2, <2>6, <2>7, <2>8, StillBuilt
<1>6. CASE /\ missed' = missed \cup {Answers!Block("item", item)}
           /\ item \in {"data", "result"}
           /\ todo' = IF item = "data" THEN Len(Answers!Script) ELSE todo + 1
           /\ UNCHANGED <<kind, id, blocks, parents, allocated_memory>>
  <2> HIDE DEF item
  <2>0. item \in {"data", "result"} /\ UNCHANGED <<kind, blocks, parents>>
    BY <1>6
  <2>1. /\ item = "data" => kind = "error" /\ todo = 9 /\ todo' = 13
        /\ item = "result" => kind = "result" /\ todo = 1 /\ todo' = 2
    BY <1>1, <1>2, <1>6 DEF MadeAt
  <2>2. /\ \A i : MadeAt(i)' = MadeAt(i) /\ LinkedAt(i)' = LinkedAt(i)
        /\ \A i : Answers!Made(i)' = Answers!Made(i)
        /\ KeyMissed => KeyMissed'
    BY <1>6 DEF MadeAt, LinkedAt, KeyMissed, Answers!Block, Answers!Made
  <2>3. MemoryCounted'
    BY <1>1, <1>6 DEF MemoryCounted
  <2>4. Built'
    <3>1. \A b \in blocks' : /\ b.item \in Answers!AnswerItems /\ Answers!Made(b.item)'
                             /\ b.part = "key" => b.item \in DOMAIN parents'
      BY <1>1, <1>6, <2>2 DEF Built
    <3>2. \A i \in DOMAIN parents' : Answers!Made(i)'
      BY <1>1, <1>6, <2>2 DEF Built
    <3>3. \A i \in Answers!AnswerItems :
             /\ Answers!Made(i)' => MadeAt(i)' < todo'
             /\ MadeAt(i)' < todo' => Answers!Made(i)' \/ i \in {"data", "reason", "result"}
             /\ Answers!Made(i)' /\ LinkedAt(i)' < todo' => i \in DOMAIN parents' \/ KeyMissed'
      <4>1. CASE item = "data"
        <5>1. \A i \in Answers!AnswerItems : MadeAt(i) < 13 => MadeAt(i) < 9 \/ i \in {"data", "reason"}
          BY <2>1, <4>1 DEF MadeAt, Answers!AnswerItems
        <5>2. \A i \in Answers!AnswerItems : MadeAt(i) < 9 /\ LinkedAt(i) < 13 => LinkedAt(i) < 9
          BY <2>1, <4>1 DEF MadeAt, LinkedAt, Answers!AnswerItems
        <5> QED BY <1>1, <2>0, <2>1, <2>2, <4>1, <5>1, <5>2 DEF Built
      <4>2. CASE item = "result"
        <5>1. \A i \in Answers!AnswerItems : MadeAt(i) < 2 => i = "result"
          BY <2>1, <4>2 DEF MadeAt, Answers!AnswerItems
        <5>2. todo = 1 /\ todo' = 2 /\ \A i \in Answers!AnswerItems : Answers!Made(i) => MadeAt(i) < todo
          BY <1>1, <2>1, <4>2 DEF Built
        <5>3. \A i \in Answers!AnswerItems : ~Answers!Made(i)
          BY <1>1, <5>2
        <5> QED BY <2>2, <5>1, <5>2, <5>3
      <4> QED BY <2>0, <4>1, <4>2
    <3>4. /\ kind' = "error" /\ todo' \in 10 .. 12 => Answers!Made("data")'
          /\ Answers!Made("reason")' => Answers!Made("data")'
      <4>1. kind' = "error" => todo' \notin 10 .. 12
        BY <2>0, <2>1
      <4>2. Answers!Made("reason") => Answers!Made("data")
        BY <1>1 DEF Built
      <4> QED BY <2>2, <4>1, <4>2
    <3>5. /\ Answers!Block("item", "result") \in missed' =>
                kind' = "result" /\ todo' > 1 /\ ~Answers!Made("result")'
          /\ kind' = "result" /\ todo' > 1 /\ ~Answers!Made("result")' =>
                Answers!Block("item", "result") \in missed'
      <4>1. CASE item = "data"
        BY <1>1, <1>6, <2>1, <2>2, <4>1 DEF Built, Answers!Block
      <4>2. CASE item = "result"
        BY <1>4, <1>6, <2>1, <2>2, <4>2
      <4> QED BY <1>6, <4>1, <4>2
    <3> QED BY <2>2, <3>1, <3>2, <3>3, <3>4, <3>5 DEF Built, Answers!AnswerItems, Answers!Block
  <2>5. /\ DOMAIN parents' \subseteq Answers!AnswerItems
        /\ \A i \in DOMAIN parents' : parents'[i] = ParentOf(i) /\ LinkedAt(i) < todo'
    BY <1>1, <1>2, <1>6, <2>1 DEF AnswerInv
  <2>6. todo' \in todo + 1 .. Len(Answers!Script) + 1
    BY <1>1, <1>2, <1>6, <2>1
  <2> QED BY <1>6, <2>3, <2>4, <2>5, <2>6, StillBuilt
<1>7. CASE /\ missed' = missed \cup {Answers!Block("item", item)}
           /\ item \notin {"data", "result"} /\ Answers!GiveUp(Answers!FreedWithout(item))
  <2>1. Answers!Made("root") => "root" \in Answers!FreedWithout(item)
    BY <1>2, <1>4, <1>7 DEF Answers!FreedWithout, Answers!AnswerItems
  <2>2. ASSUME ~KeyMissed', item # "reason", NEW b \in blocks
        PROVE  \/ b.item \in Answers!FreedWithout(item)
               \/ b.item \in DOMAIN parents /\ parents[b.item] \in Answers!FreedWithout(item)
    <3>1. /\ b.item \in Answers!AnswerItems /\ MadeAt(b.item) < MadeAt(item)
          /\ LinkedAt(b.item) < MadeAt(item) => b.item \in DOMAIN parents
          /\ b.item \in DOMAIN parents => parents[b.item] = ParentOf(b.item)
      <4>1. ~KeyMissed
        BY <1>7, <2>2 DEF KeyMissed
      <4>2. Answers!Made(b.item) /\ b.item \in Answers!AnswerItems /\ MadeAt(b.item) < MadeAt(item)
        BY <1>2, <1>3
      <4>3. LinkedAt(b.item) < MadeAt(item) => b.item \in DOMAIN parents
        BY <1>1, <1>2, <4>1, <4>2 DEF Built
      <4> QED BY <4>2, <4>3 DEF AnswerInv
    <3>2. CASE kind = "error"
      BY <1>2, <1>7, <2>2, <3>1, <3>2 DEF MadeAt, LinkedAt, ParentOf, Answers!FreedWithout, Answers!AnswerItems
    <3>3. CASE kind = "result"
      BY <1>1, <1>2, <1>7, <2>2, <3>1, <3>3 DEF MadeAt, LinkedAt, ParentOf, Answers!FreedWithout, Answers!AnswerItems
    <3> QED BY <1>1, <3>2, <3>3
  <2>3. item = "reason" => Answers!Block("item", "reason") \in missed'
    BY <1>7
  <2> HIDE DEF item
  <2>4. \/ KeyMissed' \/ Answers!Block("item", "reason") \in missed'
        \/ \A b \in blocks : \/ b.item \in Answers!FreedWithout(item)
                             \/ b.item \in DOMAIN parents /\ parents[b.item] \in Answers!FreedWithout(item)
    BY <2>2, <2>3
  <2>5. missed \subseteq missed'
    BY <1>7
  <2> QED BY <1>1, <1>7, <2>1, <2>4, <2>5, GivenUp
<1> QED BY <1>5, <1>6, <1>7 DEF Answers!MakeItem

\* An item is linked where its key finds memory, and stays outside otherwise.
LEMMA LinkKeeps ==
  ASSUME AnswerInv, Answers!LinkItem
  PROVE  AnswerInv'
<1> DEFINE item == Answers!Step.make
<1> DEFINE key == Answers!Block("key", item)
<1>1. /\ ~Answers!Finished /\ Built /\ MemoryCounted
      /\ kind \in {"error", "result"} /\ todo \in 1 .. Len(Answers!Script)
      /\ \A i : MadeAt(i) \in 1 .. 14 /\ LinkedAt(i) \in 1 .. 14
  BY BuildingOn DEF Answers!LinkItem
<1>2. /\ item \in Answers!AnswerItems /\ LinkedAt(item) = todo
      /\ Answers!Step.parent = ParentOf(item)
      /\ Len(Answers!Script) = (IF kind = "error" THEN 13 ELSE 5)
      /\ \A i \in Answers!AnswerItems : MadeAt(i) # todo /\ (LinkedAt(i) = todo => i = item)
  <2>1. Answers!Step.parent # "none"
    BY DEF Answers!LinkItem
  <2>2. \A i \in Answers!AnswerItems : MadeAt(i) # todo /\ (LinkedAt(i) = todo => i = item)
    BY <1>1, <2>1, ScriptSteps DEF Answers!Make, Answers!Link
  <2> QED BY <1>1, <2>1, <2>2, ScriptSteps
<1>3. /\ todo' = todo + 1 /\ UNCHANGED <<kind, id>>
      /\ \/ /\ Answers!Made(item) /\ Answers!Allocated({key}) /\ UNCHANGED missed
            /\ parents' = [i \in DOMAIN parents \cup {item} |->
                              IF i = item THEN ParentOf(item) ELSE parents[i]]
         \/ /\ missed' = IF Answers!Made(item) THEN missed \cup {key} ELSE missed
            /\ UNCHANGED <<blocks, parents, allocated_memory>>
  BY <1>2 DEF Answers!LinkItem
<1> DEFINE linked == Answers!Made(item) /\ Answers!Allocated({key}) /\ UNCHANGED missed
<1>4. /\ \A i : MadeAt(i)' = MadeAt(i) /\ LinkedAt(i)' = LinkedAt(i)
      /\ todo' \in todo + 1 .. Len(Answers!Script) + 1
  BY <1>1, <1>3 DEF MadeAt, LinkedAt
<1>5. key.item = item /\ key.part = "key" /\ \A i : Answers!Block("item", i) # key
  BY DEF Answers!Block
<1> HIDE DEF item, key
<1>6. /\ \A i : Answers!Made(i)' = Answers!Made(i)
      /\ \A b \in blocks' : b \in blocks \/ (b = key /\ Answers!Made(item) /\ item \in DOMAIN parents')
      /\ KeyMissed => KeyMissed'
      /\ Answers!Made(item) => item \in DOMAIN parents' \/ KeyMissed'
      /\ Answers!Block("item", "result")' = Answers!Block("item", "result")
      /\ Answers!Block("item", "result") \in missed' <=> Answers!Block("item", "result") \in missed
      /\ \A i \in DOMAIN parents : i \in DOMAIN parents' /\ parents'[i] = (IF i = item THEN parents'[i] ELSE parents[i])
      /\ \A i \in DOMAIN parents' : i \in DOMAIN parents \/ (i = item /\ Answers!Made(item))
      /\ item \in DOMAIN parents => item \in DOMAIN parents' 
      /\ item \in DOMAIN parents' /\ item \notin DOMAIN parents => parents'[item] = ParentOf(item)
  <2>1. CASE /\ Answers!Made(item) /\ Answers!Allocated({key}) /\ UNCHANGED missed
             /\ parents' = [i \in DOMAIN parents \cup {item} |->
                               IF i = item THEN ParentOf(item) ELSE parents[i]]
    <3>1. blocks' = blocks \cup {key}
      BY <2>1 DEF Answers!Allocated
    <3>2. KeyMissed' = KeyMissed /\ \A i : Answers!Block("item", i)' = Answers!Block("item", i)
      BY <2>1 DEF KeyMissed, Answers!Block
    <3> QED BY <1>5, <2>1, <3>1, <3>2 DEF Answers!Made
  <2>2. CASE /\ missed' = IF Answers!Made(item) THEN missed \cup {key} ELSE missed
             /\ UNCHANGED <<blocks, parents, allocated_memory>>
    BY <1>5, <2>2 DEF Answers!Made, KeyMissed, Answers!Block
  <2> QED BY <1>3, <2>1, <2>2
<1>7. MemoryCounted'
  <2>1. CASE Answers!Allocated({key})
    <3>1. key \notin blocks
      BY <1>1, <1>2, <1>5 DEF Built, AnswerInv
    <3>2. IsFiniteSet({key}) /\ {key} \cap blocks = {}
      BY <3>1, FS_Singleton
    <3> QED BY <1>1, <2>1, <3>2, AllocatedCounted
  <2>2. CASE UNCHANGED <<blocks, parents, allocated_memory>>
    BY <1>1, <2>2 DEF MemoryCounted
  <2> QED BY <1>3, <2>1, <2>2
<1>8. Built'
  <2>1. \A b \in blocks' : /\ b.item \in Answers!AnswerItems /\ Answers!Made(b.item)'
                           /\ b.part = "key" => b.item \in DOMAIN parents'
    BY <1>1, <1>2, <1>5, <1>6 DEF Built
  <2>2. \A i \in DOMAIN parents' : Answers!Made(i)'
    BY <1>1, <1>6 DEF Built
  <2>3. \A i \in Answers!AnswerItems :
           /\ Answers!Made(i)' => MadeAt(i)' < todo'
           /\ MadeAt(i)' < todo' => Answers!Made(i)' \/ i \in {"data", "reason", "result"}
           /\ Answers!Made(i)' /\ LinkedAt(i)' < todo' => i \in DOMAIN parents' \/ KeyMissed'
    BY <1>1, <1>2, <1>3, <1>4, <1>6 DEF Built
  <2>4. /\ kind' = "error" /\ todo' \in 10 .. 12 => Answers!Made("data")'
        /\ Answers!Made("reason")' => Answers!Made("data")'
    <3>1. kind = "error" => todo # 9
      BY <1>2 DEF MadeAt, Answers!AnswerItems
    <3>2. kind' = "error" /\ todo' \in 10 .. 12 => kind = "error" /\ todo \in 10 .. 12
      BY <1>1, <1>3, <3>1
    <3> QED BY <1>1, <1>6, <3>2 DEF Built
  <2>5. /\ Answers!Block("item", "result") \in missed' =>
              kind' = "result" /\ todo' > 1 /\ ~Answers!Made("result")'
        /\ kind' = "result" /\ todo' > 1 /\ ~Answers!Made("result")' =>
              Answers!Block("item", "result") \in missed'
    <3>1. kind = "result" => todo # 1
      BY <1>2 DEF MadeAt, Answers!AnswerItems
    <3> QED BY <1>1, <1>3, <1>6, <3>1 DEF Built
  <2> QED BY <1>6, <2>1, <2>2, <2>3, <2>4, <2>5 DEF Built, Answers!AnswerItems
<1>9. /\ DOMAIN parents' \subseteq Answers!AnswerItems
      /\ \A i \in DOMAIN parents' : parents'[i] = ParentOf(i) /\ LinkedAt(i) < todo'
  <2>1. item \notin DOMAIN parents
    BY <1>1, <1>2 DEF AnswerInv
  <2> QED BY <1>1, <1>2, <1>3, <1>6, <2>1 DEF AnswerInv
<1> QED BY <1>3, <1>4, <1>7, <1>8, <1>9, StillBuilt

\* The request has no id, or one that is neither a string nor a number.
LEMMA NoIdKeeps ==
  ASSUME AnswerInv, Answers!NoId
  PROVE  AnswerInv'
<1>1. /\ ~Answers!Finished /\ Built /\ kind \in {"error", "result"} /\ todo \in 1 .. Len(Answers!Script)
  BY BuildingOn DEF Answers!NoId
<1>2. todo = MadeAt("root") \/ todo = MadeAt("id")
  BY <1>1, ScriptSteps DEF Answers!NoId, Answers!Make
<1>3. \A b \in blocks : b.item \in {"root", "result"}
  BY <1>1, <1>2 DEF Built, MadeAt, Answers!AnswerItems
<1>4. Answers!GiveUp({"root", "result"}) /\ missed \subseteq missed'
  BY DEF Answers!NoId
<1> QED BY <1>1, <1>3, <1>4, GivenUp

\* An error without a reason has no data.
LEMMA NoReasonKeeps ==
  ASSUME AnswerInv, Answers!NoReason
  PROVE  AnswerInv'
<1>1. /\ ~Answers!Finished /\ Built /\ MemoryCounted
      /\ kind \in {"error", "result"} /\ todo \in 1 .. Len(Answers!Script)
      /\ todo' = Len(Answers!Script) /\ UNCHANGED <<kind, id, blocks, parents, allocated_memory, missed>>
  BY BuildingOn DEF Answers!NoReason
<1>2. kind = "error" /\ todo = 9 /\ todo' = 13 /\ Len(Answers!Script) = 13
  BY <1>1, ScriptSteps DEF Answers!NoReason, Answers!Make, MadeAt
<1>3. /\ \A i : MadeAt(i)' = MadeAt(i) /\ LinkedAt(i)' = LinkedAt(i)
      /\ \A i : Answers!Made(i)' = Answers!Made(i) /\ Answers!Block("item", i)' = Answers!Block("item", i)
      /\ KeyMissed' = KeyMissed
  BY <1>1 DEF MadeAt, LinkedAt, Answers!Made, Answers!Block, KeyMissed
<1>4. \A i \in Answers!AnswerItems :
         /\ MadeAt(i) < 13 => MadeAt(i) < 9 \/ i \in {"data", "reason"}
         /\ MadeAt(i) < 9 /\ LinkedAt(i) < 13 => LinkedAt(i) < 9
  BY <1>2 DEF MadeAt, LinkedAt, Answers!AnswerItems
<1>5. Built'
  <2>1. \A i \in Answers!AnswerItems :
           /\ Answers!Made(i)' => MadeAt(i)' < todo'
           /\ MadeAt(i)' < todo' => Answers!Made(i)' \/ i \in {"data", "reason", "result"}
           /\ Answers!Made(i)' /\ LinkedAt(i)' < todo' => i \in DOMAIN parents' \/ KeyMissed'
    <3>1. \A i \in Answers!AnswerItems : MadeAt(i) \in Nat
      BY <1>1 DEF MadeAt
    <3> QED BY <1>1, <1>2, <1>3, <1>4, <3>1 DEF Built
  <2> QED BY <1>1, <1>2, <1>3, <2>1 DEF Built, Answers!AnswerItems
<1>6. MemoryCounted'
  BY <1>1 DEF MemoryCounted
<1>7. /\ DOMAIN parents' \subseteq Answers!AnswerItems
      /\ \A i \in DOMAIN parents' : parents'[i] = ParentOf(i) /\ LinkedAt(i) < todo'
  <2>1. \A i : LinkedAt(i) \in Nat
    BY <1>1 DEF LinkedAt
  <2> QED BY <1>1, <1>2, <2>1 DEF AnswerInv
<1> QED BY <1>1, <1>2, <1>5, <1>6, <1>7, StillBuilt

\* At the beginning nothing is allocated.
LEMMA AnswerInit == Answers!Init => AnswerInv
<1> SUFFICES ASSUME Answers!Init PROVE AnswerInv
  OBVIOUS
<1>1. /\ kind \in {"error", "result"} /\ id \in {"string", "number", "other", "missing"}
      /\ todo = 1 /\ blocks = {} /\ DOMAIN parents = {} /\ allocated_memory = 0 /\ missed = {}
  BY DEF Answers!Init
<1>2. IsFiniteSet(blocks) /\ Cardinality(blocks) = 0
  BY <1>1, FS_EmptySet
<1>3. 0 * (BlockSize + Header) = 0 /\ 0 <= MaxHeap
  BY InputsAssumption DEF Answers!SizesAssumption
<1>4. Built
  <2>1. \A item : ~Answers!Made(item)
    BY <1>1 DEF Answers!Made
  <2>2. \A item \in Answers!AnswerItems : ~(MadeAt(item) < todo)
    BY <1>1 DEF MadeAt
  <2> QED BY <1>1, <2>1, <2>2 DEF Built
<1>5. Len(Answers!Script) \in {5, 13}
  BY DEF Answers!Script, Answers!ErrorScript, Answers!ResultScript, Answers!Make, Answers!Link
<1> QED BY <1>1, <1>2, <1>3, <1>4, <1>5 DEF AnswerInv

\* Every step of a script keeps the invariant.
LEMMA AnswerStep ==
  ASSUME AnswerInv, [Answers!Next]_(Answers!vars)
  PROVE  AnswerInv'
<1>1. CASE UNCHANGED Answers!vars
  <2>1. UNCHANGED <<kind, id, todo, blocks, parents, allocated_memory, missed>>
    BY <1>1 DEF Answers!vars
  <2>2. /\ \A item : MadeAt(item)' = MadeAt(item) /\ LinkedAt(item)' = LinkedAt(item)
        /\ Answers!Script' = Answers!Script /\ KeyMissed' = KeyMissed
        /\ \A item : Answers!Made(item)' = Answers!Made(item) /\ Answers!Block("item", item)' = Answers!Block("item", item)
    BY <2>1 DEF MadeAt, LinkedAt, Answers!Script, Answers!ErrorScript, Answers!ResultScript, KeyMissed, Answers!Made, Answers!Block
  <2>3. Built => Built'
    BY <2>1, <2>2 DEF Built, Answers!AnswerItems
  <2>4. Abandoned => Abandoned'
    BY <2>1, <2>2 DEF Abandoned, Answers!Finished
  <2> QED BY <2>1, <2>2, <2>3, <2>4 DEF AnswerInv, Answers!AnswerItems
<1> QED BY <1>1, NoIdKeeps, NoReasonKeeps, MakeKeeps, LinkKeeps DEF Answers!Next

\* What the property says of an answer follows from the invariant at the end.
LEMMA AnswerImplied == AnswerInv => Answers!AnswersComplete
<1> SUFFICES ASSUME AnswerInv PROVE Answers!AnswersComplete
  OBVIOUS
<1> DEFINE answered == Answers!Finished /\ Answers!Made("root")
<1> DEFINE reach(found) == found \cup Answers!LinkedTo(found)
<1>1. \A items : Answers!Below(items) = reach(reach(reach(items)))
  BY DEF Answers!Below
<1>2. allocated_memory = Answers!Cardinality(blocks) * (BlockSize + Header) /\ allocated_memory <= MaxHeap
  BY SameCount DEF AnswerInv
<1>3. ASSUME Answers!Finished, ~Answers!Made("root"), ~KeyMissed, Answers!Block("item", "reason") \notin missed
      PROVE  blocks = {}
  <2>1. kind \in {"error", "result"} /\ todo \in 1 .. Len(Answers!Script) + 1 /\ todo > Len(Answers!Script)
    BY <1>3 DEF AnswerInv, Answers!Finished
  <2>2. Len(Answers!Script) \in {5, 13}
    BY DEF Answers!Script, Answers!ErrorScript, Answers!ResultScript, Answers!Make, Answers!Link
  <2>3. MadeAt("root") \in {1, 2}
    BY <2>1 DEF MadeAt
  <2>4. MadeAt("root") < todo
    <3>1. ASSUME NEW len \in {5, 13}, todo \in 1 .. len + 1, todo > len
          PROVE  todo \in Int /\ todo > 2
      BY <3>1
    <3>2. todo \in Int /\ todo > 2
      BY <2>1, <2>2, <3>1, Zenon
    <3> QED BY <2>3, <3>2
  <2>5. ~Built
    BY <1>3, <2>4 DEF Built, Answers!AnswerItems
  <2> QED BY <1>3, <2>5 DEF AnswerInv, Abandoned
<1>4. ASSUME answered
      PROVE  /\ Built /\ todo = (IF kind = "error" THEN 14 ELSE 6)
             /\ kind \in {"error", "result"}
             /\ DOMAIN parents \subseteq Answers!AnswerItems
             /\ \A item \in DOMAIN parents : parents[item] = ParentOf(item)
  <2>1. Len(Answers!Script) = (IF kind = "error" THEN 13 ELSE 5)
    BY DEF Answers!Script, Answers!ErrorScript, Answers!ResultScript, Answers!Make, Answers!Link
  <2> QED BY <1>4, <2>1 DEF AnswerInv, Abandoned, Answers!Finished
<1>5. ASSUME answered
      PROVE  \A item \in Answers!Below({"root"}) : Answers!Made(item)
  <2>1. \A items : (\A i \in items : Answers!Made(i)) => \A i \in reach(items) : Answers!Made(i)
    BY <1>4, <1>5 DEF Answers!LinkedTo, Built
  <2>2. \A i \in {"root"} : Answers!Made(i)
    BY <1>5
  <2> HIDE DEF reach
  <2> QED BY <1>1, <2>1, <2>2
<1>6. ASSUME answered, ~KeyMissed
      PROVE  /\ kind = "error" =>
                   /\ \A item \in Answers!AnswerItems \ {"root"} :
                         Answers!Made(item) <=> item \in DOMAIN parents
                   /\ \A item \in {"id", "error", "message", "code"} : Answers!Made(item)
                   /\ ~Answers!Made("result")
                   /\ Answers!Made("reason") => Answers!Made("data")
                   /\ Answers!Block("item", "result") \notin missed
             /\ kind = "result" =>
                   /\ \A item \in Answers!AnswerItems :
                         /\ Answers!Made(item) => item \in {"root", "id", "result"}
                         /\ item \in {"id", "result"} => (Answers!Made(item) <=> item \in DOMAIN parents)
                   /\ Answers!Made("id")
                   /\ Answers!Block("item", "result") \in missed <=> ~Answers!Made("result")
  <2>1. Built /\ todo = (IF kind = "error" THEN 14 ELSE 6) /\ kind \in {"error", "result"}
    BY <1>4, <1>6
  <2>2. CASE kind = "error"
    <3>1. \A item \in Answers!AnswerItems :
             /\ item # "root" => LinkedAt(item) < todo \/ item = "result"
             /\ item \in {"id", "error", "message", "code"} => MadeAt(item) < todo
             /\ item = "result" => ~(MadeAt(item) < todo)
      BY <2>1, <2>2 DEF LinkedAt, MadeAt, Answers!AnswerItems
    <3> QED BY <1>6, <2>1, <2>2, <3>1 DEF Built, Answers!AnswerItems
  <2>3. CASE kind = "result"
    <3>1. \A item \in Answers!AnswerItems :
             /\ item \in {"id", "result"} => LinkedAt(item) < todo
             /\ MadeAt(item) < todo => item \in {"root", "id", "result"}
             /\ item = "id" => MadeAt(item) < todo
      BY <2>1, <2>3 DEF LinkedAt, MadeAt, Answers!AnswerItems
    <3> QED BY <1>6, <2>1, <2>3, <3>1 DEF Built, Answers!AnswerItems
  <2> QED BY <2>1, <2>2, <2>3
<1>7. ASSUME answered, ~KeyMissed
      PROVE  /\ Answers!LinkedTo({"root"}) =
                   {"id"} \cup IF Answers!Block("item", "result") \in missed THEN {} ELSE {kind}
             /\ kind = "error" => {"message", "code"} \subseteq Answers!LinkedTo({"error"})
  <2>1. \A item \in DOMAIN parents : item \in Answers!AnswerItems /\ Answers!Made(item) /\ parents[item] = ParentOf(item)
    BY <1>4, <1>7 DEF Built
  <2>2. CASE kind = "error"
    BY <1>6, <1>7, <2>1, <2>2 DEF Answers!LinkedTo, ParentOf, Answers!AnswerItems
  <2>3. CASE kind = "result"
    BY <1>6, <1>7, <2>1, <2>3 DEF Answers!LinkedTo, ParentOf, Answers!AnswerItems
  <2> QED BY <1>4, <1>7, <2>2, <2>3
<1>8. ASSUME answered, ~KeyMissed
      PROVE  {b.item : b \in blocks} = Answers!Below({"root"})
  <2>1. \A b \in blocks : b.item \in Answers!AnswerItems /\ Answers!Made(b.item)
    BY <1>4, <1>8 DEF Built
  <2>2. \A item : Answers!Made(item) => Answers!Block("item", item) \in blocks /\ Answers!Block("item", item).item = item
    BY DEF Answers!Made, Answers!Block
  <2>3. \A item \in Answers!AnswerItems : Answers!Made(item) => item \in Answers!Below({"root"})
    <3>1. \A items, i : i \in items => i \in reach(items)
      OBVIOUS
    <3>2. \A items, i : i \in DOMAIN parents /\ parents[i] \in items => i \in reach(items)
      BY DEF Answers!LinkedTo
    <3>3. \A item \in DOMAIN parents : parents[item] = ParentOf(item)
      BY <1>4, <1>8
    <3> HIDE DEF reach
    <3>4. /\ "root" \in reach({"root"}) /\ "root" \in reach(reach({"root"})) /\ "root" \in reach(reach(reach({"root"})))
      BY <3>1
    <3>5. CASE kind = "error"
      <4>1. \A item \in Answers!AnswerItems \ {"root"} : Answers!Made(item) => item \in DOMAIN parents /\ parents[item] = ParentOf(item)
        BY <1>6, <1>8, <3>3, <3>5
      <4>2. Answers!Made("reason") => Answers!Made("data")
        BY <1>6, <1>8, <3>5
      <4>3. \A item \in {"id", "error", "result"} : Answers!Made(item) => item \in reach({"root"})
        BY <3>2, <4>1 DEF ParentOf, Answers!AnswerItems
      <4>4. \A item \in {"message", "code", "data"} : Answers!Made(item) => item \in reach(reach({"root"}))
        <5>1. "error" \in reach({"root"})
          BY <1>6, <1>8, <3>5, <4>3
        <5> QED BY <3>2, <4>1, <5>1 DEF ParentOf, Answers!AnswerItems
      <4>5. Answers!Made("reason") => "reason" \in reach(reach(reach({"root"})))
        BY <3>2, <4>1, <4>2, <4>4 DEF ParentOf, Answers!AnswerItems
      <4> QED BY <1>1, <3>1, <3>4, <4>3, <4>4, <4>5 DEF Answers!AnswerItems
    <3>6. CASE kind = "result"
      <4>1. \A item \in {"id", "result"} : Answers!Made(item) => item \in reach({"root"})
        BY <1>6, <1>8, <3>2, <3>3, <3>6 DEF ParentOf, Answers!AnswerItems
      <4>2. \A item \in Answers!AnswerItems : Answers!Made(item) => item \in {"root", "id", "result"}
        BY <1>6, <1>8, <3>6
      <4> QED BY <1>1, <3>1, <3>4, <4>1, <4>2
    <3> QED BY <1>4, <1>8, <3>5, <3>6
  <2>4. \A item \in Answers!Below({"root"}) : Answers!Made(item)
    BY <1>5, <1>8
  <2> QED BY <2>1, <2>2, <2>3, <2>4
<1> QED BY <1>2, <1>3, <1>5, <1>7, <1>8 DEF Answers!AnswersComplete, KeyMissed

\* Wherever memory runs out, an answer is complete or there is none, what is
\* allocated is counted, and what is not answered is freed (response.c,
\* alloc.c).
THEOREM AnswersCompleteAlways == FormatsSpec => []AnswersComplete
<1> DEFINE Inv == Runs("answers") => AnswerInv
<1>1. FormatsInit => Inv
  BY AnswersRuns, AnswerInit
<1>2. Inv /\ [FormatsNext]_<<machine, allVars>> => Inv'
  BY AnswersRuns, AnswerStep
<1>3. Inv => AnswersComplete
  BY AnswerImplied DEF AnswersComplete
<1> QED BY <1>1, <1>2, <1>3, PTL DEF FormatsSpec

-----------------------------------------------------------------------------
(* Matchers: all path objects, all paths of states, every limit of rules   *)
(* and every allocation that fails.                                        *)

\* Sequences are the same when they have the same length and letters.
LEMMA SameByLetters ==
  ASSUME NEW S, NEW a \in Seq(S), NEW t \in Seq(S)
  PROVE  a = t <=> Len(a) = Len(t) /\ \A j \in 1 .. Len(a) : a[j] = t[j]
OBVIOUS

\* A prefix, a suffix and an occurrence, letter by letter.
LEMMA PrefixByLetters ==
  ASSUME NEW S, NEW a \in Seq(S), NEW t \in Seq(S)
  PROVE  Matchers!StartsWith(a, t) <=> Len(a) <= Len(t) /\ \A j \in 1 .. Len(a) : a[j] = t[j]
<1>1. CASE Len(a) <= Len(t)
  <2> DEFINE b == SubSeq(t, 1, Len(a))
  <2>1. b \in Seq(S) /\ Len(b) = Len(a) /\ \A j \in 1 .. Len(a) : b[j] = t[j]
    BY <1>1
  <2> HIDE DEF b
  <2>2. a = b <=> Len(a) = Len(b) /\ \A j \in 1 .. Len(a) : a[j] = b[j]
    BY <2>1, SameByLetters
  <2>3. a = b <=> \A j \in 1 .. Len(a) : a[j] = t[j]
    BY <2>1, <2>2
  <2> QED BY <1>1, <2>3 DEF Matchers!StartsWith, b
<1>2. CASE ~(Len(a) <= Len(t))
  BY <1>2 DEF Matchers!StartsWith
<1> QED BY <1>1, <1>2

LEMMA SuffixByLetters ==
  ASSUME NEW S, NEW a \in Seq(S), NEW t \in Seq(S)
  PROVE  Matchers!EndsWith(a, t) <=>
            /\ Len(a) <= Len(t)
            /\ \A j \in 1 .. Len(a) : a[j] = t[Len(t) - Len(a) + j]
<1>1. CASE Len(a) <= Len(t)
  <2> DEFINE b == SubSeq(t, Len(t) - Len(a) + 1, Len(t))
  <2>1. b \in Seq(S) /\ Len(b) = Len(a) /\ \A j \in 1 .. Len(a) : b[j] = t[Len(t) - Len(a) + j]
    BY <1>1
  <2> HIDE DEF b
  <2>2. a = b <=> Len(a) = Len(b) /\ \A j \in 1 .. Len(a) : a[j] = b[j]
    BY <2>1, SameByLetters
  <2>3. a = b <=> \A j \in 1 .. Len(a) : a[j] = t[Len(t) - Len(a) + j]
    BY <2>1, <2>2
  <2> QED BY <1>1, <2>3 DEF Matchers!EndsWith, b
<1>2. CASE ~(Len(a) <= Len(t))
  BY <1>2 DEF Matchers!EndsWith
<1> QED BY <1>1, <1>2

\* a stands somewhere in t.
FoundIn(a, t) ==
    \E k \in 0 .. Len(t) : k + Len(a) <= Len(t) /\ \A j \in 1 .. Len(a) : a[j] = t[k + j]

LEMMA OccursByLetters ==
  ASSUME NEW S, NEW a \in Seq(S), NEW t \in Seq(S)
  PROVE  Matchers!Occurs(a, t) <=> FoundIn(a, t)
<1>1. ASSUME NEW k \in 1 .. Len(t) + 1
      PROVE  Matchers!StartsWith(a, SubSeq(t, k, Len(t))) <=>
                (k - 1) + Len(a) <= Len(t) /\ \A j \in 1 .. Len(a) : a[j] = t[(k - 1) + j]
  <2> DEFINE b == SubSeq(t, k, Len(t))
  <2>1. b \in Seq(S) /\ Len(b) = Len(t) - k + 1 /\ \A j \in 1 .. Len(b) : b[j] = t[k + j - 1]
    OBVIOUS
  <2> HIDE DEF b
  <2>2. Matchers!StartsWith(a, b) <=> Len(a) <= Len(b) /\ \A j \in 1 .. Len(a) : a[j] = b[j]
    BY <2>1, PrefixByLetters
  <2>3. Len(a) <= Len(b) <=> (k - 1) + Len(a) <= Len(t)
    BY <2>1
  <2>4. ASSUME Len(a) <= Len(b), NEW j \in 1 .. Len(a) PROVE b[j] = t[(k - 1) + j]
    <3>1. j \in 1 .. Len(b) /\ k + j - 1 = (k - 1) + j
      BY <2>1, <2>4
    <3> QED BY <2>1, <3>1
  <2>5. Matchers!StartsWith(a, b) <=> (k - 1) + Len(a) <= Len(t) /\ \A j \in 1 .. Len(a) : a[j] = t[(k - 1) + j]
    BY <2>2, <2>3, <2>4
  <2> QED BY <2>5 DEF b
<1>2. ASSUME NEW k \in 0 .. Len(t) PROVE k + 1 \in 1 .. Len(t) + 1 /\ (k + 1) - 1 = k
  OBVIOUS
<1>3. ASSUME NEW k \in 1 .. Len(t) + 1 PROVE k - 1 \in 0 .. Len(t)
  OBVIOUS
<1>4. ASSUME Matchers!Occurs(a, t)
      PROVE  \E k \in 0 .. Len(t) : k + Len(a) <= Len(t) /\ \A j \in 1 .. Len(a) : a[j] = t[k + j]
  <2> PICK k \in 1 .. Len(t) + 1 : Matchers!StartsWith(a, SubSeq(t, k, Len(t)))
    BY <1>4 DEF Matchers!Occurs
  <2> QED BY <1>1, <1>3
<1>5. ASSUME NEW k \in 0 .. Len(t), k + Len(a) <= Len(t), \A j \in 1 .. Len(a) : a[j] = t[k + j]
      PROVE  Matchers!Occurs(a, t)
  <2>1. Matchers!StartsWith(a, SubSeq(t, k + 1, Len(t)))
    BY <1>1, <1>2, <1>5
  <2> QED BY <1>2, <2>1 DEF Matchers!Occurs
<1> QED BY <1>4, <1>5 DEF FoundIn

\* A text with its case folded is compared letter by letter.
Letter(ignore_case, x) == IF ignore_case THEN Lower[x] ELSE x
\* What a text consists of, before and after its case is folded
Letters == UNION {{x, Lower[x]} : x \in DOMAIN Lower}

LEMMA FoldedByLetters ==
  ASSUME NEW ignore_case \in BOOLEAN, NEW state_path \in Matchers!Strings
  PROVE  /\ Matchers!Folded(ignore_case, state_path) \in Seq(Letters)
         /\ Len(Matchers!Folded(ignore_case, state_path)) = Len(state_path)
         /\ \A j \in 1 .. Len(state_path) : Matchers!Folded(ignore_case, state_path)[j] = Letter(ignore_case, state_path[j])
<1>1. \A j \in 1 .. Len(state_path) : state_path[j] \in DOMAIN Lower
  BY DEF Matchers!Strings
<1>2. \A x \in DOMAIN Lower : x \in Letters /\ Lower[x] \in Letters
  BY DEF Letters
<1>3. DOMAIN state_path = 1 .. Len(state_path) /\ Len(state_path) \in Nat /\ state_path = [k \in 1 .. Len(state_path) |-> state_path[k]]
  BY DEF Matchers!Strings
<1>4. CASE ignore_case
  BY <1>1, <1>2, <1>3, <1>4 DEF Matchers!Folded, Letter
<1>5. CASE ~ignore_case
  <2>1. [k \in 1 .. Len(state_path) |-> state_path[k]] \in Seq(Letters)
    BY <1>1, <1>2, <1>3
  <2> QED BY <1>3, <1>5, <2>1 DEF Matchers!Folded, Letter
<1> QED BY <1>4, <1>5

\* A text stands at a place of another one.
Stands(ignore_case, a, state_path, k) ==
    /\ k + Len(a) <= Len(state_path)
    /\ \A j \in 1 .. Len(a) : Letter(ignore_case, a[j]) = Letter(ignore_case, state_path[k + j])

\* Each match function finds out what its rule means.
LEMMA ComparedByLetters ==
  ASSUME NEW ic \in BOOLEAN, NEW a \in Matchers!Strings, NEW state_path \in Matchers!Strings
  PROVE  LET piece == Matchers!Folded(ic, a)
             folded == Matchers!Folded(ic, state_path)
         IN  /\ (piece = folded) <=> Len(a) = Len(state_path) /\ Stands(ic, a, state_path, 0)
             /\ Matchers!StartsWith(piece, folded) <=> Stands(ic, a, state_path, 0)
             /\ Matchers!EndsWith(piece, folded) <=>
                   Len(a) <= Len(state_path) /\ Stands(ic, a, state_path, Len(state_path) - Len(a))
             /\ Matchers!Occurs(piece, folded) <=> \E k \in 0 .. Len(state_path) : Stands(ic, a, state_path, k)
<1> DEFINE b == Matchers!Folded(ic, a)
<1> DEFINE c == Matchers!Folded(ic, state_path)
<1>0. Len(a) \in Nat /\ Len(state_path) \in Nat
  BY DEF Matchers!Strings
<1>1. /\ b \in Seq(Letters) /\ Len(b) = Len(a) /\ \A j \in 1 .. Len(a) : b[j] = Letter(ic, a[j])
      /\ c \in Seq(Letters) /\ Len(c) = Len(state_path) /\ \A j \in 1 .. Len(state_path) : c[j] = Letter(ic, state_path[j])
  BY FoldedByLetters
<1> HIDE DEF b, c
<1>2. ASSUME NEW k \in Nat
      PROVE  Stands(ic, a, state_path, k) <=> k + Len(a) <= Len(state_path) /\ \A j \in 1 .. Len(a) : b[j] = c[k + j]
  <2>1. ASSUME k + Len(a) <= Len(state_path), NEW j \in 1 .. Len(a) PROVE k + j \in 1 .. Len(state_path)
    BY <1>0, <2>1
  <2> QED BY <1>1, <2>1 DEF Stands
<1>3. 0 + Len(a) = Len(a) /\ \A j \in 1 .. Len(a) : 0 + j = j
  BY <1>0
<1>4. Stands(ic, a, state_path, 0) <=> Len(a) <= Len(state_path) /\ \A j \in 1 .. Len(a) : b[j] = c[j]
  BY <1>2, <1>3
<1>5. (b = c) <=> Len(a) = Len(state_path) /\ \A j \in 1 .. Len(a) : b[j] = c[j]
  <2>1. (b = c) <=> Len(b) = Len(c) /\ \A j \in 1 .. Len(b) : b[j] = c[j]
    BY <1>1
  <2> QED BY <1>1, <2>1
<1>6. (b = c) <=> Len(a) = Len(state_path) /\ Stands(ic, a, state_path, 0)
  BY <1>0, <1>4, <1>5
<1>7. Matchers!StartsWith(b, c) <=> Stands(ic, a, state_path, 0)
  BY <1>1, <1>4, PrefixByLetters
<1>8. Matchers!EndsWith(b, c) <=> Len(a) <= Len(state_path) /\ Stands(ic, a, state_path, Len(state_path) - Len(a))
  <2>1. Matchers!EndsWith(b, c) <=> Len(a) <= Len(state_path) /\ \A j \in 1 .. Len(a) : b[j] = c[Len(state_path) - Len(a) + j]
    BY <1>1, SuffixByLetters
  <2>2. ASSUME Len(a) <= Len(state_path)
        PROVE  Len(state_path) - Len(a) \in Nat /\ Len(state_path) - Len(a) + Len(a) <= Len(state_path)
    BY <1>0, <2>2
  <2> QED BY <1>2, <2>1, <2>2
<1>9. Matchers!Occurs(b, c) <=> \E k \in 0 .. Len(state_path) : Stands(ic, a, state_path, k)
  <2>1. Matchers!Occurs(b, c) <=> FoundIn(b, c)
    BY <1>1, OccursByLetters
  <2>2. \A k \in 0 .. Len(state_path) : k \in Nat
    BY <1>0
  <2> QED BY <1>1, <1>2, <2>1, <2>2 DEF FoundIn
<1> QED BY <1>6, <1>7, <1>8, <1>9 DEF b, c

\* The match function of a matcher tells whether its rule holds.
LEMMA RuleHolds ==
  ASSUME NEW member \in Matchers!Members, member.string \in Matchers!RuleNames, member.elements # <<>>,
         NEW ic \in BOOLEAN, NEW state_path \in Matchers!Strings,
         NEW texts, texts = [i \in 1 .. Len(member.elements) |-> member.elements[i].text]
  PROVE  Matchers!MatchFunction(Matchers!Matcher(member.string, ic, texts), state_path) <=>
            Matchers!Holds(member, ic, state_path)
<1> DEFINE n == Len(member.elements)
<1>1. /\ n \in Nat /\ n >= 1 /\ DOMAIN member.elements = 1 .. n
      /\ \A i \in 1 .. n : member.elements[i].text \in Matchers!Strings
  <2>1. member.elements \in Seq(Matchers!Elements)
    BY DEF Matchers!Members
  <2>2. \A i \in 1 .. n : member.elements[i] \in Matchers!Elements
    BY <2>1
  <2>3. n \in Nat /\ n # 0 /\ DOMAIN member.elements = 1 .. n
    BY <2>1
  <2> QED BY <2>2, <2>3 DEF Matchers!Elements
<1>2. DOMAIN texts = 1 .. n /\ \A i \in 1 .. n : texts[i] = member.elements[i].text
  OBVIOUS
<1> DEFINE m == Matchers!Matcher(member.string, ic, texts)
<1>3. m.name = member.string /\ m.ignore_case = ic /\ m.elements = texts
  BY DEF Matchers!Matcher
<1>4. \A i \in 1 .. n : DOMAIN texts[i] = 1 .. Len(texts[i])
  BY <1>1, <1>2 DEF Matchers!Strings
<1>5. 1 \in 1 .. n
  BY <1>1
<1> DEFINE piece(i) == Matchers!Folded(ic, texts[i])
<1> DEFINE folded == Matchers!Folded(ic, state_path)
<1>6. \A i \in 1 .. n :
         /\ (piece(i) = folded) <=> Len(texts[i]) = Len(state_path) /\ Stands(ic, texts[i], state_path, 0)
         /\ Matchers!StartsWith(piece(i), folded) <=> Stands(ic, texts[i], state_path, 0)
         /\ Matchers!EndsWith(piece(i), folded) <=>
               /\ Len(texts[i]) <= Len(state_path)
               /\ Stands(ic, texts[i], state_path, Len(state_path) - Len(texts[i]))
         /\ Matchers!Occurs(piece(i), folded) <=>
               \E k \in 0 .. Len(state_path) : Stands(ic, texts[i], state_path, k)
  <2>1. \A i \in 1 .. n : texts[i] \in Matchers!Strings
    BY <1>1, <1>2
  <2> QED BY <2>1, ComparedByLetters
<1> DEFINE stands(i, k) == /\ k + Len(texts[i]) <= Len(state_path)
                       /\ \A j \in DOMAIN texts[i] :
                             IF ic THEN Lower[texts[i][j]] = Lower[state_path[k + j]]
                             ELSE texts[i][j] = state_path[k + j]
<1>7. \A i \in 1 .. n : \A k : Stands(ic, texts[i], state_path, k) <=> stands(i, k)
  BY <1>4 DEF Stands, Letter
<1> DEFINE meant ==
      CASE member.string = "equals" -> Len(texts[1]) = Len(state_path) /\ stands(1, 0)
        [] member.string = "equalsNot" -> ~(Len(texts[1]) = Len(state_path) /\ stands(1, 0))
        [] member.string = "startsWith" -> stands(1, 0)
        [] member.string = "endsWith" ->
              Len(texts[1]) <= Len(state_path) /\ stands(1, Len(state_path) - Len(texts[1]))
        [] member.string = "contains" -> \E k \in 0 .. Len(state_path) : stands(1, k)
        [] member.string = "containsAllOf" -> \A i \in 1 .. n : \E k \in 0 .. Len(state_path) : stands(i, k)
<1>8. Matchers!Holds(member, ic, state_path) <=> meant
  <2>1. texts[1] = member.elements[1].text
    BY <1>2, <1>5
  <2>2. CASE member.string = "equals"
    BY <2>1, <2>2 DEF Matchers!Holds
  <2>3. CASE member.string = "equalsNot"
    BY <2>1, <2>3 DEF Matchers!Holds
  <2>4. CASE member.string = "startsWith"
    BY <2>1, <2>4 DEF Matchers!Holds
  <2>5. CASE member.string = "endsWith"
    BY <2>1, <2>5 DEF Matchers!Holds
  <2>6. CASE member.string = "contains"
    BY <2>1, <2>6 DEF Matchers!Holds
  <2>7. CASE member.string = "containsAllOf"
    BY <1>1, <1>2, <2>7 DEF Matchers!Holds
  <2> HIDE DEF meant
  <2> QED BY <2>2, <2>3, <2>4, <2>5, <2>6, <2>7 DEF Matchers!RuleNames
<1> DEFINE found ==
      CASE member.string = "equals" -> piece(1) = folded
        [] member.string = "equalsNot" -> piece(1) # folded
        [] member.string = "startsWith" -> Matchers!StartsWith(piece(1), folded)
        [] member.string = "endsWith" -> Matchers!EndsWith(piece(1), folded)
        [] member.string = "contains" -> Matchers!Occurs(piece(1), folded)
        [] member.string = "containsAllOf" -> \A i \in 1 .. n : Matchers!Occurs(piece(i), folded)
<1> HIDE DEF m
<1>9. Matchers!MatchFunction(m, state_path) <=> found
  BY <1>2, <1>3 DEF Matchers!MatchFunction, Matchers!RuleNames
<1> HIDE DEF piece, folded, stands, n
<1>10. found <=> meant
  <2>1. CASE member.string \in {"equals", "equalsNot", "startsWith", "endsWith"}
    BY <1>5, <1>6, <1>7, <2>1
  <2>2. CASE member.string \in {"contains", "containsAllOf"}
    BY <1>5, <1>6, <1>7, <2>2
  <2> QED BY <2>1, <2>2 DEF Matchers!RuleNames
<1> QED BY <1>8, <1>9, <1>10 DEF m

\* What a slot may hold
Rule == [name : Matchers!RuleNames \cup {"NULL"}, ignore_case : BOOLEAN, elements : Seq(Matchers!Strings)]

\* The blocks in the first n slots
Sums(slots, freed) ==
    /\ freed = [n \in 0 .. Len(slots) |-> IF n = 0 THEN 0 ELSE freed[n - 1] + Matchers!BlocksOf(slots[n])]
    /\ freed[0] = 0
    /\ \A n \in 1 .. Len(slots) : freed[n] = freed[n - 1] + Matchers!BlocksOf(slots[n])
    /\ \A n \in 0 .. Len(slots) : freed[n] \in Nat
    /\ Matchers!FreeMatcher(slots) = freed[Len(slots)]

\* The blocks of a slot are a number.
LEMMA BlocksCounted ==
  ASSUME NEW slots \in Seq(Rule), NEW n \in 1 .. Len(slots)
  PROVE  Matchers!BlocksOf(slots[n]) \in Nat
<1>1. slots[n] \in Rule
  OBVIOUS
<1>2. slots[n].elements \in Seq(Matchers!Strings)
  BY <1>1 DEF Rule
<1> QED BY <1>2 DEF Matchers!BlocksOf

\* free_matcher adds up the blocks of the slots one by one.
LEMMA SumsExist ==
  ASSUME NEW slots \in Seq(Rule)
  PROVE  \E freed : Sums(slots, freed)
<1> DEFINE last == Len(slots)
           Step(c, i) == IF i = 0 THEN 0 ELSE c[i - 1] + Matchers!BlocksOf(slots[i])
           Unfolds(n) == \E c : c = [i \in 0 .. n |-> Step(c, i)]
<1>0. last \in Nat
  OBVIOUS
<1> HIDE DEF Unfolds
<1>1. Unfolds(0)
  <2> DEFINE c == [i \in 0 .. 0 |-> 0]
  <2>1. c = [i \in 0 .. 0 |-> Step(c, i)]
    OBVIOUS
  <2> HIDE DEF c
  <2> QED BY <2>1 DEF Unfolds
<1>2. ASSUME NEW n \in Nat, Unfolds(n) PROVE Unfolds(n + 1)
  <2> PICK c : c = [i \in 0 .. n |-> Step(c, i)]
    BY <1>2 DEF Unfolds
  <2> DEFINE d == [i \in 0 .. n + 1 |->
                      IF i = n + 1 THEN c[n] + Matchers!BlocksOf(slots[n + 1]) ELSE c[i]]
  <2>1. ASSUME NEW i \in 0 .. n + 1 PROVE d[i] = Step(d, i)
    <3>1. CASE i = n + 1
      BY <3>1
    <3>2. CASE i # n + 1 /\ i # 0
      <4>1. i \in 0 .. n /\ i - 1 \in 0 .. n
        BY <3>2
      <4>2. d[i] = c[i] /\ d[i - 1] = c[i - 1]
        BY <4>1
      <4>3. c[i] = Step(c, i)
        BY <4>1
      <4> QED BY <3>2, <4>2, <4>3
    <3>3. CASE i = 0
      BY <3>3
    <3> QED BY <3>1, <3>2, <3>3
  <2>2. d = [i \in 0 .. n + 1 |-> Step(d, i)]
    BY <2>1
  <2> HIDE DEF d
  <2> QED BY <2>2 DEF Unfolds
<1>3. Unfolds(last)
  <2> DEFINE bad == {n \in Nat : ~ Unfolds(n)}
  <2> SUFFICES ASSUME bad # {} PROVE FALSE
    BY <1>0
  <2>1. PICK n \in bad : \A k \in bad : n <= k
    <3>1. bad \subseteq Nat
      OBVIOUS
    <3> HIDE DEF bad
    <3> QED BY <3>1, LeastExists
  <2>2. n # 0
    BY <1>1
  <2>3. n - 1 \in Nat /\ n - 1 \notin bad
    BY <2>1, <2>2
  <2>4. Unfolds(n - 1 + 1)
    BY <1>2, <2>3
  <2> QED BY <2>4
<1> DEFINE freed == CHOOSE c : c = [i \in 0 .. last |-> Step(c, i)]
<1>4. freed = [i \in 0 .. last |-> Step(freed, i)]
  BY <1>3 DEF Unfolds
<1>5. Matchers!FreeMatcher(slots) = freed[last]
  BY DEF Matchers!FreeMatcher
<1> HIDE DEF freed
<1>6. /\ freed[0] = 0
      /\ \A n \in 1 .. last : freed[n] = freed[n - 1] + Matchers!BlocksOf(slots[n])
  <2>1. \A n \in 0 .. last : freed[n] = Step(freed, n)
    BY <1>4
  <2> QED BY <1>0, <2>1
<1>7. ASSUME NEW n \in 0 .. last PROVE freed[n] \in Nat
  <2> DEFINE bad == {k \in 0 .. last : freed[k] \notin Nat}
  <2> SUFFICES ASSUME bad # {} PROVE FALSE
    OBVIOUS
  <2>1. PICK k \in bad : \A j \in bad : k <= j
    <3>1. bad \subseteq Nat
      OBVIOUS
    <3> HIDE DEF bad
    <3> QED BY <3>1, LeastExists
  <2>2. k \in 1 .. last /\ k - 1 \in 0 .. last /\ k - 1 \notin bad
    BY <1>0, <1>6, <2>1
  <2>3. freed[k - 1] \in Nat /\ Matchers!BlocksOf(slots[k]) \in Nat
    BY <2>2, BlocksCounted
  <2> QED BY <1>6, <2>1, <2>2, <2>3
<1> QED BY <1>4, <1>5, <1>6, <1>7 DEF Sums

\* Empty slots hold no blocks.
LEMMA NullsAreFree ==
  ASSUME NEW n \in Nat, NEW slots, slots = [i \in 1 .. n |-> Matchers!Null]
  PROVE  slots \in Seq(Rule) /\ Matchers!FreeMatcher(slots) = 0
<1>1. Matchers!Null \in Rule
  <2>1. <<>> \in Seq(Matchers!Strings)
    OBVIOUS
  <2> QED BY <2>1 DEF Rule, Matchers!Null, Matchers!Matcher
<1>2. slots \in Seq(Rule) /\ Len(slots) = n
  BY <1>1
<1> PICK freed : Sums(slots, freed)
  BY <1>2, SumsExist
<1>3. ASSUME NEW k \in 0 .. n PROVE freed[k] = 0
  <2> DEFINE bad == {i \in 0 .. n : freed[i] # 0}
  <2> SUFFICES ASSUME bad # {} PROVE FALSE
    OBVIOUS
  <2>1. PICK i \in bad : \A j \in bad : i <= j
    <3>1. bad \subseteq Nat
      OBVIOUS
    <3> HIDE DEF bad
    <3> QED BY <3>1, LeastExists
  <2>2. i \in 1 .. n /\ i - 1 \in 0 .. n /\ i - 1 \notin bad
    BY <2>1 DEF Sums
  <2>3. freed[i] = freed[i - 1] + Matchers!BlocksOf(slots[i]) /\ freed[i - 1] = 0
    BY <1>2, <2>2 DEF Sums
  <2>4. Matchers!BlocksOf(slots[i]) = 0
    BY <2>2 DEF Matchers!BlocksOf
  <2> QED BY <2>1, <2>3, <2>4
<1> QED BY <1>2, <1>3 DEF Sums

\* A slot that is filled adds its blocks.
LEMMA FilledIsCounted ==
  ASSUME NEW slots \in Seq(Rule), NEW at_slot \in 1 .. Len(slots), slots[at_slot] = Matchers!Null,
         NEW rule \in Rule, NEW new, new = [slots EXCEPT ![at_slot] = rule]
  PROVE  /\ new \in Seq(Rule)
         /\ Matchers!FreeMatcher(slots) \in Nat
         /\ Matchers!FreeMatcher(new) = Matchers!FreeMatcher(slots) + Matchers!BlocksOf(rule)
<1>1. new \in Seq(Rule) /\ Len(new) = Len(slots) /\ Len(slots) \in Nat
  OBVIOUS
<1>2. new[at_slot] = rule /\ \A k \in 1 .. Len(slots) : k # at_slot => new[k] = slots[k]
  OBVIOUS
<1> PICK before : Sums(slots, before)
  BY SumsExist
<1> PICK after : Sums(new, after)
  BY <1>1, SumsExist
<1>3. Matchers!BlocksOf(slots[at_slot]) = 0 /\ Matchers!BlocksOf(rule) \in Nat
  BY <1>1, <1>2, BlocksCounted DEF Matchers!BlocksOf
<1> DEFINE more(n) == IF n < at_slot THEN 0 ELSE Matchers!BlocksOf(rule)
<1>4. ASSUME NEW n \in 0 .. Len(slots) PROVE after[n] = before[n] + more(n)
  <2> DEFINE bad == {i \in 0 .. Len(slots) : after[i] # before[i] + more(i)}
  <2> SUFFICES ASSUME bad # {} PROVE FALSE
    OBVIOUS
  <2>1. PICK i \in bad : \A j \in bad : i <= j
    <3>1. bad \subseteq Nat
      OBVIOUS
    <3> HIDE DEF bad
    <3> QED BY <3>1, LeastExists
  <2>2. i # 0
    <3>1. after[0] = 0 /\ before[0] = 0
      BY DEF Sums
    <3>2. more(0) = 0
      BY <1>1
    <3> HIDE DEF more
    <3> QED BY <2>1, <3>1, <3>2
  <2>3. i \in 1 .. Len(slots) /\ i - 1 \in 0 .. Len(slots) /\ i - 1 \notin bad
    BY <1>1, <2>1, <2>2
  <2>4. after[i - 1] = before[i - 1] + more(i - 1) /\ before[i - 1] \in Nat
    BY <2>3 DEF Sums
  <2>5. /\ after[i] = after[i - 1] + Matchers!BlocksOf(new[i])
        /\ before[i] = before[i - 1] + Matchers!BlocksOf(slots[i])
    BY <1>1, <2>3 DEF Sums
  <2>6. Matchers!BlocksOf(slots[i]) \in Nat
    BY <2>3, BlocksCounted
  <2>7. CASE i = at_slot
    BY <1>2, <1>3, <2>1, <2>4, <2>5, <2>7
  <2>8. CASE i # at_slot
    <3>1. new[i] = slots[i] /\ more(i) = more(i - 1)
      BY <1>2, <2>3, <2>8
    <3> HIDE DEF more
    <3>2. more(i) \in Nat
      BY <1>3 DEF more
    <3> QED BY <2>1, <2>4, <2>5, <2>6, <3>1, <3>2
  <2> QED BY <2>7, <2>8
<1>5. Len(slots) \in 0 .. Len(slots) /\ ~(Len(slots) < at_slot)
  BY <1>1
<1> QED BY <1>1, <1>4, <1>5 DEF Sums

\* A member that makes a matcher
GoodRule(member) ==
    /\ Matchers!WellTyped(member) /\ member.elements # <<>>
    /\ \A i \in 1 .. Len(member.elements) : member.elements[i].type = "String"

\* The matcher of a member, as far as its elements have been copied
RuleOf(member, copied) ==
    Matchers!Matcher(member.string, Matchers!IgnoreCase(path.members),
                     [i \in 1 .. copied |-> member.elements[i].text])

\* Where the option stands among the members, and whether among the first n
Given == Matchers!OptionsGiven(path.members)
GivenWithin(n) == \E k \in Given : k <= n
OptionOnce == \A j, k \in Given : j = k

\* A path object and its slots, after n of its members have been looked at
Slots(n) ==
    /\ path.type = "Object"
    /\ matchers \in Seq(Rule) /\ Len(matchers) = Matchers!NumberOfMatchers(path.members)
    /\ Len(matchers) \in 1 .. MaxMatchers
    /\ match_index \in 1 .. n + 1 /\ (GivenWithin(n) => match_index <= n)
    /\ \A k \in 1 .. n : k \in Given \/ GoodRule(path.members[k])
    /\ \A k \in 1 .. Len(matchers) : k >= match_index => matchers[k] = Matchers!Null
    /\ OptionOnce =>
          /\ match_index = n + 1 - (IF GivenWithin(n) THEN 1 ELSE 0)
          /\ \A k \in 1 .. n : k \notin Given =>
                matchers[k - IF GivenWithin(k) THEN 1 ELSE 0] =
                    RuleOf(path.members[k], Len(path.members[k].elements))

\* The next member is being made a matcher.
Filling(n) ==
    /\ n < Len(path.members) /\ n + 1 \notin Given
    /\ Matchers!WellTyped(path.members[n + 1])
    /\ Len(pm.elements) < Len(path.members[n + 1].elements)
    /\ \A i \in 1 .. Len(pm.elements) : path.members[n + 1].elements[i].type = "String"
    /\ pm = RuleOf(path.members[n + 1], Len(pm.elements))

\* Why a request is refused though memory was at hand
Reason ==
    LET members == IF path.type = "Object" THEN path.members ELSE <<>>
        rules == Matchers!Rules(members)
    IN  \/ path.type \notin {"missing", "Object"}
        \/ Cardinality(rules) \notin 1 .. MaxMatchers
        \/ ~(\A j, k \in Matchers!OptionsGiven(members) : j = k)
        \/ \E k \in rules :
              \/ ~Matchers!WellTyped(members[k]) \/ members[k].elements = <<>>
              \/ \E i \in DOMAIN members[k].elements : members[k].elements[i].type # "String"

\* The stages of a fetch: what is held then, and what the slots say of the path
\* object
RulesInv ==
    /\ path \in Paths
    /\ \/ /\ stage = "request"
          /\ match_index = 1 /\ pm = Matchers!Null /\ held = 0 /\ answers = 0 /\ ~starved
       \/ LET n == Len(path.members) - Len(rest)
          IN  /\ stage = "adding"
              /\ rest \in Seq(Matchers!Members) /\ Len(rest) <= Len(path.members)
              /\ \A i \in 1 .. Len(rest) : rest[i] = path.members[n + i]
              /\ Slots(n)
              /\ pm = Matchers!Null \/ Filling(n)
              /\ held = 2 + Matchers!BlocksOf(pm) + Matchers!FreeMatcher(matchers)
              /\ answers = 0 /\ ~starved
       \/ /\ stage \in {"accepted", "freed"}
          /\ \/ path.type = "missing" /\ matchers = [i \in 1 .. 1 |-> Matchers!Null]
             \/ Slots(Len(path.members))
          /\ held = IF stage = "accepted" THEN 2 + Matchers!FreeMatcher(matchers) ELSE 0
          /\ answers = 0 /\ ~starved
       \/ /\ stage = "refused"
          /\ held = 0
          /\ answers > 1 => starved
          /\ starved \/ Reason

-----------------------------------------------------------------------------
\* What clients send
LEMMA PathTyped ==
  ASSUME path \in Paths
  PROVE  /\ path.members \in Seq(Matchers!Members) /\ Len(path.members) \in Nat
         /\ DOMAIN path.members = 1 .. Len(path.members)
         /\ \A k \in 1 .. Len(path.members) :
               /\ path.members[k] \in Matchers!Members
               /\ path.members[k].elements \in Seq(Matchers!Elements)
               /\ Len(path.members[k].elements) \in Nat
               /\ DOMAIN path.members[k].elements = 1 .. Len(path.members[k].elements)
               /\ \A i \in 1 .. Len(path.members[k].elements) :
                     path.members[k].elements[i].text \in Matchers!Strings
<1>1. path \in [type : STRING, members : Seq(Matchers!Members)]
  BY InputsAssumption DEF Matchers!PathsAssumption
<1>2. path.members \in Seq(Matchers!Members)
  BY <1>1
<1>3. Len(path.members) \in Nat /\ DOMAIN path.members = 1 .. Len(path.members)
  BY <1>2
<1>4. ASSUME NEW k \in 1 .. Len(path.members)
      PROVE  path.members[k] \in Matchers!Members
  BY <1>2
<1>5. ASSUME NEW k \in 1 .. Len(path.members)
      PROVE  path.members[k].elements \in Seq(Matchers!Elements)
  BY <1>4 DEF Matchers!Members
<1>6. ASSUME NEW elements_ \in Seq(Matchers!Elements)
      PROVE  /\ Len(elements_) \in Nat /\ DOMAIN elements_ = 1 .. Len(elements_)
             /\ \A i \in 1 .. Len(elements_) : elements_[i].text \in Matchers!Strings
  <2>1. \A i \in 1 .. Len(elements_) : elements_[i] \in Matchers!Elements
    OBVIOUS
  <2> QED BY <2>1 DEF Matchers!Elements
<1> QED BY <1>2, <1>3, <1>4, <1>5, <1>6

\* The matcher of a member has a block for itself and one for each element.
LEMMA RuleTyped ==
  ASSUME path \in Paths, NEW k \in 1 .. Len(path.members), Matchers!WellTyped(path.members[k]),
         NEW copied \in 0 .. Len(path.members[k].elements)
  PROVE  /\ RuleOf(path.members[k], copied) \in Rule
         /\ RuleOf(path.members[k], copied) # Matchers!Null
         /\ RuleOf(path.members[k], copied).elements =
               [i \in 1 .. copied |-> path.members[k].elements[i].text]
         /\ Len(RuleOf(path.members[k], copied).elements) = copied
         /\ Matchers!BlocksOf(RuleOf(path.members[k], copied)) = 1 + copied
<1> DEFINE texts == [i \in 1 .. copied |-> path.members[k].elements[i].text]
<1> DEFINE rule == RuleOf(path.members[k], copied)
<1>1. copied \in Nat /\ \A i \in 1 .. copied : path.members[k].elements[i].text \in Matchers!Strings
  BY PathTyped
<1>2. texts \in Seq(Matchers!Strings) /\ Len(texts) = copied
  BY <1>1
<1>3. path.members[k].string \in Matchers!RuleNames
  BY DEF Matchers!WellTyped
<1>4. Matchers!IgnoreCase(path.members) \in BOOLEAN
  BY DEF Matchers!IgnoreCase
<1> HIDE DEF texts
<1>5. rule = [name |-> path.members[k].string, ignore_case |-> Matchers!IgnoreCase(path.members), elements |-> texts]
  BY DEF RuleOf, Matchers!Matcher, texts
<1>6. rule \in Rule /\ rule.elements = texts /\ rule.name \in Matchers!RuleNames
  BY <1>2, <1>3, <1>4, <1>5 DEF Rule
<1>7. rule # Matchers!Null
  BY <1>6 DEF Matchers!RuleNames, Matchers!Null, Matchers!Matcher
<1> HIDE DEF rule
<1>8. Matchers!BlocksOf(rule) = 1 + copied
  BY <1>2, <1>6, <1>7 DEF Matchers!BlocksOf
<1> QED BY <1>2, <1>6, <1>7, <1>8 DEF rule, texts

\* A set of options has less than two members, or two that differ.
LEMMA AtMostOne ==
  ASSUME NEW n \in Nat, NEW S, S \subseteq 1 .. n
  PROVE  /\ Matchers!Cardinality(S) < 2 <=> \A j, k \in S : j = k
         /\ Cardinality((1 .. n) \ S) \in Nat
         /\ S = {} => Cardinality((1 .. n) \ S) = n
         /\ \A k \in S : S = {k} => Cardinality((1 .. n) \ S) = n - 1
<1>1. IsFiniteSet(1 .. n) /\ Cardinality(1 .. n) = n
  BY FS_Interval
<1>2. IsFiniteSet(S) /\ IsFiniteSet((1 .. n) \ S)
  BY <1>1, FS_Subset
<1>3. Cardinality(S) \in Nat /\ Cardinality((1 .. n) \ S) \in Nat
  BY <1>2, FS_CardinalityType
<1>4. Matchers!Cardinality(S) = Cardinality(S)
  BY DEF Matchers!Cardinality, Cardinality
<1>5. ASSUME \A j, k \in S : j = k
      PROVE  Cardinality(S) < 2
  <2>1. CASE S = {}
    BY <2>1, FS_EmptySet
  <2>2. CASE S # {}
    <3> PICK x \in S : TRUE
      BY <2>2
    <3>1. S = {x}
      BY <1>5
    <3> QED BY <3>1, FS_Singleton
  <2> QED BY <2>1, <2>2
<1>6. ASSUME Cardinality(S) < 2, NEW j \in S, NEW k \in S
      PROVE  j = k
  <2>1. Cardinality(S) # 0
    BY <1>2, FS_EmptySet
  <2>2. Cardinality(S) = 1
    BY <1>3, <1>6, <2>1
  <2>3. \E x : S = {x}
    BY <1>2, <2>2, FS_Singleton
  <2> QED BY <2>3
<1>7. S = {} => Cardinality((1 .. n) \ S) = n
  <2>1. S = {} => (1 .. n) \ S = 1 .. n
    OBVIOUS
  <2> QED BY <1>1, <2>1
<1>8. ASSUME NEW k \in S, S = {k} PROVE Cardinality((1 .. n) \ S) = n - 1
  <2>1. k \in 1 .. n
    OBVIOUS
  <2>2. Cardinality((1 .. n) \ {k}) = Cardinality(1 .. n) - 1
    BY <1>1, <2>1, FS_RemoveElement
  <2> QED BY <1>1, <1>8, <2>2
<1> QED BY <1>3, <1>4, <1>5, <1>6, <1>7, <1>8

\* Where all rules are of a known name the other members are options.
LEMMA RulesCounted ==
  ASSUME path \in Paths, OptionOnce,
         \A k \in Matchers!Rules(path.members) : Matchers!WellTyped(path.members[k])
  PROVE  /\ Matchers!Options(path.members) = Given
         /\ Cardinality(Matchers!Rules(path.members)) = Matchers!NumberOfMatchers(path.members)
<1> DEFINE n == Len(path.members)
<1>1. n \in Nat /\ DOMAIN path.members = 1 .. n
  BY PathTyped
<1>2. Given \subseteq 1 .. n /\ Matchers!Rules(path.members) = (1 .. n) \ Given
  BY <1>1 DEF Given, Matchers!OptionsGiven, Matchers!Rules
<1>3. Matchers!Options(path.members) = Given
  <2>1. \A k \in 1 .. n : k \notin Given => path.members[k].string \in Matchers!RuleNames
    BY <1>2 DEF Matchers!WellTyped
  <2> QED BY <1>1, <2>1 DEF Matchers!Options, Matchers!CaseInsensitive, Matchers!RuleNames, Given, Matchers!OptionsGiven
<1>4. CASE Given = {}
  <2>1. Cardinality((1 .. n) \ Given) = n
    BY <1>1, <1>2, <1>4, AtMostOne
  <2>2. Matchers!NumberOfMatchers(path.members) = n
    BY <1>1, <1>3, <1>4 DEF Matchers!NumberOfMatchers
  <2> QED BY <1>2, <1>3, <2>1, <2>2
<1>5. CASE Given # {}
  <2> PICK k \in Given : TRUE
    BY <1>5
  <2>1. Given = {k}
    BY DEF OptionOnce
  <2> QED BY <1>1, <1>2, <1>3, <1>5, <2>1, AtMostOne DEF Matchers!NumberOfMatchers
<1> QED BY <1>3, <1>4, <1>5

\* There is a slot for the next rule, whether the option comes before it, after
\* it or not at all.
LEMMA SlotIsFree ==
  ASSUME path \in Paths, NEW n \in 0 .. Len(path.members) - 1, Slots(n), n + 1 \notin Given,
         Matchers!WellTyped(path.members[n + 1])
  PROVE  match_index \in 1 .. Len(matchers) /\ matchers[match_index] = Matchers!Null
<1> DEFINE last == Len(path.members)
<1>1. last \in Nat /\ DOMAIN path.members = 1 .. last
  BY PathTyped
<1>2. /\ Len(matchers) = last - (IF Matchers!Options(path.members) # {} THEN 1 ELSE 0)
      /\ match_index \in 1 .. n + 1 /\ (GivenWithin(n) => match_index <= n)
  BY DEF Slots, Matchers!NumberOfMatchers
<1>3. ASSUME NEW k \in Matchers!Options(path.members)
      PROVE  k \in 1 .. last /\ (k <= n => GivenWithin(n)) /\ k # n + 1
  <2>1. k \in 1 .. last /\ path.members[k].string \notin Matchers!RuleNames
    BY <1>1, <1>3 DEF Matchers!Options, Matchers!CaseInsensitive, Matchers!RuleNames
  <2>2. k <= n => k \in Given
    BY <2>1 DEF Slots, GoodRule, Matchers!WellTyped
  <2>3. k # n + 1
    BY <2>1 DEF Matchers!WellTyped
  <2> QED BY <2>1, <2>2, <2>3 DEF GivenWithin
<1>4. match_index <= Len(matchers)
  <2>1. CASE Matchers!Options(path.members) = {}
    BY <1>1, <1>2, <2>1
  <2>2. CASE Matchers!Options(path.members) # {}
    <3> PICK k \in Matchers!Options(path.members) : TRUE
      BY <2>2
    <3>1. k \in 1 .. last /\ (k <= n => match_index <= n) /\ k # n + 1
      BY <1>2, <1>3
    <3>2. Len(matchers) = last - 1
      BY <1>2, <2>2
    <3> QED BY <1>1, <1>2, <3>1, <3>2
  <2> QED BY <2>1, <2>2
<1>5. match_index \in 1 .. Len(matchers)
  <2>1. match_index \in Nat /\ match_index >= 1 /\ Len(matchers) \in Int
    BY <1>1, <1>2
  <2> QED BY <1>4, <2>1
<1> QED BY <1>2, <1>5 DEF Slots

\* A path object is refused before anything is allocated, or its members are
\* looked at one after the other.
LEMMA CreateKeeps ==
  ASSUME RulesInv, Matchers!CreateFetch
  PROVE  RulesInv'
<1> DEFINE n == Matchers!NumberOfMatchers(path.members)
<1>1. /\ stage = "request" /\ path \in Paths
      /\ match_index = 1 /\ pm = Matchers!Null /\ held = 0 /\ answers = 0 /\ ~starved
  BY DEF RulesInv, Matchers!CreateFetch
<1>2. ASSUME UNCHANGED path, stage' = "refused", held' = 0, answers' > 1 => starved', starved' \/ Reason
      PROVE  RulesInv'
  BY <1>1, <1>2 DEF RulesInv, Reason, Matchers!Rules, Matchers!OptionsGiven, Matchers!WellTyped, Matchers!HasMultiplePathElements, Matchers!RuleNames
<1>3. ASSUME NEW slots \in Nat, NEW then, NEW members, Matchers!AllocFetch(slots, then, members)
      PROVE  \/ /\ stage' = then /\ matchers' = [i \in 1 .. slots |-> Matchers!Null] /\ rest' = members
                /\ held' = 2 /\ UNCHANGED <<path, match_index, pm, answers, starved>>
             \/ RulesInv'
  <2>1. CASE /\ Matchers!Refused(IF members = <<>> THEN 1 ELSE 2)
             /\ starved' = TRUE /\ UNCHANGED held
    BY <1>1, <1>2, <2>1 DEF Matchers!Refused
  <2>2. CASE ~(/\ Matchers!Refused(IF members = <<>> THEN 1 ELSE 2)
               /\ starved' = TRUE /\ UNCHANGED held)
    BY <1>1, <1>3, <2>2 DEF Matchers!AllocFetch
  <2> QED BY <2>1, <2>2
<1>4. CASE path.type = "missing"
  <2>1. Matchers!AllocFetch(1, "accepted", <<>>)
    BY <1>4 DEF Matchers!CreateFetch
  <2>2. CASE /\ stage' = "accepted" /\ matchers' = [i \in 1 .. 1 |-> Matchers!Null]
             /\ held' = 2 /\ UNCHANGED <<path, match_index, pm, answers, starved>>
    <3>1. Matchers!FreeMatcher(matchers') = 0
      BY <2>2, NullsAreFree
    <3>2. Matchers!FreeMatcher(matchers)' = Matchers!FreeMatcher(matchers')
      BY DEF Matchers!FreeMatcher, Matchers!BlocksOf, Matchers!Null, Matchers!Matcher
    <3>3. Matchers!Null' = Matchers!Null
      BY DEF Matchers!Null, Matchers!Matcher
    <3> QED BY <1>1, <1>4, <2>2, <3>1, <3>2, <3>3 DEF RulesInv
  <2> QED BY <1>3, <2>1, <2>2
<1>5. CASE path.type = "Object" /\ n \in 1 .. MaxMatchers
  <2>1. Matchers!AllocFetch(n, "adding", path.members)
    BY <1>5 DEF Matchers!CreateFetch
  <2>2. CASE /\ stage' = "adding" /\ matchers' = [i \in 1 .. n |-> Matchers!Null] /\ rest' = path.members
             /\ held' = 2 /\ UNCHANGED <<path, match_index, pm, answers, starved>>
    <3>0. MaxMatchers \in Nat /\ n \in Nat
      BY <1>5, InputsAssumption DEF Matchers!PathsAssumption
    <3>1. matchers' \in Seq(Rule) /\ Matchers!FreeMatcher(matchers') = 0 /\ Len(matchers') = n
      BY <2>2, <3>0, NullsAreFree
    <3>2. /\ path.members \in Seq(Matchers!Members) /\ Len(path.members) \in Nat
          /\ \A k \in Given : k >= 1
      BY <1>1, PathTyped DEF Given, Matchers!OptionsGiven
    <3>3. ~GivenWithin(0)
      BY <1>1, <3>2, PathTyped DEF GivenWithin, Given, Matchers!OptionsGiven
    <3>4. Slots(0)'
      <4>0. UNCHANGED path /\ UNCHANGED match_index /\ match_index' = 1
        BY <1>1, <2>2
      <4>1. path'.type = "Object"
        BY <1>5, <4>0
      <4>2. (Given = Given') /\ (GivenWithin(0) = GivenWithin(0)') /\ (OptionOnce = OptionOnce')
        BY <4>0 DEF GivenWithin, Given, OptionOnce, Matchers!OptionsGiven
      <4>3. Len(matchers') = Matchers!NumberOfMatchers(path.members)'
        BY <3>1, <4>0 DEF Matchers!NumberOfMatchers, Matchers!Options, Matchers!CaseInsensitive
      <4>4. Len(matchers') \in 1 .. MaxMatchers
        BY <1>5, <3>1
      <4>5. match_index' \in 1 .. 0 + 1 /\ match_index' = 0 + 1 - 0
        BY <4>0
      <4>6. \A k \in 1 .. Len(matchers') : matchers'[k] = Matchers!Null
        BY <2>2, <3>1
      <4>7. Matchers!Null' = Matchers!Null
        BY DEF Matchers!Null, Matchers!Matcher
      <4>8. (matchers \in Seq(Rule))'
        BY <3>1 DEF Rule, Matchers!Strings, Matchers!RuleNames
      <4>9. \A k \in 1 .. 0 : FALSE
        OBVIOUS
      <4> HIDE DEF n
      <4> QED BY <3>3, <4>1, <4>2, <4>3, <4>4, <4>5, <4>6, <4>7, <4>8, <4>9 DEF Slots
    <3>5. Len(path'.members) - Len(rest') = 0 /\ \A i \in 1 .. Len(rest') : rest'[i] = path'.members[0 + i]
      BY <2>2, <3>2
    <3>6. Matchers!BlocksOf(pm') = 0
      BY <1>1, <2>2 DEF Matchers!BlocksOf
    <3> QED BY <1>1, <2>2, <3>1, <3>2, <3>4, <3>5, <3>6 DEF RulesInv
  <2> QED BY <1>3, <1>5, <2>1, <2>2, InputsAssumption DEF Matchers!PathsAssumption
<1>6. CASE path.type # "missing" /\ ~(path.type = "Object" /\ n \in 1 .. MaxMatchers)
  <2>1. Matchers!Refused(1) /\ UNCHANGED <<held, starved>>
    BY <1>6 DEF Matchers!CreateFetch
  <2>2. Reason
    <3>1. CASE path.type # "Object"
      BY <1>6, <3>1 DEF Reason
    <3>2. CASE path.type = "Object" /\ OptionOnce /\ \A k \in Matchers!Rules(path.members) : Matchers!WellTyped(path.members[k])
      BY <1>1, <1>6, <3>2, RulesCounted DEF Reason
    <3>3. CASE path.type = "Object" /\ ~(OptionOnce /\ \A k \in Matchers!Rules(path.members) : Matchers!WellTyped(path.members[k]))
      BY <3>3 DEF Reason, OptionOnce, Given
    <3> QED BY <3>1, <3>2, <3>3
  <2> QED BY <1>1, <1>2, <2>1, <2>2 DEF Matchers!Refused
<1> QED BY <1>4, <1>5, <1>6

\* What is said of the path object stays true while it stays the same.
LEMMA PathKept ==
  ASSUME UNCHANGED path
  PROVE  /\ Given' = Given /\ OptionOnce' = OptionOnce /\ Reason' = Reason
         /\ \A k : GivenWithin(k)' = GivenWithin(k)
         /\ \A k : GoodRule(path.members[k])' = GoodRule(path.members[k])
         /\ \A k : Matchers!WellTyped(path.members[k])' = Matchers!WellTyped(path.members[k])
         /\ Matchers!NumberOfMatchers(path.members)' = Matchers!NumberOfMatchers(path.members)
         /\ \A k, copied : RuleOf(path.members[k], copied)' = RuleOf(path.members[k], copied)
<1>1. Given' = Given
  BY DEF Given, Matchers!OptionsGiven
<1>2. OptionOnce' = OptionOnce /\ \A k : GivenWithin(k)' = GivenWithin(k)
  BY <1>1 DEF OptionOnce, GivenWithin
<1>3. \A k : Matchers!WellTyped(path.members[k])' = Matchers!WellTyped(path.members[k])
  BY DEF Matchers!WellTyped, Matchers!HasMultiplePathElements, Matchers!RuleNames
<1>4. \A k : GoodRule(path.members[k])' = GoodRule(path.members[k])
  BY DEF GoodRule, Matchers!WellTyped, Matchers!HasMultiplePathElements, Matchers!RuleNames
<1>5. Matchers!NumberOfMatchers(path.members)' = Matchers!NumberOfMatchers(path.members)
  BY DEF Matchers!NumberOfMatchers, Matchers!Options, Matchers!CaseInsensitive
<1>6. \A k, copied : RuleOf(path.members[k], copied)' = RuleOf(path.members[k], copied)
  BY DEF RuleOf, Matchers!Matcher, Matchers!IgnoreCase, Matchers!Options, Matchers!CaseInsensitive
<1>7. Reason' = Reason
  BY DEF Reason, Matchers!Rules, Matchers!OptionsGiven, Matchers!WellTyped, Matchers!HasMultiplePathElements, Matchers!RuleNames
<1> QED BY <1>1, <1>2, <1>3, <1>4, <1>5, <1>6, <1>7

\* So does what is said of the slots.
LEMMA SlotsKept ==
  ASSUME UNCHANGED <<path, matchers, match_index>>, NEW n, Slots(n)
  PROVE  Slots(n)'
<1>1. /\ Given' = Given /\ OptionOnce' = OptionOnce
      /\ \A k : GivenWithin(k)' = GivenWithin(k)
      /\ \A k : GoodRule(path.members[k])' = GoodRule(path.members[k])
      /\ Matchers!NumberOfMatchers(path.members)' = Matchers!NumberOfMatchers(path.members)
  BY PathKept
<1>2. \A k : RuleOf(path.members[k], Len(path.members[k].elements))' =
             RuleOf(path.members[k], Len(path.members[k].elements))
  BY DEF RuleOf, Matchers!Matcher, Matchers!IgnoreCase, Matchers!Options, Matchers!CaseInsensitive
<1>3. (matchers \in Seq(Rule))'
  BY DEF Slots, Rule, Matchers!Strings, Matchers!RuleNames
<1>4. Matchers!Null' = Matchers!Null
  BY DEF Matchers!Null, Matchers!Matcher
<1> QED BY <1>1, <1>2, <1>3, <1>4 DEF Slots

\* The blocks of a fetch are numbers, and only a matcher adds to them.
LEMMA BlocksKept ==
  ASSUME NEW n, Slots(n)
  PROVE  /\ Matchers!FreeMatcher(matchers) \in Nat
         /\ Matchers!BlocksOf(Matchers!Null) = 0
         /\ UNCHANGED matchers => Matchers!FreeMatcher(matchers)' = Matchers!FreeMatcher(matchers)
         /\ Matchers!FreeMatcher(matchers)' = Matchers!FreeMatcher(matchers')
         /\ Matchers!BlocksOf(pm)' = Matchers!BlocksOf(pm')
         /\ Matchers!Null' = Matchers!Null
<1>1. Matchers!FreeMatcher(matchers) \in Nat
  <2>1. matchers \in Seq(Rule)
    BY DEF Slots
  <2> PICK freed : Sums(matchers, freed)
    BY <2>1, SumsExist
  <2>2. Len(matchers) \in 0 .. Len(matchers)
    BY <2>1
  <2> QED BY <2>2 DEF Sums
<1>2. Matchers!BlocksOf(Matchers!Null) = 0
  BY DEF Matchers!BlocksOf
<1>3. Matchers!FreeMatcher(matchers)' = Matchers!FreeMatcher(matchers')
  BY DEF Matchers!FreeMatcher, Matchers!BlocksOf, Matchers!Null, Matchers!Matcher
<1>4. Matchers!Null' = Matchers!Null
  BY DEF Matchers!Null, Matchers!Matcher
<1>5. Matchers!BlocksOf(pm)' = Matchers!BlocksOf(pm')
  BY <1>4 DEF Matchers!BlocksOf
<1> QED BY <1>1, <1>2, <1>3, <1>4, <1>5

\* The option takes no slot.
LEMMA OptionTakesNone ==
  ASSUME NEW n \in Nat, Slots(n), n + 1 \in Given
  PROVE  Slots(n + 1)
<1>1. /\ match_index \in 1 .. n + 1
      /\ \A k \in 1 .. n : k \in Given \/ GoodRule(path.members[k])
  BY DEF Slots
<1>2. match_index \in 1 .. (n + 1) + 1 /\ match_index <= n + 1
  BY <1>1
<1>3. \A k \in 1 .. n + 1 : k \in 1 .. n \/ k = n + 1
  OBVIOUS
<1>4. \A k \in 1 .. n + 1 : k \in Given \/ GoodRule(path.members[k])
  BY <1>1, <1>3
<1>5. ASSUME OptionOnce
      PROVE  /\ match_index = (n + 1) + 1 - (IF GivenWithin(n + 1) THEN 1 ELSE 0)
             /\ \A k \in 1 .. n + 1 : k \notin Given =>
                   matchers[k - IF GivenWithin(k) THEN 1 ELSE 0] =
                       RuleOf(path.members[k], Len(path.members[k].elements))
  <2>1. GivenWithin(n + 1) /\ ~GivenWithin(n)
    BY <1>5 DEF GivenWithin, OptionOnce
  <2>2. match_index = n + 1
    BY <1>5, <2>1 DEF Slots
  <2>3. match_index = (n + 1) + 1 - (IF GivenWithin(n + 1) THEN 1 ELSE 0)
    BY <2>1, <2>2
  <2>4. \A k \in 1 .. n : k \notin Given =>
           matchers[k - IF GivenWithin(k) THEN 1 ELSE 0] =
               RuleOf(path.members[k], Len(path.members[k].elements))
    BY <1>5 DEF Slots
  <2>5. \A k \in 1 .. n + 1 : k \notin Given => k \in 1 .. n
    BY <1>3
  <2> QED BY <2>3, <2>4, <2>5
<1>6. /\ path.type = "Object"
      /\ matchers \in Seq(Rule) /\ Len(matchers) = Matchers!NumberOfMatchers(path.members)
      /\ Len(matchers) \in 1 .. MaxMatchers
      /\ \A k \in 1 .. Len(matchers) : k >= match_index => matchers[k] = Matchers!Null
  BY DEF Slots
<1> QED BY <1>2, <1>4, <1>5, <1>6 DEF Slots

\* A matcher that is complete takes the next one.
LEMMA RuleTakesNext ==
  ASSUME path \in Paths, NEW n \in 0 .. Len(path.members) - 1, Slots(n), n + 1 \notin Given,
         GoodRule(path.members[n + 1]), UNCHANGED path, match_index' = match_index + 1,
         NEW rule, rule = RuleOf(path.members[n + 1], Len(path.members[n + 1].elements)),
         rule \in Rule, matchers' = [matchers EXCEPT ![match_index] = rule]
  PROVE  Slots(n + 1)'
<1> DEFINE slot(k) == k - IF GivenWithin(k) THEN 1 ELSE 0
<1>0. n \in Nat /\ Matchers!WellTyped(path.members[n + 1])
  BY PathTyped DEF GoodRule
<1>1. /\ Given' = Given /\ OptionOnce' = OptionOnce
      /\ \A k : GivenWithin(k)' = GivenWithin(k)
      /\ \A k : GoodRule(path.members[k])' = GoodRule(path.members[k])
      /\ Matchers!NumberOfMatchers(path.members)' = Matchers!NumberOfMatchers(path.members)
  BY PathKept
<1>2. \A k : RuleOf(path.members[k], Len(path.members[k].elements))' =
             RuleOf(path.members[k], Len(path.members[k].elements))
  BY DEF RuleOf, Matchers!Matcher, Matchers!IgnoreCase, Matchers!Options, Matchers!CaseInsensitive
<1>3. Matchers!Null' = Matchers!Null
  BY DEF Matchers!Null, Matchers!Matcher
<1>4. match_index \in 1 .. Len(matchers) /\ match_index \in 1 .. n + 1
  BY SlotIsFree, <1>0 DEF Slots
<1>5. /\ matchers \in Seq(Rule) /\ Len(matchers) \in Nat
      /\ path.type = "Object" /\ Len(matchers) = Matchers!NumberOfMatchers(path.members)
      /\ Len(matchers) \in 1 .. MaxMatchers
  BY DEF Slots
<1>6. /\ matchers' \in Seq(Rule) /\ Len(matchers') = Len(matchers)
      /\ matchers'[match_index] = rule
      /\ \A k \in 1 .. Len(matchers) : k # match_index => matchers'[k] = matchers[k]
  BY <1>4, <1>5
<1>7. (matchers \in Seq(Rule))'
  BY <1>6 DEF Rule, Matchers!Strings, Matchers!RuleNames
<1>8. \A k \in 1 .. n + 1 : k \in 1 .. n \/ k = n + 1
  BY <1>0
<1>9. \A k \in 1 .. n + 1 : k \in Given \/ GoodRule(path.members[k])
  BY <1>8 DEF Slots
<1>10. GivenWithin(n + 1) <=> GivenWithin(n)
  <2>1. \A k \in Given : k \in Nat
    BY PathTyped DEF Given, Matchers!OptionsGiven
  <2> QED BY <1>0, <2>1 DEF GivenWithin
<1>11. match_index + 1 \in 1 .. (n + 1) + 1 /\ (GivenWithin(n + 1) => match_index + 1 <= n + 1)
  BY <1>0, <1>4, <1>10 DEF Slots
<1>12. \A k \in 1 .. Len(matchers) : k >= match_index + 1 => matchers'[k] = Matchers!Null
  <2>1. \A k \in 1 .. Len(matchers) : k >= match_index + 1 => k >= match_index /\ k # match_index
    BY <1>4
  <2> QED BY <1>6, <2>1 DEF Slots
<1>13. ASSUME OptionOnce
       PROVE  /\ match_index + 1 = (n + 1) + 1 - (IF GivenWithin(n + 1) THEN 1 ELSE 0)
              /\ \A k \in 1 .. n + 1 : k \notin Given =>
                    matchers'[slot(k)] = RuleOf(path.members[k], Len(path.members[k].elements))
  <2>1. match_index = n + 1 - (IF GivenWithin(n) THEN 1 ELSE 0)
    BY <1>13 DEF Slots
  <2>2. match_index + 1 = (n + 1) + 1 - (IF GivenWithin(n + 1) THEN 1 ELSE 0)
    BY <1>0, <1>10, <2>1
  <2>3. match_index = slot(n + 1)
    BY <1>10, <2>1
  <2>4. ASSUME NEW k \in 1 .. n, k \notin Given
        PROVE  matchers'[slot(k)] = RuleOf(path.members[k], Len(path.members[k].elements))
    <3>1. GivenWithin(k) => k - 1 >= 1 /\ GivenWithin(n)
      <4>1. \A j \in Given : j \in Nat /\ j >= 1
        BY PathTyped DEF Given, Matchers!OptionsGiven
      <4> QED BY <1>0, <2>4, <4>1 DEF GivenWithin
    <3>2. GivenWithin(n) /\ ~GivenWithin(k) => k # n
      OBVIOUS
    <3>3. slot(k) \in 1 .. Len(matchers) /\ slot(k) # match_index
      BY <1>0, <1>4, <1>5, <2>1, <3>1, <3>2
    <3>4. matchers[slot(k)] = RuleOf(path.members[k], Len(path.members[k].elements))
      BY <1>13, <2>4 DEF Slots
    <3> QED BY <1>6, <3>3, <3>4
  <2> HIDE DEF slot
  <2>5. matchers'[slot(n + 1)] = RuleOf(path.members[n + 1], Len(path.members[n + 1].elements))
    BY <1>6, <2>3
  <2>6. \A k \in 1 .. n + 1 : k \notin Given =>
           matchers'[slot(k)] = RuleOf(path.members[k], Len(path.members[k].elements))
    BY <1>8, <2>4, <2>5
  <2> QED BY <2>2, <2>6
<1>14. path'.type = "Object" /\ Len(matchers') = Matchers!NumberOfMatchers(path.members)'
       /\ Len(matchers') \in 1 .. MaxMatchers
  BY <1>1, <1>5, <1>6
<1>15. \A k \in 1 .. Len(matchers') : k >= match_index' => matchers'[k] = Matchers!Null'
  BY <1>3, <1>6, <1>12
<1>16. OptionOnce' =>
          /\ match_index' = (n + 1) + 1 - (IF GivenWithin(n + 1)' THEN 1 ELSE 0)
          /\ \A k \in 1 .. n + 1 : k \notin Given' =>
                (matchers[k - IF GivenWithin(k) THEN 1 ELSE 0])' =
                    RuleOf(path.members[k], Len(path.members[k].elements))'
  BY <1>1, <1>2, <1>13
<1>17. /\ match_index' \in 1 .. (n + 1) + 1 /\ (GivenWithin(n + 1)' => match_index' <= n + 1)
       /\ \A k \in 1 .. n + 1 : k \in Given' \/ GoodRule(path.members[k])'
  BY <1>1, <1>9, <1>11
<1> QED BY <1>7, <1>14, <1>15, <1>16, <1>17 DEF Slots

\* One round of add_matchers
LEMMA AddKeeps ==
  ASSUME RulesInv, Matchers!AddMatchers
  PROVE  RulesInv'
<1> DEFINE here == Len(path.members) - Len(rest)
<1>1. /\ path \in Paths /\ stage = "adding"
      /\ rest \in Seq(Matchers!Members) /\ Len(rest) <= Len(path.members)
      /\ \A i \in 1 .. Len(rest) : rest[i] = path.members[here + i]
      /\ Slots(here)
      /\ pm = Matchers!Null \/ Filling(here)
      /\ held = 2 + Matchers!BlocksOf(pm) + Matchers!FreeMatcher(matchers)
      /\ answers = 0 /\ ~starved
  BY DEF RulesInv, Matchers!AddMatchers
<1>2. Len(path.members) \in Nat /\ Len(rest) \in Nat
  BY <1>1, PathTyped
<1> PICK n \in Nat : n = here
  <2>1. here \in Nat
    BY <1>1, <1>2
  <2> QED BY <2>1
<1>3. /\ Slots(n) /\ (pm = Matchers!Null \/ Filling(n))
      /\ n + Len(rest) = Len(path.members)
      /\ \A i \in 1 .. Len(rest) : rest[i] = path.members[n + i]
  BY <1>1, <1>2
<1> HIDE DEF here
<1>4. /\ Matchers!FreeMatcher(matchers) \in Nat
      /\ Matchers!BlocksOf(Matchers!Null) = 0
      /\ UNCHANGED matchers => Matchers!FreeMatcher(matchers)' = Matchers!FreeMatcher(matchers)
      /\ Matchers!FreeMatcher(matchers)' = Matchers!FreeMatcher(matchers')
      /\ Matchers!BlocksOf(pm)' = Matchers!BlocksOf(pm')
      /\ Matchers!Null' = Matchers!Null
  BY <1>3, BlocksKept
<1>5. ASSUME Filling(n)
      PROVE  /\ Len(pm.elements) \in 0 .. Len(path.members[n + 1].elements)
             /\ Matchers!BlocksOf(pm) = 1 + Len(pm.elements)
  <2>1. n + 1 \in 1 .. Len(path.members)
    BY <1>1, <1>2, <1>5 DEF Filling
  <2> DEFINE texts(copied) == [i \in 1 .. copied |-> path.members[n + 1].elements[i].text]
  <2>2. pm.elements = texts(Len(pm.elements))
    BY <1>5 DEF Filling, RuleOf, Matchers!Matcher
  <2>3. Len(pm.elements) \in Nat
    BY <1>1, <1>5, <2>1, <2>2, PathTyped DEF Filling
  <2>4. Len(pm.elements) \in 0 .. Len(path.members[n + 1].elements)
    BY <1>1, <1>5, <2>1, <2>3, PathTyped DEF Filling
  <2> PICK copied \in 0 .. Len(path.members[n + 1].elements) : copied = Len(pm.elements)
    BY <2>4
  <2>5. Matchers!BlocksOf(RuleOf(path.members[n + 1], copied)) = 1 + copied
    BY <1>1, <1>5, <2>1, RuleTyped DEF Filling
  <2> QED BY <1>5, <2>4, <2>5 DEF Filling
<1>6. Matchers!BlocksOf(pm) \in Nat
  BY <1>3, <1>4, <1>5
<1>7. ASSUME Matchers!AddFails, starved' \/ (Reason /\ UNCHANGED starved)
      PROVE  RulesInv'
  <2>1. stage' = "refused" /\ answers' = 1 /\ UNCHANGED path
    BY <1>1, <1>7 DEF Matchers!AddFails, Matchers!Refused
  <2>2. held' = 0
    BY <1>1, <1>4, <1>6, <1>7 DEF Matchers!AddFails
  <2>3. starved' \/ Reason'
    BY <1>7, <2>1, PathKept
  <2> QED BY <1>1, <2>1, <2>2, <2>3 DEF RulesInv
\* Both the rounds that go on and the invariant after them
<1>8. ASSUME NEW next \in Nat, Slots(next)', UNCHANGED <<path, stage, answers, starved>>,
             rest' \in Seq(Matchers!Members), next + Len(rest') = Len(path.members),
             \A i \in 1 .. Len(rest') : rest'[i] = path.members[next + i],
             pm' = Matchers!Null \/ Filling(next)',
             held' = 2 + Matchers!BlocksOf(pm') + Matchers!FreeMatcher(matchers')
      PROVE  RulesInv'
  <2>1. Len(path'.members) = Len(path.members) /\ Len(path'.members) \in Nat /\ Len(rest') \in Nat
    BY <1>2, <1>8
  <2>2. Len(path'.members) - Len(rest') = next /\ Len(rest') <= Len(path'.members)
    BY <1>8, <2>1
  <2>3. Slots(Len(path.members) - Len(rest))'
    BY <1>8, <2>2 DEF Slots, GivenWithin
  <2>4. pm' = Matchers!Null' \/ Filling(Len(path.members) - Len(rest))'
    BY <1>4, <1>8, <2>2 DEF Filling
  <2>5. (rest \in Seq(Matchers!Members))'
    BY <1>8 DEF Matchers!Members, Matchers!Elements, Matchers!Strings
  <2>6. held' = 2 + Matchers!BlocksOf(pm)' + Matchers!FreeMatcher(matchers)'
    BY <1>4, <1>8
  <2> QED BY <1>1, <1>8, <2>2, <2>3, <2>4, <2>5, <2>6 DEF RulesInv
<1>9. CASE rest = <<>>
  <2>1. stage' = "accepted" /\ UNCHANGED <<path, matchers, rest, match_index, pm, answers, held, starved>>
    BY <1>9 DEF Matchers!AddMatchers
  <2>2. n = Len(path.members) /\ pm = Matchers!Null
    BY <1>2, <1>3, <1>9 DEF Filling
  <2>3. Slots(n)'
    BY <1>3, <2>1, SlotsKept
  <2>4. Slots(Len(path.members))'
    BY <2>1, <2>2, <2>3 DEF Slots, GivenWithin
  <2>5. held' = 2 + Matchers!FreeMatcher(matchers)'
    BY <1>1, <1>4, <2>1, <2>2
  <2> QED BY <1>1, <2>1, <2>4, <2>5 DEF RulesInv
<1>10. ASSUME rest # <<>>
       PROVE  /\ n + 1 \in 1 .. Len(path.members) /\ n \in 0 .. Len(path.members) - 1
              /\ Head(rest) = path.members[n + 1]
              /\ Tail(rest) \in Seq(Matchers!Members)
              /\ n + 1 + Len(Tail(rest)) = Len(path.members)
              /\ \A i \in 1 .. Len(Tail(rest)) : Tail(rest)[i] = path.members[(n + 1) + i]
  <2>1. Len(rest) >= 1 /\ Head(rest) = rest[1] /\ 1 \in 1 .. Len(rest)
    BY <1>1, <1>10
  <2>2. Tail(rest) \in Seq(Matchers!Members) /\ Len(Tail(rest)) = Len(rest) - 1
    BY <1>1, <1>10
  <2>3. n + 1 \in 1 .. Len(path.members) /\ n \in 0 .. Len(path.members) - 1
    BY <1>2, <1>3, <2>1
  <2>4. ASSUME NEW i \in 1 .. Len(Tail(rest)) PROVE Tail(rest)[i] = path.members[(n + 1) + i]
    <3>1. Tail(rest)[i] = rest[i + 1] /\ i + 1 \in 1 .. Len(rest)
      BY <1>1, <1>10, <2>2
    <3>2. n + (i + 1) = (n + 1) + i
      BY <2>2
    <3> QED BY <1>3, <3>1, <3>2
  <2>5. Head(rest) = path.members[n + 1]
    BY <1>3, <2>1
  <2>6. n + 1 + Len(Tail(rest)) = Len(path.members)
    BY <1>2, <1>3, <2>2
  <2> QED BY <2>2, <2>3, <2>4, <2>5, <2>6
<1>11. CASE rest # <<>> /\ pm = Matchers!Null /\ Head(rest).string = "caseInsensitive"
  <2>1. rest' = Tail(rest) /\ UNCHANGED <<path, stage, matchers, match_index, pm, answers, held, starved>>
    BY <1>11 DEF Matchers!AddMatchers, Matchers!AddOption
  <2>2. n + 1 \in Given
    BY <1>1, <1>10, <1>11, PathTyped DEF Given, Matchers!OptionsGiven
  <2>3. Slots(n + 1)'
    BY <1>3, <2>1, <2>2, OptionTakesNone, SlotsKept
  <2>4. held' = 2 + Matchers!BlocksOf(pm') + Matchers!FreeMatcher(matchers')
    BY <1>1, <1>4, <2>1
  <2>5. rest' \in Seq(Matchers!Members) /\ (n + 1) + Len(rest') = Len(path.members)
        /\ \A i \in 1 .. Len(rest') : rest'[i] = path.members[(n + 1) + i]
    BY <1>10, <1>11, <2>1
  <2>6. n + 1 \in Nat /\ pm' = Matchers!Null
    BY <1>11, <2>1
  <2> QED BY <1>8, <2>1, <2>3, <2>4, <2>5, <2>6
<1>12. CASE rest # <<>> /\ pm = Matchers!Null /\ Head(rest).string # "caseInsensitive"
  <2> DEFINE member == path.members[n + 1]
  <2>1. Head(rest) = member /\ n + 1 \notin Given /\ n + 1 \in Matchers!Rules(path.members)
    BY <1>1, <1>10, <1>12, PathTyped DEF Given, Matchers!OptionsGiven, Matchers!Rules
  <2>2. Matchers!CreateMatcher(member)
    BY <1>12, <2>1 DEF Matchers!AddMatchers
  <2> HIDE DEF member
  <2>3. CASE (~Matchers!WellTyped(member) \/ member.elements = <<>>) /\ Matchers!AddFails /\ UNCHANGED starved
    <3>1. Reason
      BY <1>3, <2>1, <2>3 DEF Reason, Slots, member
    <3> QED BY <1>7, <2>3, <3>1
  <2>4. CASE Matchers!AddFails /\ starved' = TRUE
    BY <1>7, <2>4
  <2>5. CASE /\ Matchers!WellTyped(member) /\ member.elements # <<>>
             /\ pm' = Matchers!Matcher(member.string, Matchers!IgnoreCase(path.members), <<>>)
             /\ held' = held + 1
             /\ UNCHANGED <<path, stage, matchers, rest, match_index, answers, starved>>
    <3>1. member.elements \in Seq(Matchers!Elements) /\ Len(member.elements) \in Nat /\ Len(member.elements) > 0
      <4>1. member.elements \in Seq(Matchers!Elements)
        BY <1>1, <1>10, <1>12, PathTyped DEF member
      <4> QED BY <2>5, <4>1
    <3>2. RuleOf(member, 0) = Matchers!Matcher(member.string, Matchers!IgnoreCase(path.members), <<>>)
      <4>1. [i \in 1 .. 0 |-> member.elements[i].text] = <<>>
        OBVIOUS
      <4> QED BY <4>1 DEF RuleOf
    <3>3. /\ Len(RuleOf(member, 0).elements) = 0
          /\ Matchers!BlocksOf(RuleOf(member, 0)) = 1
      <4>1. 0 \in 0 .. Len(member.elements)
        BY <3>1
      <4>2. /\ Len(RuleOf(path.members[n + 1], 0).elements) = 0
            /\ Matchers!BlocksOf(RuleOf(path.members[n + 1], 0)) = 1 + 0
        BY <1>1, <1>10, <1>12, <2>5, <4>1, RuleTyped DEF member
      <4> QED BY <4>2 DEF member
    <3>4. Len(pm'.elements) = 0 /\ Matchers!BlocksOf(pm') = 1 /\ pm' = RuleOf(member, 0)
      BY <2>5, <3>2, <3>3
    <3>5. Filling(n)'
      <4>1. n < Len(path'.members) /\ n + 1 \notin Given'
        BY <1>2, <1>10, <1>12, <2>1, <2>5, PathKept
      <4>2. Matchers!WellTyped(path.members[n + 1])'
        BY <2>5, PathKept DEF member
      <4>3. Len(pm'.elements) < Len(path'.members[n + 1].elements)
        BY <2>5, <3>1, <3>4 DEF member
      <4>4. \A i \in 1 .. Len(pm'.elements) : path'.members[n + 1].elements[i].type = "String"
        BY <3>4
      <4>5. pm' = RuleOf(path.members[n + 1], Len(pm.elements))'
        <5>1. \A copied : RuleOf(path.members[n + 1], copied)' = RuleOf(path.members[n + 1], copied)
          BY <2>5, PathKept
        <5>2. pm' = RuleOf(path.members[n + 1], 0)'
          BY <3>4, <5>1 DEF member
        <5> QED BY <3>4, <5>2 DEF RuleOf
      <4> QED BY <4>1, <4>2, <4>3, <4>4, <4>5 DEF Filling
    <3>6. Slots(n)'
      BY <1>3, <2>5, SlotsKept
    <3>7. held' = 2 + Matchers!BlocksOf(pm') + Matchers!FreeMatcher(matchers')
      BY <1>1, <1>4, <1>12, <2>5, <3>4
    <3>8. rest' \in Seq(Matchers!Members) /\ n + Len(rest') = Len(path.members)
          /\ \A i \in 1 .. Len(rest') : rest'[i] = path.members[n + i]
      BY <1>1, <1>3, <2>5
    <3> QED BY <1>8, <2>5, <3>5, <3>6, <3>7, <3>8
  <2> QED BY <2>2, <2>3, <2>4, <2>5 DEF Matchers!CreateMatcher
<1>13. CASE rest # <<>> /\ pm # Matchers!Null
  <2> DEFINE member == path.members[n + 1]
             next == member.elements[Len(pm.elements) + 1]
             filled == [pm EXCEPT !.elements = Append(@, next.text)]
  <2>1. /\ Filling(n) /\ Head(rest) = member
        /\ Matchers!FillPathElement(member.elements)
    BY <1>3, <1>10, <1>13 DEF Matchers!AddMatchers
  <2>2. n + 1 \notin Given /\ n + 1 \in Matchers!Rules(path.members) /\ Matchers!WellTyped(member)
    BY <1>1, <1>10, <1>13, <2>1, PathTyped DEF Filling, Given, Matchers!Rules
  <2> PICK copied \in 0 .. Len(member.elements) : copied = Len(pm.elements)
    BY <1>5, <2>1
  <2>3. /\ member.elements \in Seq(Matchers!Elements) /\ Len(member.elements) \in Nat
        /\ copied + 1 \in 1 .. Len(member.elements)
        /\ pm = RuleOf(member, copied) /\ Matchers!BlocksOf(pm) = 1 + copied
        /\ \A i \in 1 .. copied : member.elements[i].type = "String"
    <3>1. member.elements \in Seq(Matchers!Elements) /\ Len(member.elements) \in Nat
      BY <1>1, <1>10, <1>13, PathTyped
    <3>2. /\ copied < Len(member.elements) /\ pm = RuleOf(member, copied)
          /\ \A i \in 1 .. copied : member.elements[i].type = "String"
      BY <2>1 DEF Filling
    <3>3. copied \in Nat /\ copied + 1 \in 1 .. Len(member.elements)
      BY <3>1, <3>2
    <3>4. Matchers!BlocksOf(pm) = 1 + copied
      BY <1>5, <2>1
    <3> QED BY <3>1, <3>2, <3>3, <3>4
  <2>4. next = member.elements[copied + 1]
    OBVIOUS
  <2>5. filled = RuleOf(member, copied + 1)
    <3> DEFINE texts(c) == [i \in 1 .. c |-> member.elements[i].text]
    <3>0. copied \in Nat /\ \A i \in 1 .. Len(member.elements) : member.elements[i].text \in Matchers!Strings
      BY <1>1, <1>10, <1>13, <2>3, PathTyped
    <3>1. \A i \in 1 .. copied + 1 : member.elements[i].text \in Matchers!Strings
      BY <2>3, <3>0
    <3>2. Append(texts(copied), next.text) = texts(copied + 1)
      <4>1. texts(copied) \in Seq(Matchers!Strings) /\ Len(texts(copied)) = copied
        BY <3>0, <3>1
      <4>2. texts(copied + 1) \in Seq(Matchers!Strings) /\ Len(texts(copied + 1)) = copied + 1
        BY <3>0, <3>1
      <4>3. next.text \in Matchers!Strings
        BY <2>4, <3>0, <3>1
      <4> DEFINE longer == Append(texts(copied), next.text)
      <4>4. longer \in Seq(Matchers!Strings) /\ Len(longer) = copied + 1
        BY <4>1, <4>3
      <4>5. \A i \in 1 .. copied + 1 : longer[i] = texts(copied + 1)[i]
        <5>1. longer[copied + 1] = next.text /\ \A i \in 1 .. copied : longer[i] = texts(copied)[i]
          BY <3>0, <4>1, <4>3
        <5>2. \A i \in 1 .. copied + 1 : i \in 1 .. copied \/ i = copied + 1
          BY <3>0
        <5> HIDE DEF longer, next
        <5> QED BY <2>4, <5>1, <5>2 DEF next
      <4> HIDE DEF longer, texts
      <4>6. longer = texts(copied + 1)
        BY <4>2, <4>4, <4>5, SameByLetters
      <4> QED BY <4>6 DEF longer
    <3>3. pm = [name |-> member.string, ignore_case |-> Matchers!IgnoreCase(path.members), elements |-> texts(copied)]
      BY <2>3 DEF RuleOf, Matchers!Matcher
    <3>4. RuleOf(member, copied + 1) =
            [name |-> member.string, ignore_case |-> Matchers!IgnoreCase(path.members), elements |-> texts(copied + 1)]
      BY DEF RuleOf, Matchers!Matcher
    <3> DEFINE next_text == next.text
    <3>5. filled = [pm EXCEPT !.elements = Append(pm.elements, next_text)]
      BY <3>3
    <3>6. pm.elements = texts(copied)
      BY <3>3
    <3> HIDE DEF texts, next, next_text, member, filled
    <3>7. ASSUME NEW matcher, NEW name_, NEW ic, NEW texts_, NEW longer,
                 matcher = [name |-> name_, ignore_case |-> ic, elements |-> texts_]
          PROVE  [matcher EXCEPT !.elements = longer] = [name |-> name_, ignore_case |-> ic, elements |-> longer]
      BY <3>7
    <3>8. [pm EXCEPT !.elements = Append(texts(copied), next_text)] =
             [name |-> member.string, ignore_case |-> Matchers!IgnoreCase(path.members),
              elements |-> Append(texts(copied), next_text)]
      <4> DEFINE ic == Matchers!IgnoreCase(path.members)
                 before == texts(copied)
                 after == Append(texts(copied), next_text)
                 name_ == member.string
      <4>1. pm = [name |-> name_, ignore_case |-> ic, elements |-> before]
        BY <3>3
      <4> HIDE DEF ic, before, after, name_
      <4>2. [pm EXCEPT !.elements = after] = [name |-> name_, ignore_case |-> ic, elements |-> after]
        BY <3>7, <4>1
      <4> QED BY <4>2 DEF ic, before, after, name_
    <3>9. filled = [pm EXCEPT !.elements = Append(texts(copied), next_text)]
      BY <3>5, <3>6, Zenon
    <3> QED BY <3>2, <3>4, <3>8, <3>9 DEF next_text
  <2>6. RuleOf(member, copied + 1) \in Rule
        /\ Len(RuleOf(member, copied + 1).elements) = copied + 1
        /\ Matchers!BlocksOf(RuleOf(member, copied + 1)) = 1 + (copied + 1)
    <3>1. copied + 1 \in 0 .. Len(member.elements)
      BY <2>3
    <3> QED BY <1>1, <1>10, <1>13, <2>2, <3>1, RuleTyped
  <2>7. CASE next.type # "String" /\ Matchers!AddFails /\ UNCHANGED starved
    <3>1. \E i \in DOMAIN member.elements : member.elements[i].type # "String"
      <4>1. DOMAIN member.elements = 1 .. Len(member.elements)
        BY <2>3
      <4> HIDE DEF next
      <4> QED BY <2>3, <2>4, <2>7, <4>1
    <3>2. path.type = "Object"
      BY <1>3 DEF Slots
    <3>3. Reason
      BY <2>2, <2>7, <3>1, <3>2 DEF Reason
    <3> QED BY <1>7, <2>7, <3>3
  <2>8. CASE Matchers!AddFails /\ starved' = TRUE
    BY <1>7, <2>8
  <2>9. held = 2 + (1 + copied) + Matchers!FreeMatcher(matchers) /\ copied \in Nat
    <3>1. held = 2 + Matchers!BlocksOf(pm) + Matchers!FreeMatcher(matchers)
      BY <1>1
    <3>2. Matchers!BlocksOf(pm) = 1 + copied
      BY <2>3
    <3>3. copied \in Nat
      <4>1. Len(member.elements) \in Nat
        BY <2>3
      <4> HIDE DEF member
      <4> QED BY <4>1
    <3> HIDE DEF member, next, filled
    <3> QED BY <3>1, <3>2, <3>3
  <2>10. CASE
             /\ next.type = "String" /\ held' = held + 1
             /\ IF Len(filled.elements) = Len(member.elements)
                THEN /\ matchers' = [matchers EXCEPT ![match_index] = filled]
                     /\ match_index' = match_index + 1
                     /\ rest' = Tail(rest)
                     /\ pm' = Matchers!Null
                ELSE pm' = filled /\ UNCHANGED <<matchers, match_index, rest>>
             /\ UNCHANGED <<path, stage, answers, starved>>
    <3> HIDE DEF filled, next
    <3>0. UNCHANGED path /\ UNCHANGED <<path, stage, answers, starved>> /\ held' = held + 1
      <4>1. UNCHANGED <<path, stage, answers, starved>> /\ held' = held + 1
        BY <2>10, Zenon
      <4> QED BY <4>1
    <3>1. Len(filled.elements) = copied + 1
      BY <2>5, <2>6
    <3>2. \A i \in 1 .. copied + 1 : member.elements[i].type = "String"
      <4>1. \A i \in 1 .. copied + 1 : i \in 1 .. copied \/ i = copied + 1
        BY <2>3
      <4> QED BY <2>3, <2>4, <2>10, <4>1
    <3>3. CASE copied + 1 = Len(member.elements)
      <4>1. /\ matchers' = [matchers EXCEPT ![match_index] = filled]
            /\ match_index' = match_index + 1 /\ rest' = Tail(rest) /\ pm' = Matchers!Null
        BY <2>10, <3>1, <3>3
      <4>2. GoodRule(path.members[n + 1])
        <5>1. member.elements # <<>>
          BY <2>3
        <5> QED BY <2>2, <3>2, <3>3, <5>1 DEF GoodRule
      <4>3. filled = RuleOf(path.members[n + 1], Len(path.members[n + 1].elements)) /\ filled \in Rule
        BY <2>5, <2>6, <3>3
      <4>4. n \in 0 .. Len(path.members) - 1
        BY <1>10, <1>13
      <4> HIDE DEF filled, next
      <4>5. Slots(n + 1)'
        BY <1>1, <1>3, <2>2, <3>0, <4>1, <4>2, <4>3, <4>4, RuleTakesNext
      <4>6. Matchers!FreeMatcher(matchers') = Matchers!FreeMatcher(matchers) + Matchers!BlocksOf(filled)
        <5>1. match_index \in 1 .. Len(matchers) /\ matchers[match_index] = Matchers!Null
          BY <1>1, <1>3, <2>2, <4>4, SlotIsFree
        <5>2. matchers \in Seq(Rule)
          BY <1>3 DEF Slots
        <5> QED BY <4>1, <4>3, <5>1, <5>2, FilledIsCounted
      <4>7. held' = 2 + Matchers!BlocksOf(pm') + Matchers!FreeMatcher(matchers')
        <5>1. Matchers!BlocksOf(filled) = 1 + (copied + 1)
          BY <2>5, <2>6
        <5>2. Matchers!BlocksOf(pm') = 0
          BY <1>4, <4>1
        <5>3. held = 2 + (1 + copied) + Matchers!FreeMatcher(matchers) /\ held' = held + 1 /\ copied \in Nat
          BY <2>9, <3>0
        <5>4. Matchers!FreeMatcher(matchers) \in Nat
          BY <1>4
        <5> QED BY <4>6, <5>1, <5>2, <5>3, <5>4
      <4>8. rest' \in Seq(Matchers!Members) /\ (n + 1) + Len(rest') = Len(path.members)
            /\ \A i \in 1 .. Len(rest') : rest'[i] = path.members[(n + 1) + i]
        BY <1>10, <1>13, <4>1
      <4>9. n + 1 \in Nat
        OBVIOUS
      <4> QED BY <1>8, <3>0, <4>1, <4>5, <4>7, <4>8, <4>9
    <3>4. CASE copied + 1 # Len(member.elements)
      <4>1. pm' = filled /\ UNCHANGED <<matchers, match_index, rest>>
        BY <2>10, <3>1, <3>4
      <4>2. pm' = RuleOf(member, copied + 1) /\ Len(pm'.elements) = copied + 1
            /\ Matchers!BlocksOf(pm') = 1 + (copied + 1)
        BY <2>5, <2>6, <4>1
      <4> HIDE DEF filled, next
      <4>3. Filling(n)'
        <5>1. n < Len(path'.members) /\ n + 1 \notin Given'
          BY <1>2, <1>10, <1>13, <2>2, <3>0, PathKept
        <5>2. Matchers!WellTyped(path.members[n + 1])'
          BY <2>2, <3>0, PathKept
        <5>3. Len(pm'.elements) < Len(path'.members[n + 1].elements)
          BY <2>3, <3>0, <3>4, <4>2
        <5>4. \A i \in 1 .. Len(pm'.elements) : path'.members[n + 1].elements[i].type = "String"
          BY <3>0, <3>2, <4>2
        <5>5. pm' = RuleOf(path.members[n + 1], Len(pm.elements))'
          <6>1. \A c : RuleOf(path.members[n + 1], c)' = RuleOf(path.members[n + 1], c)
            BY <3>0, PathKept
          <6>2. pm' = RuleOf(path.members[n + 1], copied + 1)'
            BY <4>2, <6>1
          <6> QED BY <4>2, <6>2 DEF RuleOf
        <5> QED BY <5>1, <5>2, <5>3, <5>4, <5>5 DEF Filling
      <4>4. Slots(n)'
        BY <1>3, <3>0, <4>1, SlotsKept
      <4>5. held' = 2 + Matchers!BlocksOf(pm') + Matchers!FreeMatcher(matchers')
        <5>1. held = 2 + (1 + copied) + Matchers!FreeMatcher(matchers) /\ held' = held + 1 /\ copied \in Nat
          BY <2>9, <3>0
        <5>2. Matchers!FreeMatcher(matchers) \in Nat /\ Matchers!FreeMatcher(matchers') = Matchers!FreeMatcher(matchers)
          BY <1>4, <4>1
        <5> QED BY <4>2, <5>1, <5>2
      <4>6. rest' \in Seq(Matchers!Members) /\ n + Len(rest') = Len(path.members)
            /\ \A i \in 1 .. Len(rest') : rest'[i] = path.members[n + i]
        BY <1>1, <1>3, <4>1
      <4> QED BY <1>8, <3>0, <4>3, <4>4, <4>5, <4>6
    <3> QED BY <3>3, <3>4
  <2> QED BY <2>1, <2>7, <2>8, <2>10 DEF Matchers!FillPathElement
<1> QED BY <1>9, <1>11, <1>12, <1>13

\* free_fetch frees what is held.
LEMMA FreeKeeps ==
  ASSUME RulesInv, Matchers!FreeFetch
  PROVE  RulesInv'
<1>1. /\ path \in Paths /\ stage = "accepted" /\ stage' = "freed" /\ answers = 0 /\ ~starved
      /\ \/ path.type = "missing" /\ matchers = [i \in 1 .. 1 |-> Matchers!Null]
         \/ Slots(Len(path.members))
      /\ held = 2 + Matchers!FreeMatcher(matchers)
      /\ held' = held - Matchers!FreeMatcher(matchers) - 2
      /\ UNCHANGED <<path, matchers, rest, match_index, pm, answers, starved>>
  BY DEF RulesInv, Matchers!FreeFetch
<1>2. CASE path.type = "missing" /\ matchers = [i \in 1 .. 1 |-> Matchers!Null]
  <2>1. Matchers!FreeMatcher(matchers) = 0
    BY <1>2, NullsAreFree
  <2>2. Matchers!Null' = Matchers!Null
    BY DEF Matchers!Null, Matchers!Matcher
  <2> QED BY <1>1, <1>2, <2>1, <2>2 DEF RulesInv
<1>3. CASE Slots(Len(path.members))
  <2> PICK n : n = Len(path.members)
    OBVIOUS
  <2>1. Slots(n)
    BY <1>3
  <2>2. Slots(n)' /\ Matchers!FreeMatcher(matchers) \in Nat
    BY <1>1, <2>1, SlotsKept, BlocksKept
  <2>3. Slots(Len(path.members))'
    BY <1>1, <2>2 DEF Slots, GivenWithin
  <2>4. held' = 0
    BY <1>1, <2>2
  <2> QED BY <1>1, <2>3, <2>4 DEF RulesInv
<1> QED BY <1>1, <1>2, <1>3

\* RulesInv is an inductive invariant of Matchers.
LEMMA RulesInit == Matchers!Init => RulesInv
BY DEF Matchers!Init, RulesInv

LEMMA RulesStep == RulesInv /\ [Matchers!Next]_(Matchers!vars) => RulesInv'
<1> SUFFICES ASSUME RulesInv, [Matchers!Next]_(Matchers!vars) PROVE RulesInv'
  OBVIOUS
<1>1. CASE Matchers!CreateFetch
  BY <1>1, CreateKeeps
<1>2. CASE Matchers!AddMatchers
  BY <1>2, AddKeeps
<1>3. CASE Matchers!FreeFetch
  BY <1>3, FreeKeeps
<1>4. CASE UNCHANGED Matchers!vars
  <2>1. UNCHANGED <<path, stage, matchers, rest, match_index, pm, answers, held, starved>>
    BY <1>4 DEF Matchers!vars
  <2>2. UNCHANGED <<path, matchers, match_index>>
    BY <2>1
  <2>3. \A n : Slots(n) => Slots(n)'
    BY <2>2, SlotsKept
  <2>4. \A n : Filling(n) => Filling(n)'
    <3> SUFFICES ASSUME NEW n, Filling(n) PROVE Filling(n)'
      OBVIOUS
    <3>1. Given' = Given /\ Matchers!WellTyped(path.members[n + 1])' = Matchers!WellTyped(path.members[n + 1])
      BY <2>1, PathKept
    <3>2. RuleOf(path.members[n + 1], Len(pm.elements))' = RuleOf(path.members[n + 1], Len(pm.elements))
      BY <2>1 DEF RuleOf, Matchers!Matcher, Matchers!IgnoreCase, Matchers!Options, Matchers!CaseInsensitive
    <3> QED BY <2>1, <3>1, <3>2 DEF Filling
  <2>5. /\ Matchers!Null' = Matchers!Null
        /\ Matchers!FreeMatcher(matchers)' = Matchers!FreeMatcher(matchers)
        /\ Matchers!BlocksOf(pm)' = Matchers!BlocksOf(pm)
    BY <2>1 DEF Matchers!Null, Matchers!Matcher, Matchers!FreeMatcher, Matchers!BlocksOf
  <2>6. Reason' = Reason
    BY <2>1, PathKept
  <2>7. CASE stage = "request"
    BY <2>1, <2>5, <2>7 DEF RulesInv
  <2>8. CASE stage = "adding"
    <3> PICK n : n = Len(path.members) - Len(rest)
      OBVIOUS
    <3>1. /\ rest \in Seq(Matchers!Members) /\ Len(rest) <= Len(path.members)
          /\ \A i \in 1 .. Len(rest) : rest[i] = path.members[n + i]
          /\ Slots(n) /\ (pm = Matchers!Null \/ Filling(n))
          /\ held = 2 + Matchers!BlocksOf(pm) + Matchers!FreeMatcher(matchers)
          /\ path \in Paths /\ answers = 0 /\ ~starved
      BY <2>8 DEF RulesInv
    <3>2. Len(path'.members) - Len(rest') = n
      BY <2>1
    <3>3. Slots(Len(path.members) - Len(rest))'
      <4>1. Slots(n)'
        BY <2>3, <3>1
      <4> QED BY <3>2, <4>1 DEF Slots, GivenWithin
    <3>4. (pm = Matchers!Null)' \/ Filling(Len(path.members) - Len(rest))'
      BY <2>1, <2>4, <2>5, <3>1, <3>2 DEF Filling
    <3>5. (rest \in Seq(Matchers!Members))'
      BY <2>1, <3>1 DEF Matchers!Members, Matchers!Elements, Matchers!Strings
    <3> QED BY <2>1, <2>5, <2>8, <3>1, <3>2, <3>3, <3>4, <3>5 DEF RulesInv
  <2>9. CASE stage \in {"accepted", "freed"}
    <3> PICK n : n = Len(path.members)
      OBVIOUS
    <3>1. Slots(n) => Slots(Len(path.members))'
      BY <2>1, <2>3 DEF Slots, GivenWithin
    <3> QED BY <2>1, <2>5, <2>9, <3>1 DEF RulesInv
  <2>10. CASE stage = "refused"
    BY <2>1, <2>6, <2>10 DEF RulesInv
  <2> QED BY <2>7, <2>8, <2>9, <2>10 DEF RulesInv
<1> QED BY <1>1, <1>2, <1>3, <1>4 DEF Matchers!Next

\* The slots of an accepted fetch and the rules of its path object belong
\* together, one by one.
LEMMA SlotsAreRules ==
  ASSUME path \in Paths, Slots(Len(path.members)), OptionOnce
  PROVE  /\ \A k \in Matchers!Rules(path.members) : GoodRule(path.members[k])
         /\ \A k \in Matchers!Rules(path.members) :
               \E j \in 1 .. Len(matchers) :
                  matchers[j] = RuleOf(path.members[k], Len(path.members[k].elements))
         /\ \A j \in 1 .. Len(matchers) :
               \E k \in Matchers!Rules(path.members) :
                  matchers[j] = RuleOf(path.members[k], Len(path.members[k].elements))
<1> DEFINE slot(k) == k - IF GivenWithin(k) THEN 1 ELSE 0
<1> PICK n \in Nat : n = Len(path.members)
  BY PathTyped
<1>1. Matchers!Rules(path.members) = (1 .. n) \ Given /\ Given \subseteq 1 .. n
  BY PathTyped DEF Matchers!Rules, Matchers!OptionsGiven, Given
<1>2. \A k \in Matchers!Rules(path.members) : GoodRule(path.members[k])
  BY <1>1 DEF Slots
<1>3. Len(matchers) = n - IF Given # {} THEN 1 ELSE 0
  <2>1. Matchers!Options(path.members) = Given
    BY <1>2, RulesCounted DEF GoodRule
  <2>2. Len(matchers) = Matchers!NumberOfMatchers(path.members)
    BY DEF Slots
  <2> QED BY <2>1, <2>2 DEF Matchers!NumberOfMatchers
<1>4. \A k \in Matchers!Rules(path.members) : matchers[slot(k)] = RuleOf(path.members[k], Len(path.members[k].elements))
  BY <1>1 DEF Slots
<1>5. ASSUME NEW k \in Matchers!Rules(path.members) PROVE slot(k) \in 1 .. Len(matchers)
  <2>1. k \in 1 .. n /\ k \notin Given
    BY <1>1
  <2>2. CASE GivenWithin(k)
    <3> PICK g \in Given : g <= k
      BY <2>2 DEF GivenWithin
    <3>1. g \in 1 .. n /\ g # k
      BY <1>1, <2>1
    <3>2. k - 1 >= 1 /\ Len(matchers) = n - 1
      <4>1. g >= 1 /\ g <= k /\ g # k /\ g \in Nat /\ k \in Nat
        BY <2>1, <3>1
      <4>2. Len(matchers) = n - 1
        BY <1>3, <3>1
      <4> QED BY <4>1, <4>2
    <3> QED BY <2>1, <2>2, <3>2
  <2>3. CASE ~GivenWithin(k)
    <3>1. Given # {} => k <= n - 1
      <4> SUFFICES ASSUME NEW g \in Given PROVE k <= n - 1
        OBVIOUS
      <4>1. g \in 1 .. n /\ ~(g <= k)
        BY <1>1, <2>3 DEF GivenWithin
      <4> QED BY <2>1, <4>1
    <3> QED BY <1>3, <2>1, <2>3, <3>1
  <2> QED BY <2>2, <2>3
<1>6. ASSUME NEW j \in 1 .. Len(matchers)
      PROVE  \E k \in Matchers!Rules(path.members) : slot(k) = j
  <2>0. j \in Nat /\ j >= 1 /\ j <= Len(matchers) /\ Len(matchers) \in Int
    BY <1>3
  <2>1. CASE GivenWithin(j)
    <3> PICK g \in Given : g <= j
      BY <2>1 DEF GivenWithin
    <3>1. g \in 1 .. n /\ Len(matchers) = n - 1
      BY <1>1, <1>3
    <3>2. j + 1 \in 1 .. n /\ g # j + 1
      BY <2>0, <3>1
    <3>3. j + 1 \in Matchers!Rules(path.members)
      BY <1>1, <3>2 DEF OptionOnce
    <3>4. GivenWithin(j + 1)
      BY <2>0, <3>1 DEF GivenWithin
    <3>5. slot(j + 1) = j
      BY <2>0, <3>4
    <3> QED BY <3>3, <3>5
  <2>2. CASE ~GivenWithin(j)
    <3>1. j \notin Given
      BY <2>0, <2>2 DEF GivenWithin
    <3>2. j \in 1 .. n
      BY <1>3, <2>0
    <3>3. slot(j) = j
      BY <2>0, <2>2
    <3> QED BY <1>1, <3>1, <3>2, <3>3
  <2> QED BY <2>1, <2>2
<1> HIDE DEF slot
<1> QED BY <1>2, <1>4, <1>5, <1>6

\* RulesInv is strong enough.
LEMMA RulesImplied == RulesInv => Matchers!FetchSelectsByRules
<1> SUFFICES ASSUME RulesInv PROVE Matchers!FetchSelectsByRules
  OBVIOUS
<1> DEFINE members == IF path.type = "Object" THEN path.members ELSE <<>>
           rules == Matchers!Rules(members)
           optionOnce == Matchers!Cardinality(Matchers!OptionsGiven(members)) < 2
<1>1. path \in Paths
  BY DEF RulesInv
<1>2. optionOnce <=> \A j, k \in Matchers!OptionsGiven(members) : j = k
  <2> PICK n \in Nat : n = Len(members)
    BY <1>1, PathTyped
  <2>1. DOMAIN members = 1 .. n
    BY <1>1, PathTyped
  <2>2. Matchers!OptionsGiven(members) \subseteq 1 .. n
    BY <2>1 DEF Matchers!OptionsGiven
  <2> HIDE DEF members
  <2> QED BY <2>2, AtMostOne
<1>3. ASSUME stage = "accepted", NEW state_path \in StatePaths
      PROVE  /\ Matchers!StateMatches(state_path) = "crash" => ~optionOnce
             /\ optionOnce =>
                   (Matchers!StateMatches(state_path) = "selected" <=>
                       \A k \in rules : Matchers!Holds(members[k], Matchers!IgnoreCase(members), state_path))
  <2>1. CASE path.type = "missing" /\ matchers = [i \in 1 .. 1 |-> Matchers!Null]
    <3>1. matchers[1] = Matchers!Null
      BY <2>1
    <3>2. Matchers!StateMatches(state_path) = "selected"
      BY <3>1 DEF Matchers!StateMatches
    <3>3. rules = {}
      BY <2>1 DEF Matchers!Rules
    <3> HIDE DEF rules, members, optionOnce
    <3> QED BY <3>2, <3>3
  <2>2. CASE Slots(Len(path.members)) /\ OptionOnce
    <3>1. path.type = "Object" /\ members = path.members
      BY <2>2 DEF Slots
    <3>2. state_path \in Matchers!Strings
      BY InputsAssumption DEF Matchers!PathsAssumption
    <3>3. DOMAIN matchers = 1 .. Len(matchers) /\ 1 \in 1 .. Len(matchers)
      <4>1. matchers \in Seq(Rule) /\ Len(matchers) \in 1 .. MaxMatchers
        BY <2>2 DEF Slots
      <4>2. Len(matchers) \in Nat /\ Len(matchers) >= 1
        BY <4>1
      <4> QED BY <4>1, <4>2
    <3> DEFINE fits(k) == Matchers!Holds(path.members[k], Matchers!IgnoreCase(path.members), state_path)
               rule(k) == RuleOf(path.members[k], Len(path.members[k].elements))
    <3>4. ASSUME NEW k \in Matchers!Rules(path.members)
          PROVE  rule(k) # Matchers!Null /\ (Matchers!MatchFunction(rule(k), state_path) <=> fits(k))
      <4>1. k \in 1 .. Len(path.members) /\ GoodRule(path.members[k])
        BY <1>1, <2>2, SlotsAreRules, PathTyped DEF Matchers!Rules
      <4>2. /\ path.members[k] \in Matchers!Members /\ Matchers!WellTyped(path.members[k])
            /\ path.members[k].elements # <<>> /\ path.members[k].string \in Matchers!RuleNames
            /\ Len(path.members[k].elements) \in Nat
        BY <1>1, <4>1, PathTyped DEF GoodRule, Matchers!WellTyped
      <4>3. rule(k) # Matchers!Null
        <5>1. Len(path.members[k].elements) \in 0 .. Len(path.members[k].elements)
          BY <4>2
        <5> QED BY <1>1, <4>1, <4>2, <5>1, RuleTyped
      <4>4. Matchers!IgnoreCase(path.members) \in BOOLEAN
        BY DEF Matchers!IgnoreCase
      <4>5. Matchers!MatchFunction(rule(k), state_path) <=> fits(k)
        BY <3>2, <4>2, <4>4, RuleHolds DEF RuleOf
      <4> QED BY <4>3, <4>5
    <3>5. /\ \A k \in Matchers!Rules(path.members) : \E j \in 1 .. Len(matchers) : matchers[j] = rule(k)
          /\ \A j \in 1 .. Len(matchers) : \E k \in Matchers!Rules(path.members) : matchers[j] = rule(k)
      BY <1>1, <2>2, SlotsAreRules
    <3> HIDE DEF rule, fits
    <3>6. \A j \in 1 .. Len(matchers) : matchers[j] # Matchers!Null
      BY <3>4, <3>5
    <3>7. (\A j \in 1 .. Len(matchers) : Matchers!MatchFunction(matchers[j], state_path)) <=>
             \A k \in Matchers!Rules(path.members) : fits(k)
      BY <3>4, <3>5
    <3>8. /\ Matchers!StateMatches(state_path) # "crash"
          /\ Matchers!StateMatches(state_path) = "selected" <=>
                \A j \in 1 .. Len(matchers) : Matchers!MatchFunction(matchers[j], state_path)
      BY <3>3, <3>6 DEF Matchers!StateMatches
    <3>9. (\A k \in Matchers!Rules(path.members) : fits(k)) <=>
             \A k \in rules : Matchers!Holds(members[k], Matchers!IgnoreCase(members), state_path)
      BY <3>1 DEF fits
    <3> HIDE DEF members, rules, optionOnce
    <3> QED BY <3>7, <3>8, <3>9
  <2>3. CASE Slots(Len(path.members)) /\ ~OptionOnce
    <3>1. members = path.members
      BY <2>3 DEF Slots
    <3>2. ~optionOnce
      BY <1>2, <2>3, <3>1 DEF OptionOnce, Given
    <3> HIDE DEF members, rules, optionOnce
    <3> QED BY <3>2
  <2> QED BY <1>3, <2>1, <2>2, <2>3 DEF RulesInv
<1>4. /\ stage \in {"refused", "freed"} => held = 0
      /\ answers > 1 => starved
      /\ stage = "refused" /\ ~starved => Reason
  BY DEF RulesInv
<1>5. Reason =>
         \/ path.type \notin {"missing", "Object"}
         \/ Matchers!Cardinality(rules) \notin 1 .. MaxMatchers
         \/ ~optionOnce
         \/ \E k \in rules :
               \/ ~Matchers!WellTyped(members[k]) \/ members[k].elements = <<>>
               \/ \E i \in DOMAIN members[k].elements : members[k].elements[i].type # "String"
  <2>1. Matchers!Cardinality(rules) = Cardinality(rules)
    BY DEF Matchers!Cardinality, Cardinality
  <2> HIDE DEF optionOnce
  <2> QED BY <1>2, <2>1 DEF Reason
<1> HIDE DEF optionOnce
<1> QED BY <1>3, <1>4, <1>5 DEF Matchers!FetchSelectsByRules, optionOnce

\* An accepted fetch selects the states its rules ask for, and every refusal has
\* a reason and leaves nothing behind: Matchers!FetchSelectsByRules for all path
\* objects, state paths and limits.
THEOREM FetchSelectsAlways == FormatsSpec => []FetchSelectsByRules
<1> DEFINE Inv == Runs("matchers") => RulesInv
<1>1. FormatsInit => Inv
  BY MatchersRuns, RulesInit
<1>2. Inv /\ [FormatsNext]_<<machine, allVars>> => Inv'
  BY MatchersRuns, RulesStep
<1>3. Inv => FetchSelectsByRules
  BY RulesImplied DEF FetchSelectsByRules
<1> QED BY <1>1, <1>2, <1>3, PTL DEF FormatsSpec

-----------------------------------------------------------------------------
(* Handshake                                                               *)

\* Only the machine that runs takes steps.
LEMMA ExtensionRuns ==
    /\ FormatsInit /\ Runs("extension") => Extension!Init
    /\ [FormatsNext]_<<machine, allVars>> /\ Runs("extension")' =>
          Runs("extension") /\ [Extension!Next]_(Extension!vars)
<1>1. FormatsInit /\ Runs("extension") => Extension!Init
    BY DEF FormatsInit
<1>2. FormatsNext /\ Runs("extension")' => Runs("extension") /\ Extension!Next
    BY DEF FormatsNext, OthersIdle, Runs
<1>3. UNCHANGED <<machine, allVars>> /\ Runs("extension")' => Runs("extension") /\ UNCHANGED Extension!vars
    BY DEF allVars, extensionVars, Extension!vars, Runs
<1> QED BY <1>1, <1>2, <1>3

\* Only the machine that runs takes steps.
LEMMA OctetsRuns ==
    /\ FormatsInit /\ Runs("octets") => Octets!Init
    /\ [FormatsNext]_<<machine, allVars>> /\ Runs("octets")' =>
          Runs("octets") /\ [Octets!Next]_(Octets!vars)
<1>1. FormatsInit /\ Runs("octets") => Octets!Init
    BY DEF FormatsInit
<1>2. FormatsNext /\ Runs("octets")' => Runs("octets") /\ Octets!Next
    BY DEF FormatsNext, OthersIdle, Runs
<1>3. UNCHANGED <<machine, allVars>> /\ Runs("octets")' => Runs("octets") /\ UNCHANGED Octets!vars
    BY DEF allVars, octetsVars, Octets!vars, Runs
<1> QED BY <1>1, <1>2, <1>3

\* The answer to an offer of permessage-deflate fits its buffer and says what
\* the streams are, the accept value is the base64 of the hash of the padded
\* message, and every octet of a payload is unmasked once: for all lengths, all
\* offers and all limits.
THEOREM HandshakeSoundAlways == FormatsSpec => []HandshakeSound
<1> DEFINE Inv == (Runs("extension") => ExtensionInv) /\ (Runs("octets") => OctetsInv)
<1>1. FormatsInit => Inv
  BY ExtensionRuns, OctetsRuns, ExtensionInit, OctetsInit
<1>2. Inv /\ [FormatsNext]_<<machine, allVars>> => Inv'
  BY ExtensionRuns, OctetsRuns, ExtensionStep, OctetsStep
<1>3. Inv => HandshakeSound
  BY ExtensionImplied, OctetsImplied DEF HandshakeSound
<1> QED BY <1>1, <1>2, <1>3, PTL DEF FormatsSpec

\* Only the machine that runs takes steps.
LEMMA UrlRuns ==
    /\ FormatsInit /\ Runs("url") => Url!Init
    /\ [FormatsNext]_<<machine, allVars>> /\ Runs("url")' =>
          Runs("url") /\ [Url!Next]_(Url!vars)
<1>1. FormatsInit /\ Runs("url") => Url!Init
    BY DEF FormatsInit
<1>2. FormatsNext /\ Runs("url")' => Runs("url") /\ Url!Next
    BY DEF FormatsNext, OthersIdle, Runs
<1>3. UNCHANGED <<machine, allVars>> /\ Runs("url")' => Runs("url") /\ UNCHANGED Url!vars
    BY DEF allVars, urlVars, Url!vars, Runs
<1> QED BY <1>1, <1>2, <1>3

\* The parts that http_parser_parse_url gives out of a URL it accepts do not
\* overlap, each stands between the delimiters that make it that part, nothing
\* but delimiters is left out, and the port is a number that fits 16 bits: for
\* all URLs, of any length.
THEOREM UrlPartsSoundAlways == FormatsSpec => []UrlPartsSound
<1> DEFINE Inv == Runs("url") => UrlInv
<1>1. FormatsInit => Inv
  BY UrlRuns, UrlInit
<1>2. Inv /\ [FormatsNext]_<<machine, allVars>> => Inv'
  BY UrlRuns, UrlStep
<1>3. Inv => UrlPartsSound
  BY UrlImplied DEF UrlPartsSound
<1> QED BY <1>1, <1>2, <1>3, PTL DEF FormatsSpec

\* The UTF-8 checker runs alone.
LEMMA Utf8Runs ==
    /\ FormatsInit /\ Runs("utf8") => Utf8!Init
    /\ [FormatsNext]_<<machine, allVars>> /\ Runs("utf8")' =>
          Runs("utf8") /\ [Utf8!Next]_(Utf8!vars)
<1>1. FormatsInit /\ Runs("utf8") => Utf8!Init
    BY DEF FormatsInit
<1>2. FormatsNext /\ Runs("utf8")' => Runs("utf8") /\ Utf8!Next
    BY DEF FormatsNext, OthersIdle, Runs
<1>3. UNCHANGED <<machine, allVars>> /\ Runs("utf8")' => Runs("utf8") /\ UNCHANGED Utf8!vars
    BY DEF allVars, utf8Vars, sharedVars, Utf8!vars, Runs
<1> QED BY <1>1, <1>2, <1>3

\* As long as no word has hidden an overlong lead byte, the checker of
\* utf8_checker.c says yes to the beginnings of texts and to nothing else, byte
\* by byte, word by word and at any alignment, and is_complete tells whether
\* the text is whole: for all bytes and words, and texts of any length.
THEOREM TellsTextAlways == FormatsSpec => []TellsText
<1> DEFINE Inv == Runs("utf8") => Utf8Inv
<1>1. FormatsInit => Inv
  BY Utf8Runs, Utf8Init
<1>2. Inv /\ [FormatsNext]_<<machine, allVars>> => Inv'
  BY Utf8Runs, Utf8Step, HandshakeAssumption
<1>3. Inv => TellsText
  BY Utf8Implied DEF TellsText
<1> QED BY <1>1, <1>2, <1>3, PTL DEF FormatsSpec
=============================================================================
