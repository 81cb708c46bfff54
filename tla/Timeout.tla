------------------------------- MODULE Timeout ------------------------------
(***************************************************************************)
(* The timeouts of routed requests (timer.c, timer_linux.c, and their use  *)
(* in element.c and router.c): seconds become nanoseconds, nanoseconds the *)
(* time the kernel is given.  An element is added with a timeout of its    *)
(* own or the configured one; a set or call may bring another.             *)
(*                                                                         *)
(* Time is counted in milliseconds, the smallest timeout that is accepted, *)
(* and nanoseconds.                                                        *)
(***************************************************************************)
EXTENDS Integers

CONSTANTS
    Asked,          \* timeouts a client may ask for, in milliseconds
    NoTimeout,      \* a request without a timeout
    NoNumber,       \* one whose timeout is not a number
    Default,        \* CONFIG_ROUTED_MESSAGES_TIMEOUT, in milliseconds
    NsPerMs,        \* 10^6
    MsPerSecond,    \* 1000
    Limit,          \* 2^64: the values of a uint64_t
    Precision       \* 2^52: what a double tells apart, of 1

\* How far a product of two doubles may be from that of the decimal numbers:
\* each of the seconds and the product is rounded by half a unit at most.
Rounding(ns) == ns \div Precision

\* The nanoseconds that are left when the fraction is cut off.
Near(ms) == ms * NsPerMs - Rounding(ms * NsPerMs) - 1 .. ms * NsPerMs + Rounding(ms * NsPerMs)

InRange(ms) == ms * NsPerMs + Rounding(ms * NsPerMs) < Limit

ConstantsAssumption ==
    /\ Asked \subseteq Int /\ {NoTimeout, NoNumber} \cap Int = {}
    /\ NsPerMs \in Nat \ 0 .. 3 /\ MsPerSecond \in Nat \ {0} /\ Limit \in Nat \ {0}
    /\ Precision \in Nat \ 0 .. 1
    /\ Default \in Nat \ {0} /\ InRange(Default)

VARIABLES
    called,         \* "add", "set" or "done"
    element,        \* e->timeout_nsec and, as a history, what was asked for
    asked,          \* what the set or call asked for
    answer,         \* "none", "error", or "nothing": no error, and garbage for add
    timer           \* the timer once it is started: [sec, nsec] and whether it is armed

vars == <<called, element, asked, answer, timer>>

Requested == Asked \cup {NoTimeout, NoNumber}

Init ==
    /\ called = "add"
    /\ element = [timeout_nsec |-> 0, asked |-> NoTimeout]
    /\ asked = NoTimeout
    /\ answer = "none"
    /\ timer = [sec |-> 0, nsec |-> 0, armed |-> FALSE]

\* convert_seconds_to_nsec: seconds are a double, which rarely is the decimal
\* number it stands for, and so is the product, whose fraction is cut off:
\* 1.001 s are 1000999999 ns.  A double that is too large for uint64_t has no
\* defined value; 0 is what the x86-64 sequence for the conversion leaves.
Converted(ms) == IF InRange(ms) THEN Near(ms) ELSE {0, Limit \div 2, Limit - 1}

Rejected(request) == request = NoNumber \/ (request \in Int /\ request < 1)

\* The values get_timeout_in_nsec may return; 0 is a refusal.
TimeoutInNsec(request, default_timeout) ==
    CASE request = NoTimeout -> {default_timeout}
      [] request # NoTimeout /\ Rejected(request) -> {0}
      [] OTHER -> Converted(request)

\* A refused timeout was answered by get_timeout_in_nsec, a converted 0 was not.
Refuse(request) ==
    /\ called' = "done"
    /\ answer' = IF Rejected(request) THEN "error" ELSE "nothing"
    /\ UNCHANGED timer

\* init_element; the configured timeout is converted like any other.
Add ==
    /\ called = "add"
    /\ \E request \in Requested, default_timeout \in Converted(Default) :
        \E ns \in TimeoutInNsec(request, default_timeout) :
            /\ element' = [timeout_nsec |-> ns, asked |-> request]
            /\ IF ns = 0 THEN Refuse(request) ELSE called' = "set" /\ UNCHANGED <<answer, timer>>
    /\ UNCHANGED asked

\* Mutant of ToItimerspec: the rest of a second is lost.
ToItimerspecWhole(ns) == [sec |-> ns \div (NsPerMs * MsPerSecond), nsec |-> 0]

\* convert_timeoutns_to_itimerspec
ToItimerspec(ns) ==
    LET seconds == ns \div (NsPerMs * MsPerSecond)
    IN  [sec |-> seconds, nsec |-> ns - seconds * NsPerMs * MsPerSecond]

\* timer_start: timerfd_settime disarms a timer that is given no time at all.
Start(ns) ==
    LET ts == ToItimerspec(ns)
    IN  timer' = [sec |-> ts.sec, nsec |-> ts.nsec, armed |-> ts.sec # 0 \/ ts.nsec # 0]

\* setup_routing_information
SetOrCall ==
    /\ called = "set"
    /\ \E request \in Requested :
        /\ asked' = request
        /\ \E ns \in TimeoutInNsec(request, element.timeout_nsec) :
              IF ns = 0 THEN Refuse(request)
              ELSE called' = "done" /\ Start(ns) /\ UNCHANGED answer
    /\ UNCHANGED element

Next == Add \/ SetOrCall

Spec == Init /\ [][Next]_vars

-----------------------------------------------------------------------------
\* The time that counts: the request's own, the element's, or the default.
Meant ==
    CASE asked # NoTimeout -> asked
      [] asked = NoTimeout /\ element.asked # NoTimeout -> element.asked
      [] OTHER -> Default

\* A timeout in the range of uint64_t that is no error is kept by a timer that
\* is armed, with no other loss than that of two roundings and of a fraction of
\* a nanosecond: up to Precision nanoseconds, some 52 days, it ends at most one
\* too early and never too late.  Any other is answered with an error; only one
\* beyond the range may be cut short or not be answered
\* (get_timeout_in_nsec, convert_timeoutns_to_itimerspec).
TimeoutsKept ==
    called = "done" =>
        \/ Rejected(Meant) /\ answer = "error" /\ ~timer.armed
        \/ ~Rejected(Meant) /\ ~InRange(Meant)
        \/ /\ ~Rejected(Meant) /\ timer.armed
           /\ timer.nsec < NsPerMs * MsPerSecond
           /\ timer.sec * NsPerMs * MsPerSecond + timer.nsec \in Near(Meant)
=============================================================================
