--------------------------- MODULE WebsocketProofs --------------------------
(***************************************************************************)
(* Proofs about Websocket for every set of users, opcodes, lengths and     *)
(* status codes.                                                           *)
(***************************************************************************)
EXTENDS Websocket, TLAPS

FlagSet == [fin : BOOLEAN, rsv : 0 .. 7, opcode : 0 .. 15, mask : BOOLEAN, frag_opcode : 0 .. 15,
            is_fragmented : BOOLEAN, is_frag_compressed : BOOLEAN]

\* Flags between two frames, or of a frame that has not been handled.
Fragmentation(fl) ==
    /\ ~fl.is_fragmented => fl.frag_opcode = CONTINUATION /\ ~fl.is_frag_compressed
    /\ fl.is_frag_compressed => accepted

\* The user has got frames of texts and of binary messages only.
OfKnownType(fl) == fl.is_fragmented => fl.frag_opcode \in {TEXT, BINARY}

InRequest == reading \in {"start_line", "orphan_line", "header_line"}

InFrames == InFrame \/ reading = "header"

\* What the flags may be.
Flags ==
    /\ accepted => user.compression
    /\ Fragmentation(ws_flags)
    /\ reading # "none" => OfKnownType(ws_flags)

\* What has been sent, and to whom, at each callback that may be installed.
Phases ==
    /\ InRequest => /\ ~upgrade_complete /\ sent = "nothing" /\ connection = "open"
                    /\ ~ws_flags.is_fragmented
    /\ reading \in {"start_line", "orphan_line"} => peer = "none"
    /\ reading = "start_line" => ~handshake.request_ok
    /\ InFrames => upgrade_complete /\ sent \in {"upgrade", "frame"}
    /\ reading # "none" => close_code = 0 /\ fault = "none"
    /\ reading = "none" /\ connection = "open" => fault # "none"

WebsocketInv == TypeOK /\ Flags /\ Phases /\ PeerOwnsConnection /\ FaultsExplained

\* The type of the message the user has got some frames of.
Begun(fl) ==
    IF fl.is_fragmented /\ ~fl.is_frag_compressed THEN Type(fl.frag_opcode) ELSE "none"

\* A delivery MessageStream allows, with the flags fl before it.
Delivery(fl) ==
    LET after == IF reading' = "none" THEN "none" ELSE Begun(ws_flags')
    IN  \E t \in {"text", "binary"} :
          \/ /\ Begun(fl) = "none" /\ after = "none"
             /\ event' = [what |-> "message", type |-> t, last |-> TRUE]
          \/ /\ Begun(fl) \in {"none", t} /\ after = IF reading' = "none" THEN "none" ELSE t
             /\ event' = [what |-> "frame", type |-> t, last |-> FALSE]
          \/ /\ Begun(fl) = t \/ (Begun(fl) = "none" /\ user.compression)
             /\ after = "none"
             /\ event' = [what |-> "frame", type |-> t, last |-> TRUE]

\* What may come of a frame: the next one is read, the connection ends, or
\* there is a fault.
Continues ==
    /\ reading' = "header" /\ sent' \in {sent, "frame"}
    /\ UNCHANGED <<connection, peer, close_code, fault>>

Finishes ==
    /\ reading' = "none" /\ connection' = "freed" /\ peer' = "freed" /\ sent' = "close"
    /\ close_code' \in {NORMAL, GOING_AWAY, PROTOCOL_ERROR, UNSUPPORTED, UNSUPPORTED_DATA,
                        INTERNAL_ERROR}
    /\ UNCHANGED fault

Fails(len) ==
    /\ reading' = "none" /\ event' = Nothing
    /\ UNCHANGED <<connection, peer, sent, close_code>>
    /\ \/ /\ fault' = "null_callback" /\ ws_flags'.is_fragmented
          /\ Callback(Type(ws_flags'.frag_opcode), "frame") \notin user.callbacks
       \/ /\ fault' = "no_buffer" /\ ws_flags'.is_frag_compressed /\ accepted
          /\ ~gathered' /\ len = 0

FlagsAfter(fl) ==
    /\ ws_flags' \in FlagSet /\ ws_flags'.mask = fl.mask /\ Fragmentation(ws_flags')
    /\ reading' = "header" => OfKnownType(ws_flags')
    /\ gathered' \in BOOLEAN

Refusable(fl, len) == ~Legal(fl, fl.mask, len) \/ (fl.opcode = CLOSE /\ len >= 2)

Passable(fl, len) == Legal(fl, fl.mask, len) \/ StrayCompressionBit(fl, fl.mask, len)

Judged(fl, len) ==
    /\ close_code' = PROTOCOL_ERROR => Refusable(fl, len)
    /\ reading' = "header" \/ event' # Nothing => Passable(fl, len)

Heard(fl) ==
    \/ event' = Nothing /\ (reading' = "none" \/ Begun(ws_flags') = Begun(fl))
    \/ Delivery(fl)

\* A frame with flags fl and length len is handled as the protocol wants it.
Outcome(fl, len) ==
    FlagsAfter(fl) /\ (Continues \/ Finishes \/ Fails(len)) /\ Judged(fl, len) /\ Heard(fl)

\* What is known of a connection whose frames are read.
Serving ==
    /\ upgrade_complete /\ sent \in {"upgrade", "frame"} /\ close_code = 0
    /\ user \in Users /\ (accepted => user.compression) /\ accepted \in BOOLEAN
    /\ gathered \in BOOLEAN

-----------------------------------------------------------------------------
\* The flags once the beginning or the end of a message is noted.
LEMMA StartedFlags ==
  ASSUME NEW fl \in FlagSet, Fragmentation(fl), ~RsvRefused(fl), ~FragmentRefused(fl),
         accepted \in BOOLEAN
  PROVE  /\ Started(fl) \in FlagSet /\ Fragmentation(Started(fl))
         /\ Started(fl).mask = fl.mask /\ Started(fl).fin = fl.fin
         /\ Ended(Started(fl)) \in FlagSet /\ Fragmentation(Ended(Started(fl)))
         /\ Ended(Started(fl)).mask = fl.mask
<1> USE DEF FlagSet, Fragmentation, RsvRefused, FragmentRefused, CONTINUATION, CLOSE, CompressedBit
<1>1. CASE ~fl.fin /\ fl.opcode # CONTINUATION
  <2>1. Started(fl) = [fl EXCEPT !.is_fragmented = TRUE,
                                 !.is_frag_compressed = @ \/ fl.rsv # 0,
                                 !.frag_opcode = fl.opcode,
                                 !.opcode = CONTINUATION]
    BY <1>1 DEF Started
  <2>5. PICK compressed \in BOOLEAN : compressed <=> fl.is_frag_compressed \/ fl.rsv # 0
    OBVIOUS
  <2>6. Started(fl) = [fin |-> fl.fin, rsv |-> fl.rsv, opcode |-> CONTINUATION, mask |-> fl.mask,
                       frag_opcode |-> fl.opcode, is_fragmented |-> TRUE,
                       is_frag_compressed |-> compressed]
    BY <2>1, <2>5
  <2>2. Started(fl) \in FlagSet /\ Started(fl).mask = fl.mask /\ ~Started(fl).fin
    BY <1>1, <2>6
  <2>3. Fragmentation(Started(fl))
    BY <1>1, <2>1
  <2>4. Ended(Started(fl)) = Started(fl)
    BY <2>2 DEF Ended
  <2> QED BY <1>1, <2>2, <2>3, <2>4
<1>2. CASE fl.fin \/ fl.opcode = CONTINUATION
  <2>1. Started(fl) = fl
    BY <1>2 DEF Started
  <2>2. Ended(fl) \in FlagSet /\ Fragmentation(Ended(fl)) /\ Ended(fl).mask = fl.mask
    <3>1. CASE fl.fin
      <4>1. Ended(fl) = [fin |-> fl.fin, rsv |-> fl.rsv, opcode |-> fl.opcode, mask |-> fl.mask,
                         frag_opcode |-> CONTINUATION, is_fragmented |-> FALSE,
                         is_frag_compressed |-> FALSE]
        BY <3>1 DEF Ended
      <4> QED BY <4>1
    <3>2. CASE ~fl.fin
      BY <3>2 DEF Ended
    <3> QED BY <3>1, <3>2
  <2> QED BY <2>1, <2>2
<1> QED BY <1>1, <1>2

\* Four ways to be done with a frame, all with an outcome.
LEMMA EndsOutcome ==
  ASSUME Serving, NEW fl \in FlagSet, NEW len \in Nat,
         NEW after \in FlagSet, after.mask = fl.mask, Fragmentation(after),
         NEW code \in {PROTOCOL_ERROR, INTERNAL_ERROR, UNSUPPORTED, UNSUPPORTED_DATA}, NEW before,
         Ends(after, code, before), event' = Nothing,
         code = PROTOCOL_ERROR => Refusable(fl, len)
  PROVE  Outcome(fl, len)
<1>1. /\ ws_flags' = after /\ gathered' = gathered /\ close_code' = code /\ reading' = "none"
      /\ connection' = "freed" /\ peer' = "freed" /\ sent' = "close" /\ UNCHANGED fault
  BY DEF Serving, Ends, HandleError, WebsocketClose
<1>2. FlagsAfter(fl)
  BY <1>1 DEF FlagsAfter, Serving
<1>3. Finishes
  BY <1>1 DEF Finishes
<1>4. Judged(fl, len)
  BY <1>1 DEF Judged
<1>5. Heard(fl)
  BY <1>1 DEF Heard
<1> QED BY <1>2, <1>3, <1>4, <1>5 DEF Outcome

LEMMA NextOutcome ==
  ASSUME Serving, NEW fl \in FlagSet, NEW len \in Nat,
         NEW after \in FlagSet, after.mask = fl.mask, Fragmentation(after), OfKnownType(after),
         NEW g \in BOOLEAN, NEW answer \in {sent, "frame"},
         NextFrame(after, g, answer), event' = Nothing,
         Passable(fl, len), Begun(after) = Begun(fl)
  PROVE  Outcome(fl, len)
<1>1. /\ ws_flags' = after /\ gathered' = g /\ close_code' = 0 /\ reading' = "header"
      /\ sent' = answer /\ UNCHANGED <<connection, peer, close_code, fault>>
  BY DEF NextFrame, Serving
<1>2. FlagsAfter(fl)
  BY <1>1 DEF FlagsAfter
<1>3. Continues
  BY <1>1 DEF Continues
<1>4. Judged(fl, len)
  BY <1>1 DEF Judged, PROTOCOL_ERROR
<1>5. Heard(fl)
  BY <1>1 DEF Heard
<1> QED BY <1>2, <1>3, <1>4, <1>5 DEF Outcome

LEMMA DiesOutcome ==
  ASSUME Serving, NEW fl \in FlagSet, NEW len \in Nat,
         NEW after \in FlagSet, after.mask = fl.mask, Fragmentation(after),
         NEW f, Dies(after, f),
         \/ /\ f = "null_callback" /\ after.is_fragmented
            /\ Callback(Type(after.frag_opcode), "frame") \notin user.callbacks
         \/ f = "no_buffer" /\ after.is_frag_compressed /\ ~gathered /\ len = 0
  PROVE  Outcome(fl, len)
<1>1. /\ ws_flags' = after /\ gathered' = gathered /\ close_code' = 0 /\ reading' = "none"
      /\ fault' = f /\ event' = Nothing /\ UNCHANGED <<connection, peer, sent, close_code>>
  BY DEF Dies, Faulty, Serving
<1>2. FlagsAfter(fl)
  BY <1>1 DEF FlagsAfter, Serving
<1>3. Fails(len)
  BY <1>1 DEF Fails, Fragmentation
<1>4. Judged(fl, len)
  BY <1>1 DEF Judged, PROTOCOL_ERROR
<1>5. Heard(fl)
  BY <1>1 DEF Heard
<1> QED BY <1>2, <1>3, <1>4, <1>5 DEF Outcome

LEMMA DeliverOutcome ==
  ASSUME Serving, NEW fl \in FlagSet, NEW len \in Nat,
         NEW after \in FlagSet, after.mask = fl.mask, Fragmentation(after), OfKnownType(after),
         NEW e, Deliver(after, e), Passable(fl, len),
         event' = e /\ ws_flags' = after => Delivery(fl)
  PROVE  Outcome(fl, len)
<1>1. event' = e
  BY DEF Deliver
<1>2. CASE NextFrame(after, FALSE, sent)
  <2>1. /\ ws_flags' = after /\ gathered' = FALSE /\ close_code' = 0 /\ reading' = "header"
        /\ sent' = sent /\ UNCHANGED <<connection, peer, close_code, fault>>
    BY <1>2 DEF NextFrame, Serving
  <2>2. FlagsAfter(fl)
    BY <2>1 DEF FlagsAfter
  <2>3. Continues
    BY <2>1 DEF Continues
  <2>4. Judged(fl, len)
    BY <2>1 DEF Judged, PROTOCOL_ERROR
  <2>5. Heard(fl)
    BY <1>1, <2>1 DEF Heard
  <2> QED BY <2>2, <2>3, <2>4, <2>5 DEF Outcome
<1>3. ASSUME NEW code \in {INTERNAL_ERROR, UNSUPPORTED_DATA}, Ends(after, code, sent)
      PROVE  Outcome(fl, len)
  <2>1. /\ ws_flags' = after /\ gathered' = gathered /\ close_code' = code /\ reading' = "none"
        /\ connection' = "freed" /\ peer' = "freed" /\ sent' = "close" /\ UNCHANGED fault
    BY <1>3 DEF Serving, Ends, HandleError, WebsocketClose
  <2>2. FlagsAfter(fl)
    BY <2>1 DEF FlagsAfter, Serving
  <2>3. Finishes
    BY <2>1 DEF Finishes
  <2>4. Judged(fl, len)
    BY <2>1 DEF Judged, PROTOCOL_ERROR, INTERNAL_ERROR, UNSUPPORTED_DATA
  <2>5. Heard(fl)
    BY <1>1, <2>1 DEF Heard
  <2> QED BY <2>2, <2>3, <2>4, <2>5 DEF Outcome
<1> QED BY <1>2, <1>3 DEF Deliver

-----------------------------------------------------------------------------
\* A frame of a fragmented message.
LEMMA FragmentOutcome ==
  ASSUME Serving, NEW fl \in FlagSet, Fragmentation(fl), OfKnownType(fl), NEW len \in Nat, fl.mask,
         ~RsvRefused(fl), ~FragmentRefused(fl),
         Started(fl).opcode = CONTINUATION, Fragment(Started(fl), len)
  PROVE  Outcome(fl, len)
<1> DEFINE st == Started(fl)
           type == Type(st.frag_opcode)
           held == gathered \/ len > 0
           hand == IF Callback(type, "frame") \in user.callbacks
                   THEN Deliver(Ended(st), [what |-> "frame", type |-> type, last |-> st.fin])
                   ELSE Dies(st, "null_callback")
<1>1. /\ st \in FlagSet /\ Fragmentation(st) /\ st.mask = fl.mask /\ st.fin = fl.fin
      /\ Ended(st) \in FlagSet /\ Fragmentation(Ended(st)) /\ Ended(st).mask = fl.mask
  BY StartedFlags DEF Serving
\* A message of a known type goes on or begins.
<1>2. ASSUME st.frag_opcode \in {TEXT, BINARY}
      PROVE  /\ Passable(fl, len)
             /\ st.is_fragmented
             /\ Begun(fl) = "none" \/ (Begun(fl) = type /\ ~st.is_frag_compressed)
             /\ ~st.is_frag_compressed /\ fl.fin => Begun(fl) = type
  <2>1. CASE ~fl.fin /\ fl.opcode # CONTINUATION
    <3>1. st = [fl EXCEPT !.is_fragmented = TRUE, !.is_frag_compressed = @ \/ fl.rsv # 0,
                          !.frag_opcode = fl.opcode, !.opcode = CONTINUATION]
      BY <2>1 DEF Started
    <3>2. fl.opcode \in {TEXT, BINARY} /\ st.is_fragmented
      BY <1>2, <2>1, <3>1 DEF FlagSet
    <3>3. ~fl.is_fragmented
      BY <3>2 DEF FragmentRefused, FlagSet, TEXT, BINARY, CLOSE
    <3>4. fl.rsv # 0 => accepted /\ fl.rsv = CompressedBit
      BY DEF RsvRefused
    <3>5. Legal(fl, fl.mask, len)
      BY <3>2, <3>3, <3>4 DEF Legal, TEXT, BINARY, CLOSE, CONTINUATION
    <3>6. Begun(fl) = "none"
      BY <3>3 DEF Begun
    <3> QED BY <2>1, <3>2, <3>5, <3>6 DEF Passable
  <2>2. CASE fl.fin \/ fl.opcode = CONTINUATION
    <3>1. st = fl /\ fl.opcode = CONTINUATION
      BY <2>2 DEF Started
    <3>2. fl.is_fragmented
      BY <1>2, <3>1 DEF Fragmentation, CONTINUATION, TEXT, BINARY
    <3>3. fl.rsv # 0 => fl.fin /\ accepted /\ fl.rsv = CompressedBit
      BY <3>1 DEF RsvRefused, FragmentRefused, FlagSet
    <3>4. fl.rsv # 0 => StrayCompressionBit(fl, fl.mask, len)
      <4>1. Legal([fl EXCEPT !.rsv = 0], fl.mask, len)
        BY <3>1, <3>2 DEF Legal, FlagSet, CONTINUATION, CLOSE
      <4> QED BY <3>1, <3>3, <4>1, Zenon DEF StrayCompressionBit
    <3>5. fl.rsv = 0 => Legal(fl, fl.mask, len)
      BY <3>1, <3>2 DEF Legal, FlagSet, CONTINUATION, CLOSE
    <3>6. Passable(fl, len)
      BY <3>4, <3>5 DEF Passable
    <3>7. Begun(fl) = IF fl.is_frag_compressed THEN "none" ELSE type
      BY <3>1, <3>2 DEF Begun
    <3> QED BY <3>1, <3>2, <3>6, <3>7
  <2> QED BY <2>1, <2>2
<1>3. CASE /\ st.frag_opcode \notin {TEXT, BINARY}
           /\ Ends(st, PROTOCOL_ERROR, sent) /\ event' = Nothing
  <2>1. ~Legal(fl, fl.mask, len)
    <3>1. CASE ~fl.fin /\ fl.opcode # CONTINUATION
      <4>1. st.frag_opcode = fl.opcode
        BY <3>1 DEF Started, FlagSet
      <4> QED BY <1>3, <3>1, <4>1 DEF Legal, FragmentRefused, FlagSet, CONTINUATION, TEXT, BINARY,
                                      CLOSE, PING, PONG
    <3>2. CASE fl.fin \/ fl.opcode = CONTINUATION
      <4>1. st = fl /\ fl.opcode = CONTINUATION
        BY <3>2 DEF Started
      <4> QED BY <1>3, <4>1 DEF Legal, OfKnownType, CONTINUATION, CLOSE
    <3> QED BY <3>1, <3>2
  <2> QED BY <1>1, <1>3, <2>1, EndsOutcome DEF Refusable
<1>4. CASE st.frag_opcode \in {TEXT, BINARY} /\ hand /\ (st.is_frag_compressed => st.fin)
  <2>1. type \in {"text", "binary"} /\ st.fin \in BOOLEAN
    BY <1>1 DEF Type, FlagSet
  <2>2. CASE Dies(st, "null_callback") /\ Callback(type, "frame") \notin user.callbacks
    BY <1>1, <1>2, <1>4, <2>2, DiesOutcome
  <2>3. CASE Deliver(Ended(st), [what |-> "frame", type |-> type, last |-> st.fin])
    <3>1. OfKnownType(Ended(st))
      BY <1>1, <1>4 DEF Ended, OfKnownType, FlagSet
    <3>2. Begun(Ended(st)) = IF st.fin THEN "none" ELSE type
      BY <1>1, <1>2, <1>4 DEF Ended, Begun, FlagSet
    <3>3. ASSUME event' = [what |-> "frame", type |-> type, last |-> st.fin], ws_flags' = Ended(st)
          PROVE  Delivery(fl)
      <4>1. CASE st.fin
        <5>1. Begun(fl) = type \/ (Begun(fl) = "none" /\ user.compression)
          BY <1>1, <1>2, <1>4, <4>1 DEF Fragmentation, Serving
        <5>2. event' = [what |-> "frame", type |-> type, last |-> TRUE]
          BY <2>1, <3>3, <4>1
        <5> QED BY <2>1, <3>2, <3>3, <4>1, <5>1, <5>2 DEF Delivery
      <4>2. CASE ~st.fin
        <5>1. event' = [what |-> "frame", type |-> type, last |-> FALSE]
          BY <2>1, <3>3, <4>2
        <5> QED BY <1>2, <1>4, <2>1, <3>2, <3>3, <4>2, <5>1 DEF Delivery
      <4> QED BY <4>1, <4>2
    <3> QED BY <1>1, <1>2, <1>4, <2>3, <3>1, <3>3, DeliverOutcome
  <2> QED BY <1>4, <2>2, <2>3
<1>5. CASE /\ st.frag_opcode \in {TEXT, BINARY} /\ st.is_frag_compressed /\ ~st.fin
           /\ NextFrame(st, held, sent) /\ event' = Nothing
  <2>1. Begun(fl) = "none" /\ Begun(st) = "none" /\ OfKnownType(st)
    BY <1>2, <1>5 DEF Begun, OfKnownType
  <2>2. held \in BOOLEAN
    OBVIOUS
  <2> HIDE DEF held
  <2> QED BY <1>1, <1>2, <1>5, <2>1, <2>2, NextOutcome
<1>6. CASE /\ st.frag_opcode \in {TEXT, BINARY} /\ st.is_frag_compressed /\ st.fin /\ ~held
           /\ Dies(st, "no_buffer")
  <2>1. ~gathered /\ len = 0
    BY <1>6
  <2> QED BY <1>1, <1>2, <1>6, <2>1, DiesOutcome
<1>7. CASE /\ st.frag_opcode \in {TEXT, BINARY}
           /\ Ends(Ended(st), INTERNAL_ERROR, sent) /\ event' = Nothing
  <2>1. INTERNAL_ERROR # PROTOCOL_ERROR
    BY DEF INTERNAL_ERROR, PROTOCOL_ERROR
  <2> QED BY <1>1, <1>7, <2>1, EndsOutcome
<1> QED BY <1>3, <1>4, <1>5, <1>6, <1>7 DEF Fragment

\* A whole message, which cannot come between two fragments of another.
LEMMA MessageOutcome ==
  ASSUME Serving, NEW fl \in FlagSet, Fragmentation(fl), OfKnownType(fl), NEW len \in Nat, fl.mask,
         ~RsvRefused(fl), ~FragmentRefused(fl),
         Started(fl).opcode \in {TEXT, BINARY}, Message(Started(fl))
  PROVE  Outcome(fl, len)
<1>1. Started(fl) = fl /\ fl.fin
  BY DEF Started, FlagSet, CONTINUATION, TEXT, BINARY
<1>2. fl.opcode \in {TEXT, BINARY} /\ ~fl.is_fragmented
  BY <1>1 DEF FragmentRefused, TEXT, BINARY, CLOSE
<1>3. Legal(fl, fl.mask, len)
  BY <1>2 DEF RsvRefused, Legal, TEXT, BINARY, CLOSE, CONTINUATION
<1>4. Begun(fl) = "none"
  BY <1>2 DEF Begun
<1> DEFINE type == Type(fl.opcode)
           e == [what |-> "message", type |-> type, last |-> TRUE]
<1>5. type \in {"text", "binary"}
  BY DEF Type
<1>6. CASE Deliver(fl, e)
  <2>1. event' = e /\ ws_flags' = fl => Delivery(fl)
    BY <1>4, <1>5 DEF Delivery
  <2> QED BY <1>3, <1>6, <2>1, DeliverOutcome DEF Passable
<1>7. ASSUME NEW code \in {INTERNAL_ERROR, UNSUPPORTED}, Ends(fl, code, sent), event' = Nothing
      PROVE  Outcome(fl, len)
  <2>1. code # PROTOCOL_ERROR
    BY DEF INTERNAL_ERROR, UNSUPPORTED, PROTOCOL_ERROR
  <2> QED BY <1>7, <2>1, EndsOutcome
<1> QED BY <1>1, <1>6, <1>7 DEF Message

\* A control frame, which may come anywhere.
LEMMA ControlOutcome ==
  ASSUME Serving, NEW fl \in FlagSet, Fragmentation(fl), OfKnownType(fl), NEW len \in Nat, fl.mask,
         ~RsvRefused(fl), ~FragmentRefused(fl),
         \/ Started(fl).opcode = PING /\ Ping(Started(fl), len)
         \/ Started(fl).opcode = PONG /\ Pong(Started(fl), len)
         \/ Started(fl).opcode = CLOSE /\ Close(Started(fl), len)
  PROVE  Outcome(fl, len)
<1>1. Started(fl) = fl
  <2>1. CASE ~fl.fin /\ fl.opcode # CONTINUATION
    BY <2>1 DEF Started, FlagSet, CONTINUATION, PING, PONG, CLOSE
  <2>2. CASE fl.fin \/ fl.opcode = CONTINUATION
    BY <2>2 DEF Started
  <2> QED BY <2>1, <2>2
<1>2. fl.opcode \in {PING, PONG, CLOSE} /\ fl.fin /\ fl.rsv = 0
  BY <1>1 DEF FragmentRefused, RsvRefused, FlagSet, PING, PONG, CLOSE
<1>3. /\ len <= SmallFrame /\ (fl.opcode = CLOSE => len # 1) => Legal(fl, fl.mask, len)
      /\ len > SmallFrame => ~Legal(fl, fl.mask, len)
      /\ fl.opcode = CLOSE /\ len = 1 => ~Legal(fl, fl.mask, len)
  BY <1>2 DEF Legal, CONTINUATION, TEXT, BINARY, PING, PONG, CLOSE, SmallFrame
<1>4. /\ INTERNAL_ERROR # PROTOCOL_ERROR /\ UNSUPPORTED_DATA # PROTOCOL_ERROR
      /\ PING # CLOSE /\ PONG # CLOSE
  BY DEF INTERNAL_ERROR, UNSUPPORTED_DATA, PROTOCOL_ERROR, PING, PONG, CLOSE
<1>5. CASE fl.opcode = PING /\ Ping(fl, len)
  <2>1. CASE len > SmallFrame
    BY <1>3, <1>5, <2>1, EndsOutcome DEF Ping, Refusable
  <2>2. CASE ~(len > SmallFrame)
    <3>1. Passable(fl, len)
      <4>1. len <= SmallFrame
        BY <2>2 DEF SmallFrame
      <4>2. fl.opcode # CLOSE
        BY <1>4, <1>5
      <4> QED BY <1>3, <4>1, <4>2 DEF Passable
    <3> QED BY <1>4, <1>5, <2>2, <3>1, EndsOutcome, NextOutcome DEF Ping, Serving
  <2> QED BY <2>1, <2>2
<1>6. CASE fl.opcode = PONG /\ Pong(fl, len)
  <2>1. CASE len > SmallFrame
    BY <1>3, <1>6, <2>1, EndsOutcome DEF Pong, Refusable
  <2>2. CASE ~(len > SmallFrame)
    <3>1. Passable(fl, len)
      <4>1. len <= SmallFrame
        BY <2>2 DEF SmallFrame
      <4>2. fl.opcode # CLOSE
        BY <1>4, <1>6
      <4> QED BY <1>3, <4>1, <4>2 DEF Passable
    <3> QED BY <1>6, <2>2, <3>1, NextOutcome DEF Pong, Serving
  <2> QED BY <2>1, <2>2
<1>7. CASE fl.opcode = CLOSE /\ Close(fl, len)
  <2>1. event' = Nothing
    BY <1>7 DEF Close
  <2>2. CASE Ends(fl, UNSUPPORTED_DATA, sent)
    BY <1>4, <2>1, <2>2, EndsOutcome
  <2>3. ASSUME NEW c \in IF len >= 2 THEN StatusCodes ELSE {NORMAL},
               len = 1 \/ len > SmallFrame \/ StatusCodeInvalid(c), Ends(fl, PROTOCOL_ERROR, sent)
        PROVE  Outcome(fl, len)
    <3>1. len >= 2 \/ len = 1
      BY <2>3 DEF StatusCodeInvalid, NORMAL, SmallFrame
    <3>2. Refusable(fl, len)
      BY <1>3, <1>7, <3>1 DEF Refusable
    <3> QED BY <2>1, <2>3, <3>2, EndsOutcome
  <2>4. CASE /\ WebsocketClose(NORMAL, sent)
             /\ peer' = IF "close" \in user.callbacks THEN "freed" ELSE peer
             /\ ws_flags' = fl /\ UNCHANGED <<gathered, fault>>
    <3>1. "close" \in user.callbacks
      BY ConstantsAssumption DEF ConstantsAssumption, Serving
    <3>2. /\ reading' = "none" /\ connection' = "freed" /\ peer' = "freed" /\ sent' = "close"
          /\ close_code' = NORMAL /\ ws_flags' = fl /\ UNCHANGED <<gathered, fault>>
      BY <2>4, <3>1 DEF WebsocketClose, Serving
    <3>3. FlagsAfter(fl) /\ Finishes /\ Heard(fl)
      BY <2>1, <3>2 DEF FlagsAfter, Finishes, Heard, Serving
    <3>4. Judged(fl, len)
      BY <2>1, <3>2 DEF Judged, NORMAL, PROTOCOL_ERROR
    <3> QED BY <3>3, <3>4 DEF Outcome
  <2> QED BY <1>7, <2>2, <2>3, <2>4 DEF Close
<1> QED BY <1>1, <1>5, <1>6, <1>7

\* Every frame has one of these outcomes.
LEMMA FrameOutcome ==
  ASSUME Serving, NEW fl \in FlagSet, Fragmentation(fl), OfKnownType(fl), NEW len \in Nat,
         GetPayload(fl, len)
  PROVE  Outcome(fl, len)
<1> DEFINE st == Started(fl)
<1>1. CASE ~fl.mask
  <2>1. ~Legal(fl, fl.mask, len)
    BY <1>1 DEF Legal
  <2> QED BY <1>1, <2>1, EndsOutcome DEF GetPayload, Refusable
<1>2. CASE fl.mask /\ (RsvRefused(fl) \/ FragmentRefused(fl))
  <2>1. ~Legal(fl, fl.mask, len)
    BY <1>2 DEF Legal, RsvRefused, FragmentRefused, FlagSet, CONTINUATION, TEXT, BINARY, CLOSE, PING,
                PONG
  <2> QED BY <1>2, <2>1, EndsOutcome DEF GetPayload, HandleFrame, Refusable
<1>3. CASE fl.mask /\ ~RsvRefused(fl) /\ ~FragmentRefused(fl)
  <2>1. CASE st.opcode = CONTINUATION
    <3>1. Fragment(st, len)
      BY <1>3, <2>1 DEF GetPayload, HandleFrame, CONTINUATION, TEXT, BINARY, PING, PONG, CLOSE
    <3> QED BY <1>3, <2>1, <3>1, FragmentOutcome
  <2>2. CASE st.opcode \in {TEXT, BINARY}
    <3>1. Message(st)
      BY <1>3, <2>2 DEF GetPayload, HandleFrame, CONTINUATION, TEXT, BINARY, PING, PONG, CLOSE
    <3> QED BY <1>3, <2>2, <3>1, MessageOutcome
  <2>3. CASE st.opcode \in {PING, PONG, CLOSE}
    <3>1. \/ st.opcode = PING /\ Ping(st, len)
          \/ st.opcode = PONG /\ Pong(st, len)
          \/ st.opcode = CLOSE /\ Close(st, len)
      BY <1>3, <2>3 DEF GetPayload, HandleFrame, CONTINUATION, TEXT, BINARY, PING, PONG, CLOSE
    <3> QED BY <1>3, <3>1, ControlOutcome
  <2>4. CASE st.opcode \notin {CONTINUATION, TEXT, BINARY, PING, PONG, CLOSE}
    <3>1. Ends(st, PROTOCOL_ERROR, sent) /\ event' = Nothing
      BY <1>3, <2>4 DEF GetPayload, HandleFrame
    <3>2. ~Legal(fl, fl.mask, len)
      <4>1. st = fl
        <5>1. CASE ~fl.fin /\ fl.opcode # CONTINUATION
          BY <2>4, <5>1 DEF Started, FlagSet
        <5>2. CASE fl.fin \/ fl.opcode = CONTINUATION
          BY <5>2 DEF Started
        <5> QED BY <5>1, <5>2
      <4> QED BY <2>4, <4>1 DEF Legal
    <3>3. st \in FlagSet /\ st.mask = fl.mask /\ Fragmentation(st)
      BY <1>3, StartedFlags DEF Serving
    <3> QED BY <3>1, <3>2, <3>3, EndsOutcome DEF Refusable
  <2> QED BY <2>1, <2>2, <2>3, <2>4
<1> QED BY <1>1, <1>2, <1>3

-----------------------------------------------------------------------------
LEMMA NothingTyped ==
  Nothing.what = "nothing" /\ Nothing.type = "none" /\ Nothing.last \in BOOLEAN
BY DEF Nothing

LEMMA WebsocketInit == Init => WebsocketInv
<1> SUFFICES ASSUME Init PROVE WebsocketInv
  OBVIOUS
<1> USE DEF Init, Nothing, CONTINUATION
<1>1. TypeOK
  <2>1. ws_flags \in FlagSet
    BY DEF FlagSet
  <2>2. handshake \in [request_ok : BOOLEAN, upgrade : BOOLEAN, requested : BOOLEAN, found : BOOLEAN]
    OBVIOUS
  <2> QED BY <2>1, <2>2 DEF TypeOK, FlagSet
<1>2. Flags /\ Phases
  BY DEF Flags, Phases, Fragmentation, OfKnownType, InRequest, InFrames, InFrame
<1>3. PeerOwnsConnection /\ FaultsExplained
  BY <1>1 DEF PeerOwnsConnection, FaultsExplained
<1> QED BY <1>1, <1>2, <1>3 DEF WebsocketInv

\* A header line that is accepted.
LEMMA HeaderLineStep ==
  ASSUME WebsocketInv, UNCHANGED user, NEW h, NEW a \in BOOLEAN, HeaderLine(h, a),
         h \in [request_ok : BOOLEAN, upgrade : BOOLEAN, requested : BOOLEAN, found : BOOLEAN],
         a => user.compression, accepted => a
  PROVE  WebsocketInv'
<1> USE DEF HeaderLine, frameVars, WebsocketInv
<1>1. TypeOK'
  BY NothingTyped DEF TypeOK
<1>2. Flags'
  BY DEF Flags, Fragmentation, OfKnownType
<1>3. Phases' /\ PeerOwnsConnection' /\ FaultsExplained'
  BY <1>1 DEF Phases, PeerOwnsConnection, FaultsExplained, InRequest, InFrames, InFrame
<1> QED BY <1>1, <1>2, <1>3

\* What the request does.
LEMMA RequestStep ==
  ASSUME WebsocketInv, UNCHANGED user,
         \/ StartLine \/ OrphanLine \/ RefusedHeader \/ UpgradeHeader \/ ProtocolHeader
         \/ ExtensionHeader \/ HeadersComplete
  PROVE  WebsocketInv'
<1> USE DEF WebsocketInv, handshakeVars, frameVars
<1>1. CASE StartLine
  <2> USE DEF StartLine, FreeConnection, PeerCreated
  <2>1. handshake' \in [request_ok : BOOLEAN, upgrade : BOOLEAN, requested : BOOLEAN, found : BOOLEAN]
    BY <1>1 DEF TypeOK
  <2>2. TypeOK'
    BY <1>1, <2>1, NothingTyped DEF TypeOK
  <2>3. Flags'
    BY <1>1 DEF Flags, Phases, Fragmentation, OfKnownType
  <2>4. Phases' /\ PeerOwnsConnection' /\ FaultsExplained'
    BY <1>1, <2>2 DEF Phases, PeerOwnsConnection, FaultsExplained, InRequest, InFrames, InFrame
  <2> QED BY <2>2, <2>3, <2>4
<1>2. CASE OrphanLine
  <2> USE DEF OrphanLine, FreeConnection, Faulty
  <2>1. TypeOK'
    BY <1>2, NothingTyped DEF TypeOK
  <2>2. Flags'
    BY <1>2 DEF Flags, Fragmentation, OfKnownType
  <2>3. Phases' /\ PeerOwnsConnection' /\ FaultsExplained'
    BY <1>2, <2>1 DEF Phases, PeerOwnsConnection, FaultsExplained, InRequest, InFrames, InFrame
  <2> QED BY <2>1, <2>2, <2>3
<1>3. CASE RefusedHeader \/ (HeadersComplete /\ HandleError(GOING_AWAY, "http_error")
                                             /\ UNCHANGED <<handshake, upgrade_complete, accepted, frameVars>>)
  <2>1. /\ sent' = "http_error" /\ close_code' = 0 /\ connection' = "freed" /\ reading' = "none"
        /\ peer' = "freed" /\ event' = Nothing
        /\ UNCHANGED <<handshake, upgrade_complete, accepted, ws_flags, length, gathered, fault>>
        /\ reading = "header_line"
    BY <1>3 DEF RefusedHeader, HeadersComplete, HandleError, WebsocketClose, Phases, InRequest
  <2>2. TypeOK'
    BY <2>1, NothingTyped DEF TypeOK
  <2>3. Flags'
    BY <2>1 DEF Flags, Fragmentation, OfKnownType
  <2>4. Phases' /\ PeerOwnsConnection' /\ FaultsExplained'
    BY <2>1, <2>2 DEF Phases, PeerOwnsConnection, FaultsExplained, InRequest, InFrames, InFrame
  <2> QED BY <2>2, <2>3, <2>4
<1>4. CASE UpgradeHeader
  <2>1. [handshake EXCEPT !.upgrade = TRUE] \in
          [request_ok : BOOLEAN, upgrade : BOOLEAN, requested : BOOLEAN, found : BOOLEAN]
    BY DEF TypeOK
  <2> QED BY <1>4, <2>1, HeaderLineStep DEF UpgradeHeader, TypeOK, Flags
<1>5. CASE ProtocolHeader
  <2>1. PICK match \in BOOLEAN :
          HeaderLine([handshake EXCEPT !.requested = TRUE, !.found = @ \/ match], accepted)
    BY <1>5 DEF ProtocolHeader
  <2>2. [handshake EXCEPT !.requested = TRUE, !.found = @ \/ match] \in
          [request_ok : BOOLEAN, upgrade : BOOLEAN, requested : BOOLEAN, found : BOOLEAN]
    BY DEF TypeOK
  <2> QED BY <2>1, <2>2, HeaderLineStep DEF TypeOK, Flags
<1>6. CASE ExtensionHeader
  BY <1>6, HeaderLineStep DEF ExtensionHeader, TypeOK, Flags
<1>7. CASE /\ reading = "header_line" /\ sent' = "upgrade" /\ upgrade_complete' = TRUE
           /\ reading' = "header" /\ event' = Nothing
           /\ UNCHANGED <<connection, peer, close_code, handshake, accepted, frameVars, fault>>
  <2>1. TypeOK'
    BY <1>7, NothingTyped DEF TypeOK
  <2>2. Flags'
    BY <1>7 DEF Flags, Fragmentation, OfKnownType
  <2>3. Phases' /\ PeerOwnsConnection' /\ FaultsExplained'
    BY <1>7, <2>1 DEF Phases, PeerOwnsConnection, FaultsExplained, InRequest, InFrames, InFrame
  <2> QED BY <2>1, <2>2, <2>3
<1> QED BY <1>1, <1>2, <1>3, <1>4, <1>5, <1>6, <1>7 DEF HeadersComplete

\* What the other side, the socket and the server do.
LEMMA WorldStep ==
  ASSUME WebsocketInv, UNCHANGED user, ConnectionLost \/ SendMessage \/ Shutdown
  PROVE  WebsocketInv'
<1> USE DEF WebsocketInv, handshakeVars, frameVars
<1>1. UNCHANGED <<handshake, upgrade_complete, accepted, ws_flags, length, gathered>> /\ event' = Nothing
  BY DEF ConnectionLost, SendMessage, Shutdown, Faulty
<1>2. CASE ConnectionLost \/ (Shutdown /\ connection = "open")
  <2>1. /\ reading # "none" /\ reading' = "none" /\ connection' = "freed" /\ UNCHANGED fault
        /\ \/ peer' = "freed" /\ sent' = "close" /\ close_code' = GOING_AWAY
           \/ peer' = "freed" /\ sent' = sent /\ close_code' = 0
           \/ peer # "listed" /\ UNCHANGED <<peer, sent, close_code>>
    BY <1>2 DEF ConnectionLost, Shutdown, HandleError, WebsocketClose, FreeConnection, Phases
  <2>2. TypeOK'
    BY <1>1, <2>1, NothingTyped DEF TypeOK
  <2>3. Flags'
    BY <1>1, <2>1 DEF Flags, Fragmentation, OfKnownType
  <2>4. Phases' /\ PeerOwnsConnection' /\ FaultsExplained'
    BY <1>1, <2>1, <2>2 DEF Phases, PeerOwnsConnection, FaultsExplained, InRequest, InFrames, InFrame
  <2> QED BY <2>2, <2>3, <2>4
<1>3. CASE SendMessage
  <2>1. TypeOK' /\ Flags'
    BY <1>1, <1>3, NothingTyped DEF SendMessage, TypeOK, Flags, Fragmentation, OfKnownType
  <2>2. Phases' /\ PeerOwnsConnection' /\ FaultsExplained'
    BY <1>1, <1>3, <2>1 DEF SendMessage, Phases, PeerOwnsConnection, FaultsExplained, InRequest,
                            InFrames, InFrame
  <2> QED BY <2>1, <2>2
<1>4. CASE Shutdown /\ connection # "open"
  <2>1. /\ fault' = "freed_connection" /\ reading' = "none" /\ connection = "freed" /\ peer = "listed"
        /\ UNCHANGED <<connection, peer, sent, close_code>>
    BY <1>4 DEF Shutdown, Faulty, TypeOK
  <2>2. TypeOK' /\ Flags'
    BY <1>1, <2>1, NothingTyped DEF TypeOK, Flags, Fragmentation, OfKnownType
  <2>3. Phases' /\ PeerOwnsConnection' /\ FaultsExplained'
    BY <1>1, <2>1, <2>2 DEF Phases, PeerOwnsConnection, FaultsExplained, InRequest, InFrames, InFrame
  <2> QED BY <2>2, <2>3
<1> QED BY <1>2, <1>3, <1>4

-----------------------------------------------------------------------------
\* More of the frame is waited for.
Waits(fl) ==
    /\ reading' \in {"first_length", "length16", "length64", "mask", "payload"}
    /\ ws_flags' = fl /\ event' = Nothing
    /\ UNCHANGED <<connection, peer, gathered, sent, close_code, fault>>

\* A step that reads a part of a frame, whose flags are fl when it is done.
Reads(fl) ==
    /\ fl \in FlagSet /\ Fragmentation(fl) /\ OfKnownType(fl) /\ Begun(fl) = Begun(ws_flags)
    /\ \/ Waits(fl)
       \/ /\ InFrame /\ fl = [ws_flags EXCEPT !.mask = fl.mask]
          /\ Outcome(fl, length')

LEMMA PayloadStep ==
  ASSUME Serving, InFrame, NEW fl \in FlagSet, Fragmentation(fl), OfKnownType(fl),
         fl = [ws_flags EXCEPT !.mask = fl.mask], Begun(fl) = Begun(ws_flags),
         NEW len \in Nat, length' = len, PayloadOrFrame(fl, len) \/ GetPayload(fl, len)
  PROVE  Reads(fl)
<1>1. CASE len > 0 /\ Await("payload", fl)
  BY <1>1 DEF Reads, Waits, Await
<1>2. CASE GetPayload(fl, len)
  BY <1>2, FrameOutcome DEF Reads
<1>3. ~(len > 0) => len = 0
  OBVIOUS
<1> QED BY <1>1, <1>2, <1>3 DEF PayloadOrFrame

LEMMA FrameReads ==
  ASSUME WebsocketInv, FrameHeader \/ FirstLength \/ LongLength \/ Mask \/ Payload
  PROVE  /\ InFrames /\ UNCHANGED handshakeVars /\ length' \in Lengths \cup {0}
         /\ \E fl : Reads(fl)
<1>1. InFrames
  BY DEF FrameHeader, FirstLength, LongLength, Mask, Payload, InFrames, InFrame
<1>2. reading # "none"
  BY <1>1 DEF InFrames, InFrame
<1>3. /\ ws_flags \in FlagSet /\ Fragmentation(ws_flags) /\ OfKnownType(ws_flags)
      /\ length \in Lengths \cup {0} /\ Lengths \subseteq Nat
  BY <1>2, ConstantsAssumption DEF WebsocketInv, TypeOK, Flags, FlagSet, ConstantsAssumption
<1>4. Serving
  BY <1>1, <1>2 DEF Serving, WebsocketInv, TypeOK, Flags, Phases
<1>5. ws_flags = [ws_flags EXCEPT !.mask = ws_flags.mask]
  BY <1>3 DEF FlagSet
<1>6. CASE FrameHeader
  <2>1. PICK fin \in BOOLEAN, rsv \in {0, 1, CompressedBit}, opcode \in Opcodes :
          Await("first_length", [ws_flags EXCEPT !.fin = fin, !.rsv = rsv, !.opcode = opcode])
    BY <1>6 DEF FrameHeader
  <2> DEFINE fl == [ws_flags EXCEPT !.fin = fin, !.rsv = rsv, !.opcode = opcode]
  <2>2. opcode \in 0 .. 15 /\ rsv \in 0 .. 7
    BY ConstantsAssumption DEF ConstantsAssumption, CompressedBit
  <2> DEFINE f1 == [ws_flags EXCEPT !.fin = fin]
             f2 == [f1 EXCEPT !.rsv = rsv]
  <2>3. f1 \in FlagSet /\ f2 \in FlagSet
    <3>1. f1 \in FlagSet
      BY <1>3 DEF FlagSet
    <3> QED BY <2>2, <3>1 DEF FlagSet
  <2>4. fl = [f2 EXCEPT !.opcode = opcode]
    OBVIOUS
  <2> HIDE DEF f2
  <2>8. [f2 EXCEPT !.opcode = opcode] \in FlagSet
    BY <2>2, <2>3 DEF FlagSet
  <2> USE DEF f2
  <2>5. fl \in FlagSet /\ Fragmentation(fl) /\ OfKnownType(fl) /\ Begun(fl) = Begun(ws_flags)
    BY <1>3, <2>4, <2>8 DEF FlagSet, Fragmentation, OfKnownType, Begun
  <2>6. Waits(fl)
    BY <2>1 DEF Waits, Await
  <2>7. Reads(fl)
    BY <2>5, <2>6 DEF Reads
  <2> QED BY <1>1, <1>3, <1>6, <2>7 DEF FrameHeader
<1>7. CASE FirstLength
  <2>1. PICK mask \in BOOLEAN :
          LET fl == [ws_flags EXCEPT !.mask = mask]
          IN  \/ \E len \in {x \in Lengths : x < 126} : ReadMaskOrPayload(fl, len)
              \/ Await("length16", fl) /\ length' = length
              \/ Await("length64", fl) /\ length' = length
    BY <1>7 DEF FirstLength
  <2> DEFINE fl == [ws_flags EXCEPT !.mask = mask]
  <2>2. /\ fl \in FlagSet /\ fl.mask = mask /\ Fragmentation(fl) /\ OfKnownType(fl)
        /\ Begun(fl) = Begun(ws_flags)
    BY <1>3 DEF FlagSet, Fragmentation, OfKnownType, Begun
  <2>3. fl = [ws_flags EXCEPT !.mask = fl.mask] /\ InFrame
    BY <1>7, <2>2 DEF FirstLength, InFrame
  <2> HIDE DEF fl
  <2>4. CASE \E len \in {x \in Lengths : x < 126} : ReadMaskOrPayload(fl, len)
    <3>1. PICK len \in Lengths : length' = len /\ (Await("mask", fl) \/ PayloadOrFrame(fl, len))
      BY <2>4 DEF ReadMaskOrPayload
    <3>2. CASE Await("mask", fl)
      BY <1>1, <1>7, <2>2, <3>1, <3>2 DEF FirstLength, Reads, Waits, Await
    <3>3. CASE PayloadOrFrame(fl, len)
      <4>1. Reads(fl)
        BY <1>3, <1>4, <2>2, <2>3, <3>1, <3>3, PayloadStep
      <4> QED BY <1>1, <1>7, <3>1, <4>1 DEF FirstLength
    <3> QED BY <3>1, <3>2, <3>3
  <2>5. CASE (Await("length16", fl) \/ Await("length64", fl)) /\ length' = length
    <3>1. Waits(fl)
      BY <2>5 DEF Waits, Await
    <3> QED BY <1>1, <1>3, <1>7, <2>2, <2>5, <3>1 DEF FirstLength, Reads
  <2> QED BY <2>1, <2>4, <2>5 DEF fl
<1>8. CASE LongLength
  <2>1. InFrame /\ UNCHANGED handshakeVars
    BY <1>8 DEF LongLength, InFrame
  <2>2. PICK len \in Lengths : ReadMaskOrPayload(ws_flags, len)
    BY <1>8 DEF LongLength
  <2>3. length' = len /\ (Await("mask", ws_flags) \/ PayloadOrFrame(ws_flags, len))
    BY <2>2 DEF ReadMaskOrPayload
  <2>4. CASE Await("mask", ws_flags)
    BY <1>1, <1>3, <2>1, <2>3, <2>4 DEF Reads, Waits, Await
  <2>5. CASE PayloadOrFrame(ws_flags, len)
    <3>1. Reads(ws_flags)
      BY <1>3, <1>4, <1>5, <2>1, <2>3, <2>5, PayloadStep
    <3> QED BY <1>1, <2>1, <2>3, <3>1
  <2> QED BY <2>3, <2>4, <2>5
<1>9. CASE Mask \/ Payload
  <2>1. /\ InFrame /\ UNCHANGED handshakeVars /\ length' = length
        /\ PayloadOrFrame(ws_flags, length) \/ GetPayload(ws_flags, length)
    BY <1>9 DEF Mask, Payload, InFrame
  <2>2. length \in Nat
    BY <1>3
  <2>3. Reads(ws_flags)
    BY <1>3, <1>4, <1>5, <2>1, <2>2, PayloadStep
  <2> QED BY <1>1, <1>3, <2>1, <2>3
<1> QED BY <1>6, <1>7, <1>8, <1>9

LEMMA FrameStep ==
  ASSUME WebsocketInv, UNCHANGED user,
         FrameHeader \/ FirstLength \/ LongLength \/ Mask \/ Payload
  PROVE  WebsocketInv'
<1>1. PICK fl : Reads(fl)
  BY FrameReads
<1>2. InFrames /\ UNCHANGED <<handshake, upgrade_complete, accepted>> /\ length' \in Lengths \cup {0}
  BY FrameReads DEF handshakeVars
<1>3. /\ reading # "none" /\ ~InRequest /\ upgrade_complete /\ sent \in {"upgrade", "frame"}
      /\ close_code = 0 /\ fault = "none" /\ peer = "listed" /\ connection = "open"
  BY <1>2 DEF WebsocketInv, Phases, PeerOwnsConnection, InFrames, InFrame, InRequest
<1>4. TypeOK /\ FaultsExplained /\ (accepted => user.compression)
  BY DEF WebsocketInv, Flags
<1>5. CASE Waits(fl)
  <2>1. ws_flags' \in FlagSet /\ Fragmentation(ws_flags)' /\ OfKnownType(ws_flags)'
    BY <1>1, <1>2, <1>5 DEF Reads, Waits, Fragmentation, OfKnownType
  <2>2. TypeOK'
    BY <1>2, <1>4, <1>5, <2>1, NothingTyped DEF Waits, TypeOK, FlagSet
  <2>3. Flags'
    BY <1>2, <1>4, <2>1 DEF Flags
  <2>4. Phases' /\ PeerOwnsConnection' /\ FaultsExplained'
    BY <1>2, <1>3, <1>5, <2>2 DEF Waits, Phases, PeerOwnsConnection, FaultsExplained, InRequest,
                                  InFrames, InFrame
  <2> QED BY <2>2, <2>3, <2>4 DEF WebsocketInv
<1>6. CASE Outcome(fl, length')
  <2>1. /\ ws_flags' \in FlagSet /\ Fragmentation(ws_flags)'
        /\ reading' = "header" => OfKnownType(ws_flags)'
        /\ gathered' \in BOOLEAN
    BY <1>2, <1>6 DEF Outcome, FlagsAfter, Fragmentation, OfKnownType
  <2>2. /\ event'.what \in {"nothing", "message", "frame"} /\ event'.type \in {"none", "text", "binary"}
        /\ event'.last \in BOOLEAN
    <3>1. event' = Nothing \/ Delivery(fl)
      BY <1>6 DEF Outcome, Heard
    <3>2. ASSUME Delivery(fl)
          PROVE  \E t \in {"text", "binary"}, w \in {"message", "frame"}, l \in {TRUE, FALSE} :
                    event' = [what |-> w, type |-> t, last |-> l]
      BY <3>2, Zenon DEF Delivery
    <3>3. CASE Delivery(fl)
      <4>1. PICK t \in {"text", "binary"}, w \in {"message", "frame"}, l \in {TRUE, FALSE} :
              event' = [what |-> w, type |-> t, last |-> l]
        BY <3>2, <3>3
      <4> QED BY <4>1
    <3>4. CASE event' = Nothing
      BY <3>4, NothingTyped, Zenon
    <3> QED BY <3>1, <3>3, <3>4
  <2>3. CASE Continues
    <3>1. TypeOK'
      BY <1>2, <1>4, <2>1, <2>2, <2>3 DEF Continues, TypeOK, FlagSet
    <3>2. Flags'
      BY <1>2, <1>4, <2>1, <2>3 DEF Flags, Continues
    <3>3. Phases' /\ PeerOwnsConnection' /\ FaultsExplained'
      BY <1>2, <1>3, <2>3, <3>1 DEF Continues, Phases, PeerOwnsConnection, FaultsExplained,
                                    InRequest, InFrames, InFrame
    <3> QED BY <3>1, <3>2, <3>3 DEF WebsocketInv
  <2>4. CASE Finishes
    <3>1. TypeOK'
      BY <1>2, <1>4, <2>1, <2>2, <2>4 DEF Finishes, TypeOK, FlagSet
    <3>2. Flags'
      BY <1>2, <1>4, <2>1, <2>4 DEF Flags, Finishes
    <3>3. Phases' /\ PeerOwnsConnection' /\ FaultsExplained'
      BY <1>2, <1>3, <2>4, <3>1 DEF Finishes, Phases, PeerOwnsConnection, FaultsExplained,
                                    InRequest, InFrames, InFrame
    <3> QED BY <3>1, <3>2, <3>3 DEF WebsocketInv
  <2>5. CASE Fails(length')
    <3>1. TypeOK'
      BY <1>2, <1>4, <2>1, <2>2, <2>5 DEF Fails, TypeOK, FlagSet
    <3>2. Flags'
      BY <1>2, <1>4, <2>1, <2>5 DEF Flags, Fails
    <3>3. Phases' /\ PeerOwnsConnection'
      BY <1>2, <1>3, <2>5, <3>1 DEF Fails, Phases, PeerOwnsConnection, InRequest, InFrames, InFrame
    <3>4. FaultsExplained'
      BY <1>2, <1>3, <2>5 DEF Fails, FaultsExplained, Callback, Type
    <3> QED BY <3>1, <3>2, <3>3, <3>4 DEF WebsocketInv
  <2> QED BY <1>6, <2>3, <2>4, <2>5 DEF Outcome
<1> QED BY <1>1, <1>5, <1>6 DEF Reads

LEMMA WebsocketStep == WebsocketInv /\ [Next]_vars => WebsocketInv'
<1> SUFFICES ASSUME WebsocketInv, [Next]_vars PROVE WebsocketInv'
  OBVIOUS
<1>1. CASE UNCHANGED vars
  <2>1. TypeOK' /\ Flags' /\ Phases'
    BY <1>1 DEF vars, WebsocketInv, TypeOK, Flags, Phases, Fragmentation, OfKnownType, InRequest,
                InFrames, InFrame
  <2>2. PeerOwnsConnection' /\ FaultsExplained'
    BY <1>1, <2>1 DEF vars, WebsocketInv, PeerOwnsConnection, FaultsExplained
  <2> QED BY <2>1, <2>2 DEF WebsocketInv
<1>2. CASE Next
  BY <1>2, RequestStep, FrameStep, WorldStep DEF Next, Step
<1> QED BY <1>1, <1>2

-----------------------------------------------------------------------------
\* Steps in which no frame is read deliver nothing.
LEMMA OtherSteps ==
  ASSUME WebsocketInv,
         \/ StartLine \/ OrphanLine \/ RefusedHeader \/ UpgradeHeader \/ ProtocolHeader
         \/ ExtensionHeader \/ HeadersComplete \/ ConnectionLost \/ SendMessage \/ Shutdown
  PROVE  /\ event' = Nothing /\ UNCHANGED ws_flags
         /\ close_code' # close_code => close_code' = GOING_AWAY
         /\ InFrame => reading' # "header"
         /\ reading = "none" => reading' = "none"
         /\ upgrade_complete' = upgrade_complete \/ (~upgrade_complete /\ upgrade_complete')
         /\ sent' # sent =>
               <<sent, sent'>> \in {<<"nothing", "http_error">>, <<"nothing", "upgrade">>,
                                   <<"upgrade", "frame">>, <<"upgrade", "close">>,
                                   <<"frame", "close">>}
<1> USE DEF frameVars, handshakeVars
<1>1. /\ InRequest => ~upgrade_complete /\ sent = "nothing"
      /\ InFrames => upgrade_complete /\ sent \in {"upgrade", "frame"}
      /\ reading # "none" => InRequest \/ InFrames
      /\ reading # "none" => close_code = 0
  BY DEF WebsocketInv, Phases, TypeOK, InRequest, InFrames, InFrame
<1>2. CASE StartLine \/ OrphanLine \/ RefusedHeader
  BY <1>1, <1>2 DEF StartLine, OrphanLine, RefusedHeader, PeerCreated, FreeConnection, Faulty,
                    HandleError, WebsocketClose, InRequest, InFrame
<1>3. CASE UpgradeHeader \/ ProtocolHeader \/ ExtensionHeader
  BY <1>3 DEF UpgradeHeader, ProtocolHeader, ExtensionHeader, HeaderLine, InFrame
<1>4. CASE HeadersComplete
  BY <1>1, <1>4 DEF HeadersComplete, HandleError, WebsocketClose, InRequest, InFrame
<1>5. CASE ConnectionLost
  BY <1>1, <1>5 DEF ConnectionLost, HandleError, WebsocketClose, FreeConnection, InFrame
<1>6. CASE SendMessage
  BY <1>1, <1>6 DEF SendMessage, InFrame
<1>7. CASE Shutdown
  <2>1. connection = "open" => reading # "none"
    BY <1>7 DEF Shutdown, WebsocketInv, Phases
  <2> QED BY <1>1, <1>7, <2>1 DEF Shutdown, HandleError, WebsocketClose, Faulty, InFrame
<1> QED BY <1>2, <1>3, <1>4, <1>5, <1>6, <1>7

\* The invariant of a connection: what its flags, its peer and what it has
\* sent may be at each callback that is installed.
THEOREM WebsocketInvariant == Spec => []WebsocketInv
<1> QED BY WebsocketInit, WebsocketStep, PTL DEF Spec

\* A peer in the peer list has its connection, but for one whose start line
\* was refused after the URL (websocket_init_peer, read_start_line).
THEOREM PeersOwnConnections == Spec => []PeerOwnsConnection
<1>1. WebsocketInv => PeerOwnsConnection
  BY DEF WebsocketInv
<1> QED BY <1>1, WebsocketInvariant, PTL

\* Each fault of a connection has the cause FaultsExplained names
\* (ws_handle_frame, text_frame_received_comp, read_start_line).
THEOREM FaultsHaveReasons == Spec => []FaultsExplained
<1>1. WebsocketInv => FaultsExplained
  BY DEF WebsocketInv
<1> QED BY <1>1, WebsocketInvariant, PTL

\* What the client is sent comes in order (send_http_error_response,
\* send_upgrade_response, send_frame, websocket_close).
THEOREM SendsInOrder == Spec => SentInOrder
<1> DEFINE Order ==
      sent' # sent =>
          <<sent, sent'>> \in {<<"nothing", "http_error">>, <<"nothing", "upgrade">>,
                              <<"upgrade", "frame">>, <<"upgrade", "close">>,
                              <<"frame", "close">>}
<1>1. WebsocketInv /\ [Next]_vars => [Order]_vars
  <2> SUFFICES ASSUME WebsocketInv, Next PROVE Order
    BY DEF vars
  <2>1. CASE FrameHeader \/ FirstLength \/ LongLength \/ Mask \/ Payload
    <3>1. PICK fl : Reads(fl)
      BY <2>1, FrameReads
    <3>2. sent \in {"upgrade", "frame"}
      BY <2>1, FrameReads DEF WebsocketInv, Phases
    <3> QED BY <3>1, <3>2 DEF Reads, Waits, Outcome, Continues, Finishes, Fails
  <2> QED BY <2>1, OtherSteps DEF Next, Step
<1> QED BY <1>1, WebsocketInvariant, PTL DEF Spec, SentInOrder

\* Frames are refused and let pass as the protocol wants it, whatever frames
\* came before, but for a stray bit (ws_get_payload, ws_handle_frame).
THEOREM FramesAreJudgedRight == Spec => FramesJudgedRight
<1> DEFINE refused == close_code' = PROTOCOL_ERROR /\ close_code # PROTOCOL_ERROR
           passed == InFrame /\ (reading' = "header" \/ event' # Nothing)
           mask == ws_flags'.mask
           Right ==
             /\ refused => \/ ~ Legal(ws_flags, mask, length')
                           \/ ws_flags.opcode = CLOSE /\ length' >= 2
             /\ passed => \/ Legal(ws_flags, mask, length')
                          \/ StrayCompressionBit(ws_flags, mask, length')
<1>1. WebsocketInv /\ [Next]_vars => [Right]_vars
  <2> SUFFICES ASSUME WebsocketInv, Next PROVE Right
    OBVIOUS
  <2>1. CASE FrameHeader \/ FirstLength \/ LongLength \/ Mask \/ Payload
    <3>1. PICK fl : Reads(fl)
      BY <2>1, FrameReads
    <3>2. CASE Waits(fl)
      BY <3>2 DEF Waits
    <3>3. CASE fl = [ws_flags EXCEPT !.mask = fl.mask] /\ Outcome(fl, length')
      <4>1. ws_flags \in FlagSet /\ fl \in FlagSet /\ mask = fl.mask
        BY <3>1, <3>3 DEF Reads, Outcome, FlagsAfter, WebsocketInv, TypeOK, FlagSet
      <4>2. /\ fl.fin = ws_flags.fin /\ fl.rsv = ws_flags.rsv /\ fl.opcode = ws_flags.opcode
            /\ fl.is_fragmented = ws_flags.is_fragmented
        BY <3>3, <4>1 DEF FlagSet
      <4>3. Legal(fl, fl.mask, length') <=> Legal(ws_flags, mask, length')
        BY <4>1, <4>2 DEF Legal
      <4>4. StrayCompressionBit(fl, fl.mask, length')
              => StrayCompressionBit(ws_flags, mask, length')
        BY <4>1, <4>2 DEF StrayCompressionBit, Legal, FlagSet
      <4>5. Judged(fl, length')
        BY <3>3 DEF Outcome
      <4> HIDE DEF mask
      <4> QED BY <4>2, <4>3, <4>4, <4>5 DEF Judged, Refusable, Passable
    <3> QED BY <3>1, <3>2, <3>3 DEF Reads
  <2>2. CASE ~(FrameHeader \/ FirstLength \/ LongLength \/ Mask \/ Payload)
    <3>1. GOING_AWAY # PROTOCOL_ERROR
      BY DEF GOING_AWAY, PROTOCOL_ERROR
    <3>2. ~refused /\ ~passed
      BY <2>2, <3>1, OtherSteps DEF Next, Step
    <3> QED BY <3>2
  <2> QED BY <2>1, <2>2
<1> QED BY <1>1, WebsocketInvariant, PTL DEF Spec, FramesJudgedRight

\* The user of the websocket gets what MessageStream allows: each step is one
\* of its steps (ws_handle_frame and the callbacks it calls).
THEOREM WebsocketImplementsStream == Spec => ImplementsStream
<1>1. Init => Stream!Init
  <2> SUFFICES ASSUME Init PROVE Stream!Init
    OBVIOUS
  <2>1. user.compression \in BOOLEAN
    BY ConstantsAssumption DEF Init, ConstantsAssumption
  <2> QED BY <2>1 DEF Init, Stream!Init, Stream!Nothing, Nothing
<1>2. WebsocketInv /\ [Next]_vars => [Stream!Next]_(Stream!vars)
  <2> DEFINE phase == IF reading = "none" THEN "closed"
                      ELSE IF upgrade_complete THEN "open" ELSE "handshake"
             message == IF reading # "none" /\ ws_flags.is_fragmented /\ ~ ws_flags.is_frag_compressed
                        THEN Type(ws_flags.frag_opcode) ELSE "none"
  <2> SUFFICES ASSUME WebsocketInv, [Next]_vars PROVE [Stream!Next]_(Stream!vars)
    OBVIOUS
  <2>0. Stream!Nothing = Nothing
    BY DEF Stream!Nothing, Nothing
  <2>1. CASE UNCHANGED vars
    BY <2>1 DEF vars, Stream!vars
  <2>2. CASE Next
    <3>1. UNCHANGED user
      BY <2>2 DEF Next
    <3>2. CASE FrameHeader \/ FirstLength \/ LongLength \/ Mask \/ Payload
      <4>1. PICK fl : Reads(fl)
        BY <3>2, FrameReads
      <4>2. reading # "none" /\ upgrade_complete /\ UNCHANGED upgrade_complete
        BY <3>2, FrameReads DEF WebsocketInv, Phases, InFrames, InFrame, handshakeVars
      <4>3. /\ phase = "open" /\ phase' = (IF reading' = "none" THEN "closed" ELSE "open")
            /\ message = Begun(fl)
            /\ message' = IF reading' = "none" THEN "none" ELSE Begun(ws_flags')
        BY <4>1, <4>2 DEF Reads, Begun
      <4> HIDE DEF phase, message
      <4>4. CASE event' = Nothing /\ (reading' = "none" \/ Begun(ws_flags') = Begun(fl))
        <5>1. phase' \in {phase, "closed"} /\ message' = IF phase' = "closed" THEN "none" ELSE message
          BY <4>3, <4>4
        <5>2. Stream!Internal
          BY <2>0, <4>4, <5>1 DEF Stream!Internal, phase, message
        <5> QED BY <3>1, <5>2 DEF Stream!Next
      <4>5. CASE Delivery(fl)
        <5>1. \E t \in {"text", "binary"} :
                \/ /\ message = "none" /\ message' = "none"
                   /\ event' = [what |-> "message", type |-> t, last |-> TRUE]
                \/ /\ message \in {"none", t}
                   /\ message' = IF phase' = "closed" THEN "none" ELSE t
                   /\ event' = [what |-> "frame", type |-> t, last |-> FALSE]
                \/ /\ message = t \/ (message = "none" /\ user.compression)
                   /\ message' = "none"
                   /\ event' = [what |-> "frame", type |-> t, last |-> TRUE]
          BY <4>3, <4>5, Zenon DEF Delivery
        <5>2. phase = "open" /\ phase' \in {"open", "closed"}
          BY <4>3
        <5>3. Stream!Deliver
          BY <5>1, <5>2, Zenon DEF Stream!Deliver, phase, message
        <5> QED BY <3>1, <5>3 DEF Stream!Next
      <4>6. Waits(fl) => event' = Nothing /\ Begun(ws_flags') = Begun(fl)
        BY DEF Waits
      <4> QED BY <4>1, <4>4, <4>5, <4>6 DEF Reads, Outcome, Heard
    <3>3. CASE ~(FrameHeader \/ FirstLength \/ LongLength \/ Mask \/ Payload)
      <4>1. /\ event' = Nothing /\ UNCHANGED ws_flags
            /\ reading = "none" => reading' = "none"
            /\ upgrade_complete' = upgrade_complete \/ (~upgrade_complete /\ upgrade_complete')
        BY <2>2, <3>3, OtherSteps DEF Next, Step
      <4>2. CASE reading' = "none" \/ UNCHANGED upgrade_complete
        <5>1. phase' \in {phase, "closed"} /\ message' = IF phase' = "closed" THEN "none" ELSE message
          BY <4>1, <4>2
        <5>2. Stream!Internal
          BY <2>0, <4>1, <5>1, Zenon DEF Stream!Internal, phase, message
        <5> QED BY <3>1, <5>2 DEF Stream!Next
      <4>3. CASE reading' # "none" /\ ~upgrade_complete /\ upgrade_complete'
        <5>1. phase = "handshake" /\ phase' = "open" /\ message' = message
          BY <4>1, <4>3
        <5>2. Stream!Open
          BY <2>0, <4>1, <5>1, Zenon DEF Stream!Open, phase, message
        <5> QED BY <3>1, <5>2 DEF Stream!Next
      <4> QED BY <4>1, <4>2, <4>3
    <3> QED BY <3>2, <3>3
  <2> QED BY <2>1, <2>2
<1> QED BY <1>1, <1>2, WebsocketInvariant, PTL DEF Spec, ImplementsStream, Stream!Spec
=============================================================================
