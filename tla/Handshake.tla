----------------------------- MODULE Handshake -----------------------------
(***************************************************************************)
(* The machines of MCFormats that open a websocket and look at what comes  *)
(* over it: the URL of the request, the offers of permessage-deflate, the  *)
(* accept value, the mask of a payload and the check of its text.          *)
(***************************************************************************)
EXTENDS Samples

CONSTANTS
    MaxPort,                                             \* UrlParser
    MaxBytes, MaxBefore,                                 \* Utf8Checker
    Levels, Values,                                      \* Extension
    HashBlock, WordOctets, Radix, Inputs, MaxMessage,    \* Octets
    InOctets, MaxOctets, FastWords, MaxPayload

VARIABLES
    url, is_connect, s, uf, found_at, u, result,         \* UrlParser
    checker, text, valid, verdict, hidden,               \* Utf8Checker
    extension, response, judged, offered, streams,       \* Extension
    context, message, digest, in, frame                  \* Octets

Url == INSTANCE UrlParser WITH UrlChars <- SampleUrlChars
Utf8 == INSTANCE Utf8Checker WITH Bytes <- Ends, Words <- SampleWords, Texts <- SampleTexts
Extension == INSTANCE Extension
Octets == INSTANCE Octets WITH BlockSize <- HashBlock

ASSUME HandshakeAssumption ==
    /\ Utf8!BytesAssumption /\ Extension!ValuesAssumption /\ Octets!ConstantsAssumption
=============================================================================
