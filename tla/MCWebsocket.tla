----------------------------- MODULE MCWebsocket ----------------------------
(***************************************************************************)
(* Websocket for TLC.                                                      *)
(***************************************************************************)
EXTENDS Websocket

\* websocket_peer.c, which offers no compression or offers it
\* (CONFIG_COMPRESSION_LEVEL), and abWebsocket_peer.c
AllUsers ==
    [callbacks : {{"text_message", "close"}}, compression : BOOLEAN]
        \cup {[callbacks |-> {"text_message", "text_frame", "binary_message", "binary_frame",
                               "close"},
              compression |-> TRUE]}
=============================================================================
