------------------------ MODULE MCWebSocketSSLClient ------------------------
(* Values of the constants of WebSocketSSLClient for TLC.                  *)
EXTENDS WebSocketSSLClient

\* Two lengths, so that a write's length can and can fail to match buffer_.
MCSizes == {1, 2}
=============================================================================
