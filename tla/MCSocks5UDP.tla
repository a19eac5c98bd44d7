---------------------------- MODULE MCSocks5UDP -----------------------------
(* Small instances of the UDP relay.                                        *)
EXTENDS Socks5UDP

\* A timeout that never fires.
MCNever == -1
=============================================================================
