---------------------------- MODULE MCSshTunnel ----------------------------
(***************************************************************************)
(* SshTunnel for TLC: a base configuration and the ones that differ from   *)
(* it in one field; two Unix sockets, so that one replaces the other.      *)
(***************************************************************************)
EXTENDS SshTunnel

Base == [host |-> "bastion", port |-> None, username |-> "me", key |-> "plain",
         passphrase |-> "", fingerprint |-> ""]
Configs ==
  {Base} \cup {[Base EXCEPT !.port = p] : p \in {0, 22, 2222, 65535, 65536, 65558}}
    \cup {[Base EXCEPT !.fingerprint = f] : f \in {"host", "other"}}
    \cup {[Base EXCEPT !.key = k] : k \in {"", "garbage", "encrypted"}}
    \cup {[Base EXCEPT !.key = "encrypted", !.passphrase = p] : p \in {"right", "wrong"}}
    \cup {[Base EXCEPT !.host = ""], [Base EXCEPT !.username = ""]}
=============================================================================
