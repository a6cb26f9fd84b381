------------------------------- MODULE Front -------------------------------
(***************************************************************************)
(* What a client of the host sees: the processes of Startup answering for  *)
(* the names of Names.                                                     *)
(***************************************************************************)
EXTENDS Startup, Names

Listening(p) == {l \in Listener : dns[l] = p}

(***************************************************************************)
(* What a daemon that serves is worth to whoever typed a hostname.  It has *)
(* all four DNS listeners, not some of them (dnsd.go:36-41); what was typed *)
(* became one label, the same to the CLI that printed it and the daemon    *)
(* that stored it (route.go:90-93, daemon.go:145); and that label resolves *)
(* to the alias, is covered by the wildcard certificate and is served      *)
(* under its own route only.                                               *)
(***************************************************************************)
ServesHosts ==
  \A p \in Proc :
    Reached(p, "serving") =>
      /\ Listening(p) = (1..4) \X {proc[p].cfg.dnsPort}
      /\ NotOneLabel = {}
      /\ Unresolved = {}

(***************************************************************************)
(* "Anything under <domain>", and nothing else, is answered by any         *)
(* listener that is bound, also by one of a process still starting or      *)
(* already draining (dnsd.go:3-5).                                         *)
(***************************************************************************)
AnswersZoneOnly ==
  \A p \in Proc : Listening(p) # {} => AnsweredWrongly = {}

=============================================================================
