---------------------------- MODULE Front_proofs ----------------------------
(***************************************************************************)
(* Proofs about what a client of the host sees: Startup_proofs says who    *)
(* has bound which listener, Names_proofs what is answered there.          *)
(***************************************************************************)
EXTENDS Front, Names_proofs, Startup_proofs

(***************************************************************************)
(* Held says which listeners a process has, this one that it has no        *)
(* others: none on a port of older settings, none left over from a process *)
(* that ended.  A Start would otherwise begin with listeners already bound *)
(* or, after an install with another port, keep one on the old port.       *)
(***************************************************************************)
Owned ==
  \A l \in Listener :
    dns[l] \in Proc => /\ proc[dns[l]].pc # "off"
                       /\ l[2] = proc[dns[l]].cfg.dnsPort

FrontIInv == ProcIInv /\ Owned

-----------------------------------------------------------------------------
(***************************************************************************)
(* A step that binds nothing new for usher, and leaves each process that   *)
(* still has a listener running under its settings.                        *)
(***************************************************************************)
LEMMA OwnedKept ==
  ASSUME Owned,
         \A l \in Listener :
           dns'[l] \in Proc =>
             /\ dns'[l] = dns[l]
             /\ proc[dns[l]].pc # "off" => proc'[dns[l]].pc # "off"
             /\ proc[dns[l]].pc # "off" => proc'[dns[l]].cfg = proc[dns[l]].cfg
  PROVE  Owned'
BY DEF Owned

LEMMA OwnedAdvance ==
  ASSUME ProcTypeOK, Owned, NEW p \in Proc, NEW label, label # "off",
         Advance(p, label), UNCHANGED dns
  PROVE  Owned'
<1>1. \A q \in Proc : /\ proc'[q].cfg = proc[q].cfg
                      /\ proc[q].pc # "off" => proc'[q].pc # "off"
  BY DEF Advance, ProcTypeOK
<1> QED BY <1>1, OwnedKept

LEMMA OwnedGone ==
  ASSUME ProcTypeOK, Owned, NEW ps \in SUBSET Proc, Gone(ps)
  PROVE  Owned'
<1>1. ASSUME NEW l \in Listener, dns'[l] \in Proc
      PROVE  dns'[l] = dns[l] /\ proc'[dns[l]] = proc[dns[l]]
  <2>1. dns[l] \notin ps
    BY <1>1, ProcAssumption DEF Gone
  <2> QED BY <1>1, <2>1 DEF Gone
<1> QED BY <1>1, OwnedKept

LEMMA OwnedStart ==
  ASSUME ProcTypeOK, Owned, NEW p \in Proc, Start(p) PROVE Owned'
<1>1. /\ Reached(p, "off") /\ UNCHANGED dns
      /\ \A q \in Proc : q # p => proc'[q] = proc[q]
  BY DEF Start, ProcTypeOK
<1>2. \A l \in Listener : dns[l] # p
  BY <1>1 DEF Owned, Reached
<1> QED BY <1>1, <1>2, OwnedKept

LEMMA OwnedBind ==
  ASSUME ProcIInv, Owned, NEW p \in Proc, Bind(p) PROVE Owned'
<1>1. /\ \A q \in Proc : q # p => proc'[q] = proc[q]
      /\ proc'[p].cfg = proc[p].cfg /\ proc'[p].pc # "off" /\ proc[p].pc # "off"
  BY DEF ProcIInv, ProcTypeOK, Bind, Reached
<1>2. \A l \in Listener :
        dns'[l] = IF l = NextListener(p) THEN p ELSE dns[l]
  BY DEF ProcIInv, ProcTypeOK, Bind
<1>3. NextListener(p)[2] = proc[p].cfg.dnsPort
  BY DEF NextListener
<1>4. ASSUME NEW l \in Listener, dns'[l] \in Proc
      PROVE  /\ proc'[dns'[l]].pc # "off"
             /\ l[2] = proc'[dns'[l]].cfg.dnsPort
  <2>1. CASE l = NextListener(p)
    BY <1>1, <1>2, <1>3, <2>1
  <2>2. CASE l # NextListener(p)
    <3>1. dns'[l] = dns[l]
      BY <1>2, <2>2
    <3> QED BY <1>1, <1>4, <3>1 DEF Owned
  <2> QED BY <2>1, <2>2
<1> QED BY <1>4 DEF Owned

LEMMA OwnedSignalled ==
  ASSUME ProcTypeOK, Owned, NEW p \in Proc, Signalled(p) PROVE Owned'
<1>1. CASE Reached(p, "serving")
  BY <1>1, OwnedAdvance DEF Signalled
<1>2. CASE Reached(p, "draining")
  BY <1>2, OwnedKept DEF Signalled, Reached, procVars
<1>3. CASE ~Reached(p, "serving") /\ ~Reached(p, "draining")
  <2>1. Gone({p})
    BY <1>3 DEF Signalled
  <2> QED BY <2>1, OwnedGone
<1> QED BY <1>1, <1>2, <1>3

LEMMA OwnedStep ==
  ASSUME ProcIInv, Owned, NEW p \in Proc, Step(p) PROVE Owned'
<1>0. ProcTypeOK
  BY DEF ProcIInv
<1>1. CASE NeedAlias(p)
  BY <1>0, <1>1, OwnedAdvance DEF NeedAlias
<1>2. CASE SeeAlias(p)
  BY <1>0, <1>2, OwnedAdvance DEF SeeAlias
<1>3. CASE PollExpires(p) \/ BindFails(p) \/ Drained(p)
  <2>1. Gone({p})
    BY <1>3 DEF PollExpires, BindFails, Drained
  <2> QED BY <1>0, <2>1, OwnedGone
<1>4. CASE Bind(p)
  BY <1>4, OwnedBind
<1>5. CASE Apply(p)
  BY <1>0, <1>5, OwnedAdvance DEF Apply
<1>6. CASE Listen(p)
  BY <1>0, <1>6, OwnedAdvance DEF Listen
<1>7. CASE Notify(p)
  BY <1>0, <1>7, OwnedAdvance DEF Notify
<1> QED BY <1>1, <1>2, <1>3, <1>4, <1>5, <1>6, <1>7 DEF Step

LEMMA OwnedForeign ==
  ASSUME ProcTypeOK, Owned, OtherBinds \/ OtherLeaves PROVE Owned'
<1>1. UNCHANGED proc
  BY DEF OtherBinds, OtherLeaves
<1>2. \A l \in Listener : dns'[l] \in Proc => dns'[l] = dns[l]
  BY ProcAssumption DEF OtherBinds, OtherLeaves, ProcTypeOK
<1> QED BY <1>1, <1>2, OwnedKept

LEMMA OwnedPreserved ==
  ASSUME ProcIInv, Owned, [Next]_vars PROVE Owned'
<1>0. ProcTypeOK
  BY DEF ProcIInv
<1>1. CASE UNCHANGED <<proc, dns>>
  BY <1>1, OwnedKept
<1>2. ASSUME NEW p \in Proc, Start(p) \/ Step(p) PROVE Owned'
  BY <1>0, <1>2, OwnedStart, OwnedStep
<1>3. ASSUME NEW p \in Proc, Crash(p) PROVE Owned'
  <2>1. Gone({p})
    BY <1>3 DEF Crash
  <2> QED BY <1>0, <2>1, OwnedGone
<1>4. ASSUME NEW p \in Proc, Interrupt(p) PROVE Owned'
  BY <1>0, <1>4, OwnedSignalled DEF Interrupt
<1>5. CASE Unloads
  BY <1>0, <1>1, <1>5, OwnedSignalled DEF Unloads, Proc, procVars
<1>6. CASE PowerCycle
  BY <1>6, ProcAssumption DEF PowerCycle, Owned
<1>7. CASE OtherBinds \/ OtherLeaves
  BY <1>0, <1>7, OwnedForeign
<1> QED BY <1>1, <1>2, <1>3, <1>4, <1>5, <1>6, <1>7
        DEF Next, Commands, Admin, Purge, Kernel, vars, procVars

LEMMA FrontInvariant == Spec => []FrontIInv
<1>1. Init => Owned
  BY ProcAssumption DEF Init, Owned
<1>2. ProcIInv /\ Owned /\ [Next]_vars => Owned'
  BY OwnedPreserved
<1> QED BY <1>1, <1>2, ProcInvariant, PTL DEF Spec, FrontIInv

-----------------------------------------------------------------------------
(***************************************************************************)
(* A process that serves has its four listeners and no other.              *)
(***************************************************************************)
LEMMA ListensExactly ==
  ASSUME FrontIInv, NEW p \in Proc, Reached(p, "serving")
  PROVE  Listening(p) = (1..4) \X {proc[p].cfg.dnsPort}
<1> DEFINE port == proc[p].cfg.dnsPort
<1>0. ProcIInv /\ ProcTypeOK /\ Owned
  BY DEF FrontIInv, ProcIInv
<1>1. ASSUME NEW l \in (1..4) \X {port} PROVE l \in Listening(p)
  <2>1. l[1] \in 1..4 /\ l = <<l[1], port>>
    BY <1>1
  <2>2. Has(p, l[1])
    BY <1>0, <2>1 DEF ProcIInv, Held, Reached, Started
  <2> QED BY <1>0, <2>1, <2>2, ListenerOf DEF Has, Listening
<1>2. ASSUME NEW l \in Listening(p) PROVE l \in (1..4) \X {port}
  <2>1. l \in Listener /\ dns[l] = p
    BY <1>2 DEF Listening
  <2>2. l[2] = port
    BY <1>0, <2>1 DEF Owned
  <2> QED BY <2>1, <2>2 DEF Listener
<1> QED BY <1>1, <1>2

(***************************************************************************)
(* A daemon that serves is of use to whoever typed a hostname: it listens  *)
(* on all four listeners and no other (dnsd.go:36-56), the hostname became *)
(* one label on both sides of the API (route.go:90-93, daemon.go:145), and *)
(* that label resolves, is covered and is served under its own route.      *)
(***************************************************************************)
THEOREM HostsServed == Spec => []ServesHosts
<1>1. FrontIInv => ServesHosts
  BY ListensExactly, NoneNotOneLabel, NoneUnresolved DEF ServesHosts
<1> QED BY <1>1, FrontInvariant, PTL

(***************************************************************************)
(* Whatever is bound, also by a process that starts or drains, answers for *)
(* the domain and the names under it and for nothing else (dnsd.go:3-5).   *)
(***************************************************************************)
THEOREM ZoneOnlyAnswered == Spec => []AnswersZoneOnly
<1>1. AnswersZoneOnly
  BY NoneAnsweredWrongly DEF AnswersZoneOnly
<1> QED BY <1>1, PTL

=============================================================================
