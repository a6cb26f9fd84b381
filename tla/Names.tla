------------------------------- MODULE Names -------------------------------
(***************************************************************************)
(* The names of usher: the hostname a user types, flattened to one label   *)
(* (route.Sanitize, by the CLI and again by the daemon); the zone the DNS  *)
(* server answers for (dnsd); the names the Caddyfile serves (proxy).      *)
(*                                                                         *)
(* A name is a sequence of characters: "a" stands for the letters and      *)
(* digits, "A" for capitals, "_" for whatever a label cannot have.         *)
(***************************************************************************)
EXTENDS Naturals, Sequences, SequencesExt

CONSTANTS
  Domain,    \* the domain of the configuration
  MaxLabel,  \* 40 in the code
  MaxInput   \* bound on the names checked

Char == {"a", "A", "-", ".", "_"}

ASSUME DomainAssumption ==
  /\ Domain \in Seq({"a", "A", "-", "."}) /\ Domain # <<>>
  /\ Domain[1] # "." /\ Domain[Len(Domain)] # "."
ASSUME LabelAssumption == MaxLabel \in Nat \ {0} /\ MaxInput \in Nat

Lower(s) == [i \in DOMAIN s |-> IF s[i] = "A" THEN "a" ELSE s[i]]

-----------------------------------------------------------------------------
(***************************************************************************)
(* Sanitize.                                                               *)
(***************************************************************************)
LabelChar(c) == c \in {"a", "-"}

DashRuns(s) ==
  LET upTo[n \in 0..Len(s)] ==
        IF n = 0 THEN <<>>
        ELSE LET t == upTo[n - 1]
             IN  IF s[n] = "-" /\ t # <<>> /\ Last(t) = "-" THEN t ELSE Append(t, s[n])
  IN  upTo[Len(s)]

Trim(s) ==
  LET kept == {i \in DOMAIN s : s[i] # "-"}
  IN  IF kept = {} THEN <<>> ELSE SubSeq(s, Min(kept), Max(kept))

Cut(t) == SubSeq(t, 1, MaxLabel)
CutOnly(t) == IF Len(t) > MaxLabel THEN Cut(t) ELSE t
CutAndTrim(t) == IF Len(t) > MaxLabel THEN Trim(Cut(t)) ELSE t

Sanitize(s) ==
  LET low == Lower(s)
      dashed == [i \in DOMAIN low |-> IF LabelChar(low[i]) THEN low[i] ELSE "-"]
  IN  CutAndTrim(Trim(DashRuns(dashed)))

-----------------------------------------------------------------------------
(***************************************************************************)
(* The DNS server.                                                         *)
(***************************************************************************)
Fqdn(s) == IF s # <<>> /\ Last(s) = "." THEN s ELSE Append(s, ".")

Zone == Fqdn(Lower(Domain))

OwnsSuffix(name) == IsSuffix(Zone, Lower(Fqdn(name)))

Owns(name) ==
  LET n == Lower(Fqdn(name)) IN n = Zone \/ IsSuffix(<<".">> \o Zone, n)

(***************************************************************************)
(* Anything but one ordinary question for a name of the zone is refused;   *)
(* only an A or ANY question gets the alias, the others an empty answer.   *)
(***************************************************************************)
Reply(q) ==
  IF ~q.query \/ Len(q.names) # 1 THEN "refused"
  ELSE IF ~Owns(q.names[1]) THEN "refused"
  ELSE IF q.type \in {"A", "ANY"} THEN "alias"
  ELSE "empty"

-----------------------------------------------------------------------------
(***************************************************************************)
(* The Caddyfile: one site for the wildcard, a handle for each host in     *)
(* turn, and a last one that answers 404.  Caddy compares names without    *)
(* regard to case, and its wildcard stands for one label.                  *)
(***************************************************************************)
Under(host) == host \o <<".">> \o Domain

Labels(s) ==
  LET upTo[n \in 0..Len(s)] ==
        IF n = 0 THEN << <<>> >>
        ELSE LET t == upTo[n - 1]
             IN  IF s[n] = "." THEN Append(t, <<>>)
                 ELSE [t EXCEPT ![Len(t)] = Append(@, s[n])]
  IN  upTo[Len(s)]

InSite(name) ==
  LET ls == Labels(Lower(name))
  IN  ls # <<>> /\ Head(ls) # <<>> /\ Tail(ls) = Labels(Lower(Domain))

Served(hosts, name) ==
  IF ~InSite(name) THEN {} ELSE {h \in hosts : Lower(Under(h)) = Lower(name)}

-----------------------------------------------------------------------------
Inputs == UNION {[1..n -> Char] : n \in 0..MaxInput}
HostNames == {Sanitize(s) : s \in Inputs} \ {<<>>}

(***************************************************************************)
(* What Sanitize computes, without its passes.  Its letters are the first  *)
(* letters of the input, and a dash stands between two of them exactly     *)
(* where the input has something else.                                     *)
(***************************************************************************)
LetterAt(s) ==
  LET upTo[n \in 0..Len(s)] ==
        IF n = 0 THEN <<>>
        ELSE LET t == upTo[n - 1]
             IN  IF Lower(s)[n] = "a" THEN Append(t, n) ELSE t
  IN  upTo[Len(s)]

Flattens(s, t) ==
  LET from == LetterAt(s)
      to == LetterAt(t)
  IN  /\ Len(to) <= Len(from)
      /\ \A i \in 2..Len(to) :
           to[i] - to[i - 1] = IF from[i] = from[i - 1] + 1 THEN 1 ELSE 2
      /\ t # <<>> => to[1] = 1 /\ to[Len(to)] = Len(t)
      /\ Len(t) <= MaxLabel
      /\ Len(to) < Len(from) =>
           Len(t) + (IF from[Len(to) + 1] = from[Len(to)] + 1 THEN 1 ELSE 2) > MaxLabel

(***************************************************************************)
(* The inputs that do not become one DNS label or nothing, or one that the *)
(* daemon's own Sanitize does not leave alone: none, see module Front.     *)
(***************************************************************************)
NotOneLabel ==
  {s \in Inputs :
     LET t == Sanitize(s)
     IN  ~ /\ \A i \in DOMAIN t : t[i] \in {"a", "-"}
           /\ Flattens(s, t)
           /\ Sanitize(t) = t}

(***************************************************************************)
(* The names for which the DNS server does not decide by whole labels      *)
(* whether they are the domain or under it: none.                          *)
(***************************************************************************)
Asked ==
  {s \o tail : s \in Inputs, tail \in {<<>>, Domain, <<".">> \o Domain}}

AnsweredWrongly ==
  {name \in Asked :
     /\ name # <<>> /\ Last(name) # "."
     /\ (Reply([query |-> TRUE, names |-> <<name>>, type |-> "A"]) = "alias")
          # IsSuffix(Labels(Lower(Domain)), Labels(Lower(name)))}

(***************************************************************************)
(* The hostnames that DNS does not lead to the alias, or answers with an   *)
(* error when asked for AAAA; that the wildcard site, and so its           *)
(* certificate, does not cover; or whose requests more than one handle, or *)
(* none, takes: none.                                                      *)
(***************************************************************************)
Unresolved ==
  {h \in HostNames :
     ~ /\ \A name \in {Under(h), Fqdn(Under(h))} :
            /\ Reply([query |-> TRUE, names |-> <<name>>, type |-> "A"]) = "alias"
            /\ Reply([query |-> TRUE, names |-> <<name>>, type |-> "AAAA"]) = "empty"
       /\ InSite(Under(h))
       /\ Served(HostNames, Under(h)) = {h}}

=============================================================================
