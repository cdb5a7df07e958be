--------------------------- MODULE LegacyTransfer ---------------------------
(***************************************************************************)
(* The earlier example client's transferOwnership and transferOwnership2   *)
(* (src/unnamed/part_004, lines 170-288).  It walks the RV directives of   *)
(* the device credential in order; for each it checks the protocol is      *)
(* HTTP, decodes the DNS, IP and port instructions, runs TO1 at the DNS    *)
(* name and then at the IP address ("Try DNS then IP"), and runs TO2 on    *)
(* each TO2 address TO1 returned, returning the first new credential.      *)
(*                                                                         *)
(* TO1 and TO2 are not under src/: each call fails, or succeeds with a     *)
(* result chosen by the environment.  Host names, ports and URLs are left  *)
(* out: a port that fails to decode becomes 80 and no property tells       *)
(* ports apart.                                                            *)
(***************************************************************************)
EXTENDS Naturals, Sequences, SequencesExt, FiniteSets

CONSTANTS
  DirChoices,  \* possible RV directive lists of the credential
  MaxAddrs,    \* most TO2 addresses a To1d carries
  RvOnly       \* the -rv-only flag

\* An RV directive: its protocol instruction ("none": absent, "bad": not a
\* uint8), and its DNS and IP instructions ("none": absent, "bad": does not
\* decode).
Directives == [prot : {"http", "https", "none", "bad"},
               dns : {"ok", "bad", "none"}, ip : {"ok", "bad", "none"}]
ASSUME DirChoices \subseteq Seq(Directives)
ASSUME MaxAddrs \in Nat /\ RvOnly \in BOOLEAN

VARIABLES
  dirs,      \* cred.RvInfo
  d,         \* the directive the loop is at
  stage,     \* "parse", "dns", "ip", "check", "to2" or "ret"
  addrs,     \* number of TO2 addresses TO1 returned for directive d
  k,         \* the TO2 address tried next
  result     \* "none", "cred" (a new credential returned) or "nil"

vars == <<dirs, d, stage, addrs, k, result>>

isDNS(x) == dirs[x].dns = "ok"
isIP(x)  == dirs[x].ip = "ok"

\* The directive is skipped before TO1: a protocol that is missing, does not
\* decode or is not HTTP, or neither a DNS nor an IP instruction decodes.
Skipped(x) == dirs[x].prot # "http" \/ (~isDNS(x) /\ ~isIP(x))

-----------------------------------------------------------------------------

\* Moving on to the next directive ("continue").
NextDirective ==
  /\ d' = d + 1
  /\ stage' = "parse"
  /\ addrs' = 0

SkipDirective ==
  /\ stage = "parse" /\ d <= Len(dirs)
  /\ Skipped(d)
  /\ NextDirective
  /\ UNCHANGED <<dirs, k, result>>

StartDirective ==
  /\ stage = "parse" /\ d <= Len(dirs)
  /\ ~Skipped(d)
  /\ stage' = IF isDNS(d) THEN "dns" ELSE "ip"
  /\ UNCHANGED <<dirs, d, addrs, k, result>>

\* TO1 at the DNS name: an error moves on to the next directive; an empty
\* answer falls through to the IP address when there is one.
TO1Dns ==
  /\ stage = "dns"
  /\ \/ /\ NextDirective
        /\ UNCHANGED result
     \/ \E n \in 0..MaxAddrs :
          /\ addrs' = n
          /\ stage' = IF n = 0 /\ isIP(d) THEN "ip" ELSE "check"
          /\ UNCHANGED <<d, result>>
  /\ UNCHANGED <<dirs, k>>

\* TO1 at the IP address: an error moves on to the next directive.
TO1Ip ==
  /\ stage = "ip"
  /\ \/ NextDirective
     \/ \E n \in 0..MaxAddrs :
          /\ addrs' = n
          /\ stage' = "check"
          /\ UNCHANGED d
  /\ UNCHANGED <<dirs, k, result>>

\* No TO2 address found, or -rv-only (the addresses are printed): next
\* directive; otherwise TO2 on each address.
CheckAddrs ==
  /\ stage = "check"
  /\ \/ /\ addrs = 0 \/ RvOnly
        /\ NextDirective
        /\ UNCHANGED k
     \/ /\ addrs > 0 /\ ~RvOnly
        /\ stage' = "to2" /\ k' = 1
        /\ UNCHANGED <<d, addrs>>
  /\ UNCHANGED <<dirs, result>>

\* Faulty variant (mutation analysis): the failure arm has no bound.
TO2Unbounded ==
  /\ stage = "to2"
  /\ \/ /\ k <= addrs
        /\ stage' = "ret" /\ result' = "cred"
        /\ UNCHANGED <<d, addrs, k>>
     \/ /\ k' = k + 1
        /\ UNCHANGED <<d, stage, addrs, result>>
     \/ /\ k > addrs
        /\ NextDirective
        /\ UNCHANGED <<k, result>>
  /\ UNCHANGED <<dirs>>

\* Faulty variant (mutation analysis): past the last address the loop starts
\* over at the first.
TO2Restart ==
  /\ stage = "to2"
  /\ \/ /\ k <= addrs
        /\ stage' = "ret" /\ result' = "cred"
        /\ UNCHANGED <<d, addrs, k>>
     \/ /\ k <= addrs
        /\ k' = k + 1
        /\ UNCHANGED <<d, stage, addrs, result>>
     \/ /\ k > addrs
        /\ k' = 1
        /\ UNCHANGED <<d, stage, addrs, result>>
  /\ UNCHANGED <<dirs>>

\* transferOwnership2 on address k: a credential ends the walk, an error
\* moves on to the next address, and past the last one to the next
\* directive.
TO2 ==
  /\ stage = "to2"
  /\ \/ /\ k <= addrs
        /\ stage' = "ret" /\ result' = "cred"
        /\ UNCHANGED <<d, addrs, k>>
     \/ /\ k <= addrs
        /\ k' = k + 1
        /\ UNCHANGED <<d, stage, addrs, result>>
     \/ /\ k > addrs
        /\ NextDirective
        /\ UNCHANGED <<k, result>>
  /\ UNCHANGED <<dirs>>

\* Every directive tried: return nil.
Exhausted ==
  /\ stage = "parse" /\ d > Len(dirs)
  /\ stage' = "ret" /\ result' = "nil"
  /\ UNCHANGED <<dirs, d, addrs, k>>

\* transferOwnership has returned.
Returned ==
  /\ stage = "ret"
  /\ UNCHANGED vars

-----------------------------------------------------------------------------

Init ==
  /\ dirs \in DirChoices
  /\ d = 1 /\ stage = "parse" /\ addrs = 0 /\ k = 1 /\ result = "none"

Step ==
  \/ SkipDirective \/ StartDirective \/ TO1Dns \/ TO1Ip \/ CheckAddrs \/ TO2
  \/ Exhausted

Next == Step \/ Returned

Spec == Init /\ [][Next]_vars /\ WF_vars(Step)

-----------------------------------------------------------------------------
(* Properties.                                                             *)

TypeOK ==
  /\ dirs \in DirChoices
  /\ d \in 1..Len(dirs) + 1 /\ k \in 1..MaxAddrs + 1 /\ addrs \in 0..MaxAddrs
  /\ stage \in {"parse", "dns", "ip", "check", "to2", "ret"}
  /\ result \in {"none", "cred", "nil"}

\* The walk always returns.
Termination ==
  <>(stage = "ret")

=============================================================================
