---------------------------- MODULE DelegateChain ----------------------------
(***************************************************************************)
(* The delegate chain verifier of src/delegate.go: processDelegateChain    *)
(* (reached through VerifyDelegateChain) and the identifier matcher        *)
(* IsPermittedIdentifierRule.                                              *)
(*                                                                         *)
(* A certificate is a record of the fields the verifier reads:             *)
(*   key      the subject public key (a number; the owner key is 0)        *)
(*   signer   the key whose signature the certificate carries              *)
(*   subject, issuer   the CommonNames                                     *)
(*   oid      it carries the checked function-OID extension                *)
(*   digsig, certSign, isCA, bcValid   KeyUsage / BasicConstraints bits    *)
(*   ident    its Identifier extension, constr its IdentifierConstraints   *)
(* An identifier string is the sequence of its comma-separated terms, each *)
(* term a sequence of characters over a small alphabet and "*"; the empty  *)
(* sequence is the code's "" (extension absent).  Identifiers carry no     *)
(* spaces, so the code's space stripping is the identity here.             *)
(* Signature checking is abstracted to "signed by the key of the parent";  *)
(* the CA checks CheckSignatureFrom adds are repeated by the walk itself.  *)
(***************************************************************************)
EXTENDS Integers, Sequences, SequencesExt, FiniteSets

CONSTANTS
  Chains,       \* the candidate chains [leaf, ..., root] presented to the verifier
  OwnerKeys,    \* owner keys the caller may pass: records [id, alg]
  NoKey,        \* ownerKey == nil
  NamedOwners,  \* namedOwner arguments (identifier sequences)
  NoName,       \* namedOwner == nil
  Alphabet,     \* characters of concrete names
  MaxWordLen    \* longest concrete name the reference semantics considers

ASSUME NoKey \notin OwnerKeys /\ NoName \notin NamedOwners
ASSUME MaxWordLen \in Nat

VARIABLES
  chain,       \* the chain argument
  ownerKey,    \* the ownerKey argument (NoKey for nil)
  oid,         \* oid != nil: the function-OID is checked
  namedOwner,  \* the namedOwner argument (NoName for nil)
  walked,      \* the chain as walked: chain plus the ephemeral owner root
  result       \* "pending", then "ok" or "rejected"

vars == <<chain, ownerKey, oid, namedOwner, walked, result>>

-----------------------------------------------------------------------------
(* Identifier matching.                                                    *)

\* regexp.MatchString("^" + QuoteMeta(p) + "$" with \* replaced by .*, c):
\* every "*" of the parent term p matches any run of characters of the
\* child term c, "*" characters of c included; all else matches literally.
RECURSIVE GlobMatch(_, _)
GlobMatch(c, p) ==
  IF p = <<>> THEN c = <<>>
  ELSE IF Head(p) = "*"
       THEN \E k \in 0..Len(c) : GlobMatch(SubSeq(c, k + 1, Len(c)), Tail(p))
       ELSE c # <<>> /\ Head(c) = Head(p) /\ GlobMatch(Tail(c), Tail(p))

\* Every term of the child matches some term of the parent.
IsPermittedIdentifierRule(child, parent) ==
  \A i \in 1..Len(child) : \E j \in 1..Len(parent) : GlobMatch(child[i], parent[j])

-----------------------------------------------------------------------------
(* Certificate accessors.                                                  *)

GetCertIdentifierStr(c) == c.ident

getIdentConstraints(c) == c.constr

certMissingOID(c) == ~c.oid

\* GetIdentifier never returns nil for a non-empty chain: a leaf without an
\* Identifier yields a pointer to "".
GetIdentifier(ch) == GetCertIdentifierStr(ch[1])

\* What the walk reads as "constrs" at position i.
Constrs(ch, i) == IF i = 1 THEN GetIdentifier(ch) ELSE getIdentConstraints(ch[i])

CheckSignatureFrom(c, parent) == c.signer = parent.key

-----------------------------------------------------------------------------
(* processDelegateChain.                                                   *)

\* Faulty variant (mutation analysis): the ephemeral root certifies the
\* freshly generated key instead of the owner key.
EphemeralRootGeneratedKey(ch, ok, withOid) ==
  [key |-> -1, signer |-> -1,
   subject |-> ch[Len(ch)].issuer, issuer |-> ch[Len(ch)].issuer,
   oid |-> withOid, digsig |-> TRUE, certSign |-> TRUE, isCA |-> TRUE, bcValid |-> TRUE,
   ident |-> <<>>, constr |-> getIdentConstraints(ch[Len(ch)])]

\* GenerateDelegate(rootPriv, DelegateFlagRoot, *ownerKey, issuer, issuer,
\* [oid], 0, getIdentConstraints(last)): a CA certificate for the owner key,
\* signed by a fresh key (-1), named after the last certificate's issuer.
EphemeralRoot(ch, ok, withOid) ==
  [key |-> ok.id, signer |-> -1,
   subject |-> ch[Len(ch)].issuer, issuer |-> ch[Len(ch)].issuer,
   oid |-> withOid, digsig |-> TRUE, certSign |-> TRUE, isCA |-> TRUE, bcValid |-> TRUE,
   ident |-> <<>>, constr |-> getIdentConstraints(ch[Len(ch)])]

\* Step 1: with an owner key, the ephemeral owner root is appended.
WithOwnerRoot(ch, ok, withOid) ==
  IF ok = NoKey THEN ch ELSE Append(ch, EphemeralRoot(ch, ok, withOid))

\* Faulty variant (mutation analysis): no "No NamedIdentifier" check, so an
\* unconstrained CA resets the scope.
CertOkNoScopeReset(ch, i, withOid) ==
  LET c         == ch[i]
      constrs   == Constrs(ch, i)
      prevOwner == IF i = 1 THEN <<>> ELSE Constrs(ch, i - 1)
  IN  /\ constrs # <<>> /\ prevOwner # <<>> => IsPermittedIdentifierRule(prevOwner, constrs)
      /\ i # Len(ch) => CheckSignatureFrom(c, ch[i + 1]) /\ c.issuer = ch[i + 1].subject
      /\ withOid => ~certMissingOID(c)
      /\ c.digsig
      /\ c.bcValid
      /\ i # 1 => c.isCA /\ c.certSign

\* Faulty variant (mutation analysis): the signature of the next-to-last
\* entry is not checked against the last one.
CertOkSkipLastLink(ch, i, withOid) ==
  LET c         == ch[i]
      constrs   == Constrs(ch, i)
      prevOwner == IF i = 1 THEN <<>> ELSE Constrs(ch, i - 1)
  IN  /\ constrs # <<>> /\ prevOwner # <<>> => IsPermittedIdentifierRule(prevOwner, constrs)
      /\ ~(i # 1 /\ prevOwner = <<>> /\ constrs # <<>>)
      /\ i < Len(ch) - 1 => CheckSignatureFrom(c, ch[i + 1]) /\ c.issuer = ch[i + 1].subject
      /\ withOid => ~certMissingOID(c)
      /\ c.digsig
      /\ c.bcValid
      /\ i # 1 => c.isCA /\ c.certSign

\* The checks of one iteration of the walk (lines 247-317).  prevOwner at
\* entry i is nextStr of entry i-1, which is that entry's constrs.
CertOk(ch, i, withOid) ==
  LET c         == ch[i]
      constrs   == Constrs(ch, i)
      prevOwner == IF i = 1 THEN <<>> ELSE Constrs(ch, i - 1)
  IN  /\ constrs # <<>> /\ prevOwner # <<>> => IsPermittedIdentifierRule(prevOwner, constrs)
      /\ ~(i # 1 /\ prevOwner = <<>> /\ constrs # <<>>)
      /\ i # Len(ch) => CheckSignatureFrom(c, ch[i + 1]) /\ c.issuer = ch[i + 1].subject
      /\ withOid => ~certMissingOID(c)
      /\ c.digsig
      /\ c.bcValid
      /\ i # 1 => c.isCA /\ c.certSign

\* Lines 322-333: the root's raw IdentifierConstraints against namedOwner.
RootScopeOk(ch, named) ==
  LET rootIdent == getIdentConstraints(ch[Len(ch)])
  IN  named # NoName /\ rootIdent # <<>> => IsPermittedIdentifierRule(rootIdent, named)

\* processDelegateChain(chain, ownerKey, oid, output, namedOwner) returns nil.
ProcessDelegateChainOk(ch, ok, withOid, named) ==
  /\ ch # <<>>
  /\ ok # NoKey => ok.alg \in {"ecdsa", "rsa"}
  /\ LET w == WithOwnerRoot(ch, ok, withOid)
     IN  /\ \A i \in 1..Len(w) : CertOk(w, i, withOid)
         /\ RootScopeOk(w, named)

-----------------------------------------------------------------------------

Init ==
  /\ chain \in Chains
  /\ ownerKey \in OwnerKeys \cup {NoKey}
  /\ oid \in BOOLEAN
  /\ namedOwner \in NamedOwners \cup {NoName}
  /\ walked = <<>>
  /\ result = "pending"

\* One call of VerifyDelegateChain (PrintDelegateChain is the same call with
\* namedOwner nil and output on).
VerifyDelegateChain ==
  /\ result = "pending"
  /\ walked' = IF chain = <<>> \/ (ownerKey # NoKey /\ ownerKey.alg \notin {"ecdsa", "rsa"})
               THEN chain ELSE WithOwnerRoot(chain, ownerKey, oid)
  /\ result' = IF ProcessDelegateChainOk(chain, ownerKey, oid, namedOwner) THEN "ok" ELSE "rejected"
  /\ UNCHANGED <<chain, ownerKey, oid, namedOwner>>

Next == VerifyDelegateChain

Spec == Init /\ [][Next]_vars

-----------------------------------------------------------------------------
(* Reference semantics of identifiers (spec §3.3, §4.4): the concrete      *)
(* names a pattern stands for, "*" standing for any run of characters of   *)
(* the term, generated independently of the matcher above.                 *)

Words == BoundedSeq(Alphabet, MaxWordLen)

RECURSIVE Expand(_)
Expand(t) ==
  IF t = <<>> THEN {<<>>}
  ELSE LET rest == Expand(Tail(t))
       IN  IF Head(t) = "*"
           THEN {u \o v : u \in Words, v \in rest}
           ELSE {<<Head(t)>> \o v : v \in rest}

\* The concrete names an identifier (list of terms) stands for.
NamesOf(idents) == UNION {Expand(idents[i]) : i \in 1..Len(idents)} \cap Words

\* Every name the child stands for is one the parent permits.
Within(child, parent) == NamesOf(child) \subseteq NamesOf(parent)

-----------------------------------------------------------------------------
(* Properties.                                                             *)

IsCert(c) ==
  /\ DOMAIN c = {"key", "signer", "subject", "issuer", "oid", "digsig", "certSign",
                 "isCA", "bcValid", "ident", "constr"}
  /\ c.key \in Nat /\ c.signer \in Int
  /\ {c.oid, c.digsig, c.certSign, c.isCA, c.bcValid} \subseteq BOOLEAN

TypeOK ==
  /\ chain \in Chains
  /\ ownerKey \in OwnerKeys \cup {NoKey}
  /\ oid \in BOOLEAN
  /\ namedOwner \in NamedOwners \cup {NoName}
  /\ \A i \in 1..Len(walked) : IsCert(walked[i])
  /\ result \in {"pending", "ok", "rejected"}

\* A chain the verifier accepts names its leaf within the scope of every CA
\* of the chain that declares IdentifierConstraints (spec §3.3: "a child
\* identifier must match at least one pattern at every ancestor that
\* declares constraints"), although the walk only ever compares adjacent
\* certificates, and compares constraint patterns with each other.
ScopedLeafPermitted ==
  result = "ok" =>
    \A j \in 2..Len(chain) :
      chain[j].constr # <<>> =>
        /\ chain[1].ident # <<>>
        /\ Within(chain[1].ident, chain[j].constr)

\* An accepted chain is a signature path from the leaf to its root and, when
\* an owner key is given, the root is signed by that owner key, although
\* the code never compares the root with the owner key directly: only the
\* synthesized ephemeral certificate carries it.
AnchoredAtOwnerKey ==
  result = "ok" =>
    /\ \A j \in 1..Len(chain) - 1 :
         chain[j].signer = chain[j + 1].key /\ chain[j + 1].isCA /\ chain[j + 1].certSign
    /\ ownerKey # NoKey => chain[Len(chain)].signer = ownerKey.id

\* Spec §4.4 step 4: a named owner the caller expects must be permitted by
\* the root's IdentifierConstraints, so that a chain scoped to one tenant
\* cannot be used to onboard another.
NamedOwnerWithinRootScope ==
  result = "ok" /\ namedOwner # NoName /\ chain[Len(chain)].constr # <<>> =>
    Within(namedOwner, chain[Len(chain)].constr)

=============================================================================
