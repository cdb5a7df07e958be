--------------------------- MODULE MCDelegateChain ---------------------------
(* Model-checking instance of DelegateChain: chains of one to three        *)
(* certificates as GenerateDelegate builds them (leaf, intermediate,       *)
(* root), their root self-signed or signed by the owner key, with either   *)
(* varied identifier extensions or one broken field per certificate.       *)
EXTENDS DelegateChain

MCMaxChain == 3

\* Terms of identifier patterns, and the identifiers built from them.
TA == <<"a">>
TB == <<"b">>
TAB == <<"a", "b">>
TAStar == <<"a", "*">>
TStar == <<"*">>
TStarB == <<"*", "b">>

\* Leaf Identifier values: absent, a name, a wildcard name, two names.
MCLeafIdents == {<<>>, <<TA>>, <<TAB>>, <<TAStar>>, <<TA, TB>>}
\* CA IdentifierConstraints values.
MCConstraints == {<<>>, <<TA>>, <<TAStar>>, <<TStar>>, <<TA, TB>>, <<TStarB>>}
\* namedOwner values.
MCNamedOwners == {<<TA>>, <<TAB>>, <<TStar>>, <<TA, TB>>}

\* Root signers of a chain of length n: the owner key, itself, an outside CA.
RootSigners(n) == {0, n, 9}

\* A certificate of a well-formed chain of length n at position i: key i,
\* signed by the next key, the root signed by rootSigner (0: the owner key;
\* n: itself; another key: by a CA the chain does not include).
Cert(i, n, rootSigner, ident, constr) ==
  [key |-> i, signer |-> IF i < n THEN i + 1 ELSE rootSigner,
   subject |-> i, issuer |-> IF i < n THEN i + 1 ELSE rootSigner,
   oid |-> TRUE, digsig |-> TRUE, certSign |-> i > 1, isCA |-> i > 1, bcValid |-> TRUE,
   ident |-> ident, constr |-> constr]

ScopeChains ==
  UNION {
    { [i \in 1..n |-> Cert(i, n, rs, IF i = 1 THEN li ELSE <<>>, IF i = 1 THEN <<>> ELSE cs[i])]
      : li \in MCLeafIdents, cs \in [2..n -> MCConstraints], rs \in RootSigners(n) }
    : n \in 1..MCMaxChain }

\* One field a presented certificate may get wrong.
Defects == {"none", "signer", "issuer", "oid", "digsig", "bc", "ca", "certsign"}

Break(c, d) ==
  CASE d = "signer"   -> [c EXCEPT !.signer = 99]
    [] d = "issuer"   -> [c EXCEPT !.issuer = 99]
    [] d = "oid"      -> [c EXCEPT !.oid = FALSE]
    [] d = "digsig"   -> [c EXCEPT !.digsig = FALSE]
    [] d = "bc"       -> [c EXCEPT !.bcValid = FALSE]
    [] d = "ca"       -> [c EXCEPT !.isCA = FALSE]
    [] d = "certsign" -> [c EXCEPT !.certSign = FALSE]
    [] OTHER          -> c

DefectChains ==
  UNION {
    { [i \in 1..n |-> Break(Cert(i, n, rs, <<>>, <<>>), ds[i])]
      : ds \in [1..n -> Defects], rs \in RootSigners(n) }
    : n \in 1..MCMaxChain }

MCChains == ScopeChains \cup DefectChains

MCOwnerKeys == {[id |-> 0, alg |-> "ecdsa"], [id |-> 0, alg |-> "ed25519"]}
MCAlphabet == {"a", "b"}
MCMaxWordLen == 3
=============================================================================
