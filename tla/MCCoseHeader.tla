---------------------------- MODULE MCCoseHeader ----------------------------
(* Model values for CoseHeader: the labels alg (1), kid (4), a negative    *)
(* private label and a text label "a"; values an int, a text string and a  *)
(* byte string; up to two entries per map.                                 *)
EXTENDS CoseHeader

MCIntLabels == {IntLabel(1), IntLabel(4), IntLabel(-1)}
MCLabels == MCIntLabels \cup {StrLabel(<<97>>)}
MCValues == {[int |-> -7], [int |-> 24], [tstr |-> <<97>>], [bstr |-> <<>>]}
MCMaxEntries == 2
MCBstrEither == BOOLEAN

\* The cbor encoder and decoder agree on every header value and on nested
\* arrays and maps with one-byte heads.
CodecInverse ==
  \A v \in MCValues \cup {[arr |-> <<[int |-> 44], [map |-> <<<<[tstr |-> <<>>], [int |-> -25]>>>>]>>]} :
    Unmarshal(Enc(v)) = Ok(v)
ASSUME CodecInverse
====
