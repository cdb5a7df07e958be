------------------------------ MODULE CoseHeader ------------------------------
(***************************************************************************)
(* COSE header encoding (src/unnamed/part_005, package cose): a sender's   *)
(* Header goes through Header.MarshalCBOR, the bytes reach a receiver,     *)
(* Header.UnmarshalCBOR rebuilds it and the receiver reads the algorithm   *)
(* with Header.Algorithm.                                                  *)
(*                                                                         *)
(* The cbor package is not under src/. Its Marshal and Unmarshal are       *)
(* modelled from spec §4.1 as a canonical encoder and decoder over a small *)
(* CBOR data model: definite lengths, shortest heads, map keys sorted by   *)
(* their encoding, structs as arrays, and no encoding for a Go func value. *)
(* Bytes are integers 0..255; a text string is a sequence of byte values.  *)
(***************************************************************************)
EXTENDS Integers, Sequences, SequencesExt, FiniteSets

CONSTANTS
  Labels,      \* the Labels an application puts in a HeaderMap
  Values,      \* the header values it puts under them (CBOR data items)
  MaxEntries,  \* most entries of one HeaderMap
  BstrSkipsEmpty \* what cbor.Bstr may do with zero-length contents: TRUE
                 \* leaves Val unset, FALSE decodes it

ASSUME \A l \in Labels : l \in [Int64 : Int, Str : Seq(0..255)]
ASSUME MaxEntries \in Nat
ASSUME BstrSkipsEmpty \subseteq BOOLEAN

VARIABLES
  hdr,    \* the sender's Header: [Protected, Unprotected], each Label -> value
  wire,   \* the bytes Header.MarshalCBOR returned
  got,    \* the Header the receiver's Header.UnmarshalCBOR built
  alg,    \* what the receiver's Header.Algorithm returned
  phase   \* "built", "sent", "failed" (marshal error), "received",
          \* "rejected" (unmarshal error), "checked"

vars == <<hdr, wire, got, alg, phase>>

Ok(x)      == [ok |-> x]
Err(why)   == [err |-> why]
IsErr(r)   == "err" \in DOMAIN r

-----------------------------------------------------------------------------
(* The cbor package (spec §4.1).                                           *)

\* The head of a data item of major type mt with argument n (n < 256 here).
ItemHead(mt, n) == IF n < 24 THEN <<32 * mt + n>> ELSE <<32 * mt + 24, n>>

\* Canonical order of map keys: shorter encodings first, then bytewise.
KeyBefore(a, b) ==
  \/ Len(a) < Len(b)
  \/ /\ Len(a) = Len(b)
     /\ \E i \in 1..Len(a) : a[i] < b[i] /\ \A j \in 1..i-1 : a[j] = b[j]

\* cbor.Marshal of a data item; a map item is a sequence of <<key, value>>.
RECURSIVE Enc(_)
Enc(x) ==
  CASE "int"  \in DOMAIN x -> IF x.int >= 0 THEN ItemHead(0, x.int) ELSE ItemHead(1, -1 - x.int)
    [] "bstr" \in DOMAIN x -> ItemHead(2, Len(x.bstr)) \o x.bstr
    [] "tstr" \in DOMAIN x -> ItemHead(3, Len(x.tstr)) \o x.tstr
    [] "arr"  \in DOMAIN x -> ItemHead(4, Len(x.arr)) \o
                              FlattenSeq([i \in 1..Len(x.arr) |-> Enc(x.arr[i])])
    [] "map"  \in DOMAIN x -> ItemHead(5, Len(x.map)) \o
                              FlattenSeq([i \in 1..Len(x.map) |-> Enc(x.map[i][1]) \o Enc(x.map[i][2])])

\* cbor.Marshal of a Go value: a data item, or a func, which has no encoding.
Marshal(v) == IF "func" \in DOMAIN v THEN Err("unsupported type") ELSE Ok(Enc(v))

\* cbor.Unmarshal of one data item from b: Ok(<<item, rest>>) or an error;
\* zero bytes hold no item.
RECURSIVE Dec(_), DecN(_, _)
Dec(b) ==
  IF b = <<>> THEN Err("EOF") ELSE
  LET mt == b[1] \div 32
      ai == b[1] % 32
      n  == IF ai < 24 THEN ai ELSE b[2]
      body == SubSeq(b, IF ai < 24 THEN 2 ELSE 3, Len(b))
      Items(r) == r.ok[1]
      After(r) == r.ok[2]
  IN IF ai > 24 \/ (ai = 24 /\ Len(b) < 2) THEN Err("unsupported head") ELSE
     CASE mt = 0 -> Ok(<<[int |-> n], body>>)
       [] mt = 1 -> Ok(<<[int |-> -1 - n], body>>)
       [] mt \in {2, 3} ->
            IF Len(body) < n THEN Err("EOF") ELSE
            LET s == SubSeq(body, 1, n) IN
            Ok(<<IF mt = 2 THEN [bstr |-> s] ELSE [tstr |-> s], SubSeq(body, n + 1, Len(body))>>)
       [] mt = 4 -> LET r == DecN(body, n) IN
                    IF IsErr(r) THEN r ELSE Ok(<<[arr |-> Items(r)], After(r)>>)
       [] mt = 5 -> LET r == DecN(body, 2 * n) IN
                    IF IsErr(r) THEN r
                    ELSE Ok(<<[map |-> [i \in 1..n |-> <<Items(r)[2*i-1], Items(r)[2*i]>>]],
                              After(r)>>)
       [] OTHER -> Err("unsupported major type")
DecN(b, n) ==
  IF n = 0 THEN Ok(<<<<>>, b>>) ELSE
  LET r == Dec(b) IN
  IF IsErr(r) THEN r ELSE
  LET rs == DecN(r.ok[2], n - 1) IN
  IF IsErr(rs) THEN rs ELSE Ok(<<<<r.ok[1]>> \o rs.ok[1], rs.ok[2]>>)

\* cbor.Unmarshal into any: exactly one item.
Unmarshal(b) ==
  LET r == Dec(b) IN
  IF IsErr(r) THEN r ELSE IF r.ok[2] # <<>> THEN Err("trailing data") ELSE Ok(r.ok[1])

-----------------------------------------------------------------------------
(* package cose, src/unnamed/part_005.                                     *)

IntLabel(i) == [Int64 |-> i, Str |-> <<>>]
StrLabel(s) == [Int64 |-> 0, Str |-> s]
AlgLabel == IntLabel(1)

\* Label.MarshalCBOR: an int label as its Int64; otherwise cbor.Marshal of
\* l.String, the method value rather than its result.
LabelMarshal(l) ==
  IF l.Int64 # 0 THEN Marshal([int |-> l.Int64]) ELSE Marshal([func |-> "String"])

\* Label.UnmarshalCBOR: an int becomes Int64, a text string Str.
LabelUnmarshal(item) ==
  CASE "int"  \in DOMAIN item -> Ok(IntLabel(item.int))
    [] "tstr" \in DOMAIN item -> Ok(StrLabel(item.tstr))
    [] OTHER -> Err("unexpected label type")

\* Map of labels to raw values (map[Label]cbor.RawBytes): each key through
\* Label.MarshalCBOR, the raw value bytes as they are, keys in canonical order.
RawMapMarshal(raw) ==
  LET ks == DOMAIN raw IN
  IF \E l \in ks : IsErr(LabelMarshal(l)) THEN Err("unsupported type") ELSE
  LET ents == SetToSortSeq({<<LabelMarshal(l).ok, raw[l]>> : l \in ks},
                           LAMBDA p, q : KeyBefore(p[1], q[1]))
  IN Ok(ItemHead(5, Cardinality(ks)) \o FlattenSeq([i \in 1..Len(ents) |-> ents[i][1] \o ents[i][2]]))

\* newRawHeaderMap: each header value marshalled on its own.
NewRawHeaderMap(m) == [l \in DOMAIN m |-> Marshal(m[l]).ok]

\* omitEmpty.MarshalCBOR: a one-byte zero value (0, h'', "", [], {}) becomes
\* zero bytes.
OmitEmpty(r) ==
  IF ~IsErr(r) /\ Len(r.ok) = 1 /\ r.ok[1] \in {0, 64, 96, 128, 160} THEN Ok(<<>>) ELSE r

\* Header.MarshalCBOR: cborHeader{Protected: the bstr-wrapped omitEmpty map,
\* Unprotected: the map}, a struct, encoded as an array of its fields.
HeaderMarshal(h) ==
  LET p == OmitEmpty(RawMapMarshal(NewRawHeaderMap(h.Protected)))
      u == RawMapMarshal(NewRawHeaderMap(h.Unprotected))
  IN IF IsErr(p) THEN p ELSE IF IsErr(u) THEN u
     ELSE Ok(ItemHead(4, 2) \o ItemHead(2, Len(p.ok)) \o p.ok \o u.ok)

\* rawHeaderMap decoding: keys through Label.UnmarshalCBOR; each raw value
\* then decoded into an any (Header.UnmarshalCBOR's loops); a later
\* duplicate key overwrites an earlier one.
HeaderMapFrom(item) ==
  IF "map" \notin DOMAIN item THEN Err("not a map") ELSE
  LET ps == item.map
      ls == [i \in 1..Len(ps) |-> LabelUnmarshal(ps[i][1])]
  IN IF \E i \in 1..Len(ps) : IsErr(ls[i]) THEN Err("unexpected label type") ELSE
     LET keys == {ls[i].ok : i \in 1..Len(ps)}
         last(l) == CHOOSE i \in 1..Len(ps) : ls[i].ok = l /\ \A j \in i+1..Len(ps) : ls[j].ok # l
     IN Ok([l \in keys |-> Unmarshal(Enc(ps[last(l)][2])).ok])

\* The protected bstr's contents through omitEmpty.UnmarshalCBOR, i.e.
\* cbor.Unmarshal into a rawHeaderMap: the set of outcomes the cbor package
\* may give (whether Bstr passes zero-length contents on is not under src/).
ProtectedFrom(c) ==
  IF c = <<>>
  THEN {IF skip THEN Ok(<<>>) ELSE Err("EOF") : skip \in BstrSkipsEmpty}
  ELSE LET r == Unmarshal(c) IN {IF IsErr(r) THEN r ELSE HeaderMapFrom(r.ok)}

\* Header.UnmarshalCBOR, as the set of its possible outcomes.
HeaderUnmarshal(b) ==
  LET r == Unmarshal(b) IN
  IF IsErr(r) THEN {r} ELSE
  LET x == r.ok IN
  IF ~("arr" \in DOMAIN x /\ Len(x.arr) = 2 /\ "bstr" \in DOMAIN x.arr[1])
  THEN {Err("not a header")} ELSE
  LET u == HeaderMapFrom(x.arr[2]) IN
  { IF IsErr(p) THEN p ELSE IF IsErr(u) THEN u
    ELSE Ok([Protected |-> p.ok, Unprotected |-> u.ok])
    : p \in ProtectedFrom(x.arr[1].bstr) }

\* HeaderMap.Parse into an int64: absent gives found = FALSE; otherwise the
\* value is marshalled and unmarshalled into the int64.
ParseInt(hm, l) ==
  IF l \notin DOMAIN hm THEN [found |-> FALSE, res |-> Ok(0)] ELSE
  LET data == Marshal(hm[l])
      r == IF IsErr(data) THEN data ELSE Unmarshal(data.ok)
  IN [found |-> TRUE,
      res |-> IF IsErr(r) THEN r ELSE IF "int" \in DOMAIN r.ok THEN Ok(r.ok.int)
                                      ELSE Err("cannot unmarshal into int64")]

\* Header.Algorithm: the protected alg if it parses as a number, else 0.
Algorithm(h) ==
  LET p == ParseInt(h.Protected, AlgLabel) IN IF IsErr(p.res) THEN 0 ELSE p.res.ok

-----------------------------------------------------------------------------
(* A header from a sender to a receiver.                                   *)

\* The HeaderMaps an application may build: at most MaxEntries labels.
HeaderMaps ==
  UNION {[D -> Values] : D \in {D \in SUBSET Labels : Cardinality(D) <= MaxEntries}}

\* The sender marshals its header (Header.MarshalCBOR).
MarshalHeader ==
  /\ phase = "built"
  /\ LET r == HeaderMarshal(hdr) IN
       \/ /\ IsErr(r) /\ phase' = "failed" /\ UNCHANGED wire
       \/ /\ ~IsErr(r) /\ phase' = "sent" /\ wire' = r.ok
  /\ UNCHANGED <<hdr, got, alg>>

\* The receiver unmarshals the bytes (Header.UnmarshalCBOR).
UnmarshalHeader ==
  /\ phase = "sent"
  /\ \E r \in HeaderUnmarshal(wire) :
       \/ /\ IsErr(r) /\ phase' = "rejected" /\ UNCHANGED got
       \/ /\ ~IsErr(r) /\ phase' = "received" /\ got' = r.ok
  /\ UNCHANGED <<hdr, wire, alg>>

\* The receiver reads the algorithm to verify with (Header.Algorithm).
ReadAlgorithm ==
  /\ phase = "received"
  /\ alg' = Algorithm(got)
  /\ phase' = "checked"
  /\ UNCHANGED <<hdr, wire, got>>

\* Every header has gone as far as it can.
Finished ==
  /\ phase \in {"failed", "rejected", "checked"}
  /\ UNCHANGED vars

Init ==
  /\ hdr \in [Protected : HeaderMaps, Unprotected : HeaderMaps]
  /\ wire = <<>>
  /\ got = [Protected |-> <<>>, Unprotected |-> <<>>]
  /\ alg = 0
  /\ phase = "built"

Next == MarshalHeader \/ UnmarshalHeader \/ ReadAlgorithm \/ Finished

Spec == Init /\ [][Next]_vars /\ WF_vars(Next)

-----------------------------------------------------------------------------
(* Properties.                                                             *)

TypeOK ==
  /\ hdr \in [Protected : HeaderMaps, Unprotected : HeaderMaps]
  /\ wire \in Seq(0..255)
  /\ phase \in {"built", "sent", "failed", "received", "rejected", "checked"}
  /\ alg \in Int

\* The codec round trip of spec §4.1 and §8, parse(serialize(x)) = x, for
\* every header whose labels are ints or strings, as HeaderMap's comment
\* allows: Header.MarshalCBOR succeeds, Header.UnmarshalCBOR gives the
\* receiver the sender's header (an empty protected map included), and
\* Header.Algorithm reads the algorithm the sender set.
RoundTrip ==
  /\ phase \notin {"failed", "rejected"}
  /\ phase \in {"received", "checked"} => got = hdr
  /\ phase = "checked" => alg = Algorithm(hdr)

=============================================================================
