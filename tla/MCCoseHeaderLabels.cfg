\* Headers with int and text labels, whatever cbor.Bstr does with empty contents.
CONSTANTS
  Labels <- MCLabels
  Values <- MCValues
  MaxEntries <- MCMaxEntries
  BstrSkipsEmpty <- MCBstrEither
SPECIFICATION Spec
INVARIANT
  RoundTrip
