------------------------------ MODULE Versions ------------------------------
(***************************************************************************)
(* The order of versions (internal/update/update.go). A version has three  *)
(* numbers and the prerelease identifiers of a release candidate. A        *)
(* numeric identifier is known by its number, an alphanumeric one by its   *)
(* place in the order of strings. Dev is a version that cannot be parsed.  *)
(***************************************************************************)
EXTENDS Naturals, Sequences

CONSTANT Dev

Identifiers == [numeric : BOOLEAN, value : Nat]
Parsed      == [nums : [1 .. 3 -> Nat], pre : Seq(Identifiers)]

ASSUME DevAssumption == Dev \notin Parsed

\* Mutant: identifiers are compared by value, whatever their kind.
IdPrecedesByValue(x, y) == x.value < y.value

\* comparePreIdentifiers: numbers rank below names.
IdPrecedes(x, y) ==
  \/ x.numeric /\ ~y.numeric
  \/ x.numeric = y.numeric /\ x.value < y.value

NumsPrecede(a, b) ==
  \E i \in 1 .. 3 : a[i] < b[i] /\ \A j \in 1 .. i - 1 : a[j] = b[j]

\* The first identifiers that differ decide, then the number of identifiers.
PrePrecedes(s, t) ==
  \/ \E i \in DOMAIN s \cap DOMAIN t :
       IdPrecedes(s[i], t[i]) /\ \A j \in 1 .. i - 1 : s[j] = t[j]
  \/ Len(s) < Len(t) /\ \A j \in 1 .. Len(s) : s[j] = t[j]

\* Mutant: no prerelease identifiers rank below any.
PrecedesEmptyFirst(a, b) ==
  \/ NumsPrecede(a.nums, b.nums)
  \/ a.nums = b.nums /\ PrePrecedes(a.pre, b.pre)

\* compareVersions: a precedes b. A prerelease precedes its release.
Precedes(a, b) ==
  \/ NumsPrecede(a.nums, b.nums)
  \/ /\ a.nums = b.nums
     /\ a.pre # <<>>
     /\ b.pre = <<>> \/ PrePrecedes(a.pre, b.pre)

\* IsNewer: a version that cannot be parsed is never upgraded, nor upgraded to.
IsNewer(current, latest) ==
  current # Dev /\ latest # Dev /\ Precedes(current, latest)
=============================================================================
