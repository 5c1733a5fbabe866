--------------------------- MODULE SelfUpdateProofs ---------------------------
(***************************************************************************)
(* The order of versions is a strict total order, and what holds of        *)
(* updates that do not overlap, for any number of releases, of upgrade     *)
(* commands and of mishaps.                                                *)
(***************************************************************************)
EXTENDS SelfUpdate, TLAPS, SequenceTheorems, WellFoundedInduction

\* A set of numbers that is not empty has a least one.
LEMMA FirstOf ==
  ASSUME NEW T \in SUBSET Nat, T # {}
  PROVE  \E x \in T : \A y \in T : x <= y
<1> DEFINE R == OpToRel(<, Nat)
<1>1. IsWellFoundedOn(R, Nat)
  BY NatLessThanWellFounded
<1>2. PICK x \in T : \A y \in T : <<y, x>> \notin R
  <2> HIDE DEF R
  <2> QED BY <1>1, WFMin
<1>3. ASSUME NEW y \in T PROVE x <= y
  <2>1. <<y, x>> \notin {s \in Nat \X Nat : s[1] < s[2]}
    BY <1>2 DEF OpToRel
  <2> QED BY <2>1
<1> QED BY <1>2, <1>3

-----------------------------------------------------------------------------
(* Identifiers and numbers.                                                *)

\* Identifiers are ordered strictly and totally (update.go 179-196).
LEMMA IdOrder ==
  ASSUME NEW x \in Identifiers, NEW y \in Identifiers, NEW z \in Identifiers
  PROVE  /\ ~IdPrecedes(x, x)
         /\ IdPrecedes(x, y) /\ IdPrecedes(y, z) => IdPrecedes(x, z)
         /\ x = y \/ IdPrecedes(x, y) \/ IdPrecedes(y, x)
  BY DEF Identifiers, IdPrecedes

\* So are the three numbers, by the first that differ.
LEMMA NumsOrder ==
  ASSUME NEW a \in [1 .. 3 -> Nat], NEW b \in [1 .. 3 -> Nat], NEW c \in [1 .. 3 -> Nat]
  PROVE  /\ ~NumsPrecede(a, a)
         /\ NumsPrecede(a, b) /\ NumsPrecede(b, c) => NumsPrecede(a, c)
         /\ a = b \/ NumsPrecede(a, b) \/ NumsPrecede(b, a)
<1>1. ~NumsPrecede(a, a)
  BY DEF NumsPrecede
<1>2. ASSUME NumsPrecede(a, b), NumsPrecede(b, c) PROVE NumsPrecede(a, c)
  <2>1. PICK i \in 1 .. 3 : a[i] < b[i] /\ \A k \in 1 .. i - 1 : a[k] = b[k]
    BY <1>2 DEF NumsPrecede
  <2>2. PICK j \in 1 .. 3 : b[j] < c[j] /\ \A k \in 1 .. j - 1 : b[k] = c[k]
    BY <1>2 DEF NumsPrecede
  <2> DEFINE m == IF i < j THEN i ELSE j
  <2>3. m \in 1 .. 3 /\ a[m] < c[m]
    BY <2>1, <2>2
  <2>4. \A k \in 1 .. m - 1 : a[k] = c[k]
    BY <2>1, <2>2
  <2> QED BY <2>3, <2>4 DEF NumsPrecede
<1>3. ASSUME a # b PROVE NumsPrecede(a, b) \/ NumsPrecede(b, a)
  <2>1. PICK i \in {k \in 1 .. 3 : a[k] # b[k]} :
             \A k \in {n \in 1 .. 3 : a[n] # b[n]} : i <= k
    <3>1. {k \in 1 .. 3 : a[k] # b[k]} # {}
      BY <1>3
    <3> QED BY <3>1, FirstOf
  <2>2. \A k \in 1 .. i - 1 : a[k] = b[k]
    BY <2>1
  <2>3. a[i] < b[i] \/ b[i] < a[i]
    BY <2>1
  <2> QED BY <2>1, <2>2, <2>3 DEF NumsPrecede
<1> QED BY <1>1, <1>2, <1>3

-----------------------------------------------------------------------------
(* Prereleases.                                                            *)

\* No sequence of identifiers ranks below itself.
LEMMA PreIrreflexive ==
  ASSUME NEW s \in Seq(Identifiers)
  PROVE  ~PrePrecedes(s, s)
  BY IdOrder DEF PrePrecedes

\* Of the two places that decide the earlier one decides, or the lengths do.
LEMMA PreTransitive ==
  ASSUME NEW s \in Seq(Identifiers), NEW t \in Seq(Identifiers), NEW u \in Seq(Identifiers),
         PrePrecedes(s, t), PrePrecedes(t, u)
  PROVE  PrePrecedes(s, u)
<1> DEFINE Differ(a, b, i) == /\ i \in DOMAIN a \cap DOMAIN b /\ IdPrecedes(a[i], b[i])
                              /\ \A k \in 1 .. i - 1 : a[k] = b[k]
           Prefix(a, b)    == Len(a) < Len(b) /\ \A k \in 1 .. Len(a) : a[k] = b[k]
<1> HIDE DEF Differ, Prefix
<1>a. /\ DOMAIN s = 1 .. Len(s) /\ DOMAIN t = 1 .. Len(t) /\ DOMAIN u = 1 .. Len(u)
      /\ Len(s) \in Nat /\ Len(t) \in Nat /\ Len(u) \in Nat
  OBVIOUS
<1>b. \A i \in 1 .. Len(s) : s[i] \in Identifiers
  OBVIOUS
<1>c. \A i \in 1 .. Len(t) : t[i] \in Identifiers
  OBVIOUS
<1>d. \A i \in 1 .. Len(u) : u[i] \in Identifiers
  OBVIOUS
<1>1. (\E i \in Nat : Differ(s, t, i)) \/ Prefix(s, t)
  BY <1>a DEF PrePrecedes, Differ, Prefix
<1>2. (\E i \in Nat : Differ(t, u, i)) \/ Prefix(t, u)
  BY <1>a DEF PrePrecedes, Differ, Prefix
<1>3. \A i \in Nat : Differ(s, u, i) => PrePrecedes(s, u)
  BY DEF PrePrecedes, Differ
<1>4. ASSUME NEW i \in Nat, Differ(s, t, i), NEW j \in Nat, Differ(t, u, j)
      PROVE  PrePrecedes(s, u)
  <2> DEFINE m == IF i < j THEN i ELSE j
  <2>1. m \in 1 .. Len(s) /\ m \in 1 .. Len(u) /\ m \in 1 .. Len(t)
    BY <1>4, <1>a DEF Differ
  <2>2. \A k \in 1 .. m - 1 : s[k] = u[k]
    BY <1>4, <1>a DEF Differ
  <2>3. IdPrecedes(s[m], u[m])
    <3>1. CASE i < j
      BY <1>4, <3>1, <1>a DEF Differ
    <3>2. CASE j < i
      BY <1>4, <3>2, <1>a DEF Differ
    <3>3. CASE i = j
      <4>1. IdPrecedes(s[m], t[m]) /\ IdPrecedes(t[m], u[m])
        BY <1>4, <3>3 DEF Differ
      <4> QED BY <4>1, <2>1, <1>b, <1>c, <1>d, IdOrder
    <3> QED BY <3>1, <3>2, <3>3
  <2> QED BY <2>1, <2>2, <2>3, <1>a, <1>3 DEF Differ
<1>5. ASSUME NEW i \in Nat, Differ(s, t, i), Prefix(t, u)
      PROVE  PrePrecedes(s, u)
  <2>1. Differ(s, u, i)
    BY <1>5, <1>a DEF Differ, Prefix
  <2> QED BY <2>1, <1>3
<1>6. ASSUME Prefix(s, t), NEW j \in Nat, Differ(t, u, j)
      PROVE  PrePrecedes(s, u)
  <2>1. CASE j <= Len(s)
    <3>1. Differ(s, u, j)
      BY <1>6, <2>1, <1>a DEF Differ, Prefix
    <3> QED BY <3>1, <1>3
  <2>2. CASE j > Len(s)
    <3>1. Prefix(s, u)
      BY <1>6, <2>2, <1>a DEF Differ, Prefix
    <3> QED BY <3>1 DEF PrePrecedes, Prefix
  <2> QED BY <2>1, <2>2, <1>a
<1>7. ASSUME Prefix(s, t), Prefix(t, u)
      PROVE  PrePrecedes(s, u)
  BY <1>7, <1>a DEF PrePrecedes, Prefix
<1> QED BY <1>1, <1>2, <1>4, <1>5, <1>6, <1>7

\* Two sequences of identifiers that differ differ at some first place, or in
\* length.
LEMMA PreTotal ==
  ASSUME NEW s \in Seq(Identifiers), NEW t \in Seq(Identifiers), s # t
  PROVE  PrePrecedes(s, t) \/ PrePrecedes(t, s)
<1> DEFINE D == {i \in DOMAIN s \cap DOMAIN t : s[i] # t[i]}
<1>a. /\ DOMAIN s = 1 .. Len(s) /\ DOMAIN t = 1 .. Len(t)
      /\ Len(s) \in Nat /\ Len(t) \in Nat
  OBVIOUS
<1>1. CASE D = {}
  <2>1. \A i \in 1 .. Len(s) : i \in 1 .. Len(t) => s[i] = t[i]
    BY <1>1, <1>a
  <2>2. Len(s) # Len(t)
    <3>1. ASSUME Len(s) = Len(t) PROVE s = t
      BY <2>1, <3>1
    <3> QED BY <3>1
  <2>3. CASE Len(s) < Len(t)
    BY <2>1, <2>3, <1>a DEF PrePrecedes
  <2>4. CASE Len(t) < Len(s)
    <3>1. \A j \in 1 .. Len(t) : t[j] = s[j]
      BY <2>1, <2>4, <1>a
    <3> QED BY <3>1, <2>4 DEF PrePrecedes
  <2>5. Len(s) < Len(t) \/ Len(t) < Len(s)
    <3>1. \A m, n \in Nat : m # n => m < n \/ n < m
      OBVIOUS
    <3> QED BY <2>2, <3>1, <1>a, Zenon
  <2> QED BY <2>3, <2>4, <2>5
<1>2. CASE D # {}
  <2>1. PICK i \in D : \A k \in D : i <= k
    <3>1. D \in SUBSET Nat
      BY <1>a
    <3> QED BY <3>1, <1>2, FirstOf
  <2>2. \A k \in 1 .. i - 1 : s[k] = t[k]
    BY <2>1, <1>a
  <2>3. s[i] \in Identifiers /\ t[i] \in Identifiers /\ s[i] # t[i]
    BY <2>1, <1>a
  <2>4. IdPrecedes(s[i], t[i]) \/ IdPrecedes(t[i], s[i])
    BY <2>3, IdOrder
  <2>5. i \in DOMAIN s \cap DOMAIN t
    BY <2>1
  <2>6. CASE IdPrecedes(s[i], t[i])
    BY <2>2, <2>5, <2>6 DEF PrePrecedes
  <2>7. CASE IdPrecedes(t[i], s[i])
    <3>1. \A k \in 1 .. i - 1 : t[k] = s[k]
      BY <2>2
    <3> QED BY <3>1, <2>5, <2>7 DEF PrePrecedes
  <2> QED BY <2>4, <2>6, <2>7
<1> QED BY <1>1, <1>2

-----------------------------------------------------------------------------
(* Versions.                                                               *)

\* compareVersions orders versions strictly (update.go 154-196): none precedes
\* itself, and one that follows a later one is later still. An update therefore
\* never leads round in a circle.
THEOREM StrictOrder ==
  ASSUME NEW a \in Parsed, NEW b \in Parsed, NEW c \in Parsed
  PROVE  /\ ~Precedes(a, a)
         /\ Precedes(a, b) /\ Precedes(b, c) => Precedes(a, c)
<1>1. /\ a.nums \in [1 .. 3 -> Nat] /\ b.nums \in [1 .. 3 -> Nat] /\ c.nums \in [1 .. 3 -> Nat]
      /\ a.pre \in Seq(Identifiers) /\ b.pre \in Seq(Identifiers) /\ c.pre \in Seq(Identifiers)
  BY DEF Parsed
<1>2. ~Precedes(a, a)
  BY <1>1, NumsOrder, PreIrreflexive DEF Precedes
<1>3. ASSUME Precedes(a, b), Precedes(b, c) PROVE Precedes(a, c)
  <2>1. CASE NumsPrecede(a.nums, b.nums) \/ NumsPrecede(b.nums, c.nums)
    <3>1. NumsPrecede(a.nums, c.nums)
      BY <1>1, <1>3, <2>1, NumsOrder DEF Precedes
    <3> QED BY <3>1 DEF Precedes
  <2>2. CASE ~NumsPrecede(a.nums, b.nums) /\ ~NumsPrecede(b.nums, c.nums)
    <3>1. /\ a.nums = c.nums /\ a.pre # <<>> /\ b.pre # <<>>
          /\ PrePrecedes(a.pre, b.pre) /\ (c.pre = <<>> \/ PrePrecedes(b.pre, c.pre))
      BY <1>3, <2>2 DEF Precedes
    <3> QED BY <3>1, <1>1, PreTransitive DEF Precedes
  <2> QED BY <2>1, <2>2
<1> QED BY <1>2, <1>3

\* Of two versions that differ one is newer, whatever kinds of identifiers they
\* have (update.go 154-196): an update never stops between two releases because
\* neither counts as newer.
THEOREM TotalOrder ==
  ASSUME NEW a \in Parsed, NEW b \in Parsed, a # b
  PROVE  Precedes(a, b) \/ Precedes(b, a)
<1>1. /\ a.nums \in [1 .. 3 -> Nat] /\ b.nums \in [1 .. 3 -> Nat]
      /\ a.pre \in Seq(Identifiers) /\ b.pre \in Seq(Identifiers)
      /\ a.nums # b.nums \/ a.pre # b.pre
  BY DEF Parsed
<1>2. CASE a.nums # b.nums
  BY <1>1, <1>2, NumsOrder DEF Precedes
<1>3. CASE a.nums = b.nums /\ (a.pre = <<>> \/ b.pre = <<>>)
  BY <1>1, <1>3 DEF Precedes
<1>4. CASE a.nums = b.nums /\ a.pre # <<>> /\ b.pre # <<>>
  BY <1>1, <1>4, PreTotal DEF Precedes
<1> QED BY <1>2, <1>3, <1>4

-----------------------------------------------------------------------------
(* Updates.                                                                *)

Preparing == {"open", "write", "check", "removeOld", "moveAway"}

\* The inductive invariant: one process updates at a time; its download goes to
\* exe.new; until it moves exe away there is a whole release in place, and until
\* the next one is moved in there is one under exe.old; what is moved in is the
\* release it checked, which is newer than its own.
OneUpdate == \A p, q \in Procs : pc[p] \in Applying /\ pc[q] \in Applying => p = q
ToNew     == \A p \in Procs : pc[p] = "write" => fd[p] = "new"
InPlace   == \A p \in Procs : pc[p] \in Preparing => exe \in Programs
Between   == \A p \in Procs :
               pc[p] \in {"moveIn", "moveBack"} => exe = Absent /\ old \in Programs
Whole     == exe \in Programs \/ (exe = Absent /\ old \in Programs)
Checked   == \A p \in Procs : pc[p] \in {"removeOld", "moveAway", "moveIn"} => new = latest[p]
Newer     == \A p \in Procs : pc[p] \in Preparing \cup {"moveIn"} =>
               latest[p] \in Numbers /\ IsNewer(Version(current[p]), Version(latest[p]))

Files == InPlace /\ Between /\ Whole /\ Checked
IInv  == TypeOK /\ OneUpdate /\ ToNew /\ Files /\ Newer

\* A host that begins with a whole executable and nobody updating it.
LEMMA Initially == Init => IInv
<1> SUFFICES ASSUME Init PROVE IInv
  OBVIOUS
<1>1. 1 \in Numbers
  <2>1. Len(Releases) # 0 /\ Len(Releases) \in Nat
    BY ReleasesAssumption, EmptySeq
  <2>2. DOMAIN Releases = 1 .. Len(Releases)
    BY ReleasesAssumption
  <2> QED BY <2>1, <2>2 DEF Numbers
<1> QED BY <1>1, FilesAssumption, BoundAssumption
        DEF Init, IInv, TypeOK, OneUpdate, ToNew, Files, InPlace, Between, Whole, Checked,
            Newer, Programs, Contents, Applying, Preparing

\* The count of mishaps stays a number.
LEMMA MishapCounts ==
  ASSUME mishaps \in 0 .. MaxMishaps, Mishap
  PROVE  mishaps' \in 0 .. MaxMishaps
  BY BoundAssumption DEF Mishap

\* What happens around Apply leaves the files of an update that is under way.
LEMMA Outside ==
  ASSUME IInv, ~Overlap,
         \/ Publish \/ Withdraw \/ Relaunch
         \/ \E p \in Procs : Launch(p) \/ Crash(p) \/ Check(p)
         \/ \E c \in Commands : CommandEnds(c)
  PROVE  IInv'
<1> USE DEF IInv, TypeOK, OneUpdate, ToNew, Files, InPlace, Between, Whole, Checked, Newer,
            Applying, Preparing, files, procs
<1>1. ASSUME Publish \/ Withdraw PROVE IInv'
  <2>1. published' \in Numbers
    BY <1>1, ReleasesAssumption DEF Publish, Withdraw, Numbers
  <2>2. mishaps' \in 0 .. MaxMishaps
    BY <1>1, MishapCounts DEF Publish, Withdraw
  <2> QED BY <1>1, <2>1, <2>2 DEF Publish, Withdraw
<1>2. ASSUME NEW ps \in SUBSET Procs, Ends(ps), mishaps' \in 0 .. MaxMishaps PROVE IInv'
  BY <1>2 DEF Ends
<1>3. ASSUME Relaunch PROVE IInv'
  BY <1>2, <1>3 DEF Relaunch, Procs
<1>4. ASSUME NEW p \in Procs, Launch(p) PROVE IInv'
  BY <1>4 DEF Launch, Goto
<1>5. ASSUME NEW p \in Procs, Crash(p) PROVE IInv'
  BY <1>2, <1>5, MishapCounts DEF Crash
<1>6. ASSUME NEW p \in Procs, Check(p) PROVE IInv'
  <2>1. \A q \in Procs : q # p => pc[q] \notin Applying
    BY <1>6 DEF Check, Alone
  <2>2. exe \in Programs
    BY <1>6 DEF Check
  <2>3. published \in Programs /\ published \in Numbers
    BY DEF Programs
  <2> QED BY <1>6, <2>1, <2>2, <2>3 DEF Check, Goto
<1>7. ASSUME NEW c \in Commands, CommandEnds(c) PROVE IInv'
  BY <1>2, <1>7, MishapCounts DEF CommandEnds, Procs
<1> QED BY <1>1, <1>3, <1>4, <1>5, <1>6, <1>7

\* A process that is updating is the only one, so that its step disturbs nobody.
LEMMA Inside ==
  ASSUME IInv, NEW p \in Procs, Apply(p) \/ WriteFails(p) \/ WriteDamaged(p)
  PROVE  IInv'
<1> USE DEF IInv, TypeOK, OneUpdate, ToNew, Files, InPlace, Between, Whole, Checked, Newer,
            Applying, Preparing, Goto, files, procs
<1>1. pc[p] \in Applying => \A q \in Procs : q # p => pc[q] \notin Applying
  OBVIOUS
<1>2. Absent \notin Programs /\ Partial \notin Programs /\ Numbers \subseteq Programs
  BY FilesAssumption DEF Programs
<1>3. {Absent, Partial} \cup Programs = Contents
  BY DEF Contents
<1>4. CASE Open(p)
  BY <1>1, <1>2, <1>3, <1>4 DEF Open
<1>5. CASE Write(p)
  <2>1. fd[p] = "new" /\ exe' = exe /\ old' = old /\ new' = Downloaded(p, new)
    BY <1>5 DEF Write
  <2>2. new' \in Contents
    BY <2>1, <1>2, <1>3 DEF Downloaded
  <2> QED BY <1>1, <1>5, <2>1, <2>2 DEF Write
<1>6. CASE WriteFails(p)
  BY <1>1, <1>6, MishapCounts DEF WriteFails
<1>7. CASE WriteDamaged(p)
  BY <1>1, <1>3, <1>7, MishapCounts DEF WriteDamaged
<1>8. CASE Verify(p)
  BY <1>1, <1>8 DEF Verify
<1>9. CASE RemoveOld(p)
  <2>1. mishaps' \in 0 .. MaxMishaps /\ old' \in {old, Absent}
    BY <1>9, MishapCounts DEF RemoveOld
  <2> QED BY <1>1, <1>3, <1>9, <2>1 DEF RemoveOld
<1>10. CASE MoveAway(p)
  <2>1. CASE /\ exe # Absent /\ old' = exe /\ exe' = Absent /\ Moved("exe", "old")
             /\ pc' = [pc EXCEPT ![p] = "moveIn"] /\ UNCHANGED mishaps
    <3>1. fd' \in [Procs -> {"none", "new", "exe", "old"}] /\ \A q \in Procs : fd'[q] # "none" => pc'[q] = "write"
      BY <1>1, <1>10, <2>1 DEF MoveAway, Moved
    <3>3. TypeOK'
      BY <1>1, <1>2, <1>3, <1>10, <2>1, <3>1 DEF MoveAway
    <3>4. OneUpdate' /\ ToNew'
      BY <1>1, <1>10, <2>1 DEF MoveAway
    <3>5. Files'
      BY <1>1, <1>2, <1>3, <1>10, <2>1, <3>1 DEF MoveAway
    <3>6. Newer'
      BY <1>1, <1>10, <2>1 DEF MoveAway
    <3> QED BY <3>3, <3>4, <3>5, <3>6
  <2>2. CASE /\ (exe = Absent /\ UNCHANGED mishaps) \/ Mishap
             /\ pc' = [pc EXCEPT ![p] = "failed"] /\ UNCHANGED <<exe, old, fd>>
    BY <1>1, <1>10, <2>2, MishapCounts DEF MoveAway
  <2> QED BY <1>10, <2>1, <2>2 DEF MoveAway
<1>11. CASE MoveIn(p)
  <2>1. CASE /\ new # Absent /\ exe' = new /\ new' = Absent /\ Moved("new", "exe")
             /\ pc' = [pc EXCEPT ![p] = "applied"] /\ UNCHANGED mishaps
    <3>1. fd' \in [Procs -> {"none", "new", "exe", "old"}] /\ \A q \in Procs : fd'[q] # "none" => pc'[q] = "write"
      BY <1>1, <1>11, <2>1 DEF MoveIn, Moved
    <3>2. exe' \in Programs
      BY <1>2, <1>11, <2>1 DEF MoveIn
    <3>3. TypeOK'
      BY <1>1, <1>2, <1>3, <1>11, <2>1, <3>1, <3>2 DEF MoveIn
    <3>4. OneUpdate' /\ ToNew'
      BY <1>1, <1>11, <2>1 DEF MoveIn
    <3>5. Files'
      BY <1>1, <1>2, <1>3, <1>11, <2>1, <3>1, <3>2 DEF MoveIn
    <3>6. Newer'
      BY <1>1, <1>11, <2>1 DEF MoveIn
    <3> QED BY <3>3, <3>4, <3>5, <3>6
  <2>2. CASE /\ (new = Absent /\ UNCHANGED mishaps) \/ Mishap
             /\ pc' = [pc EXCEPT ![p] = "moveBack"] /\ UNCHANGED <<exe, new, fd>>
    BY <1>1, <1>11, <2>2, MishapCounts DEF MoveIn
  <2> QED BY <1>11, <2>1, <2>2 DEF MoveIn
<1>12. CASE MoveBack(p)
  <2>1. CASE /\ old # Absent /\ exe' = old /\ old' = Absent /\ Moved("old", "exe") /\ UNCHANGED mishaps
    <3>1. fd' \in [Procs -> {"none", "new", "exe", "old"}] /\ \A q \in Procs : fd'[q] # "none" => pc'[q] = "write"
      BY <1>1, <1>12, <2>1 DEF MoveBack, Moved
    <3>3. TypeOK'
      BY <1>1, <1>2, <1>3, <1>12, <2>1, <3>1 DEF MoveBack
    <3>4. OneUpdate' /\ ToNew'
      BY <1>1, <1>12, <2>1 DEF MoveBack
    <3>5. Files'
      BY <1>1, <1>2, <1>3, <1>12, <2>1, <3>1 DEF MoveBack
    <3>6. Newer'
      BY <1>1, <1>12, <2>1 DEF MoveBack
    <3> QED BY <3>3, <3>4, <3>5, <3>6
  <2>2. CASE /\ (old = Absent /\ UNCHANGED mishaps) \/ Mishap
             /\ UNCHANGED <<exe, old, fd>>
    BY <1>1, <1>12, <2>2, MishapCounts DEF MoveBack
  <2> QED BY <1>12, <2>1, <2>2 DEF MoveBack
<1>13. CASE Cleanup(p)
  BY <1>1, <1>3, <1>13 DEF Cleanup
<1> QED BY <1>4, <1>5, <1>6, <1>7, <1>8, <1>9, <1>10, <1>11, <1>12, <1>13 DEF Apply

\* The files are kept in order whatever fails and wherever a process dies
\* (update.go 210-268), as long as updates take turns.
THEOREM Inductive ==
  ASSUME ~Overlap
  PROVE  Spec => []IInv
<1>1. IInv /\ [Next]_vars => IInv'
  <2> SUFFICES ASSUME IInv, [Next]_vars PROVE IInv'
    OBVIOUS
  <2>1. CASE Next
    BY <2>1, Inside, Outside DEF Next
  <2>2. CASE UNCHANGED vars
    BY <2>2 DEF vars, files, procs, IInv, TypeOK, OneUpdate, ToNew, Files, InPlace, Between,
                Whole, Checked, Newer
  <2> QED BY <2>1, <2>2
<1> QED BY <1>1, Initially, PTL DEF Spec

\* The types of the updater's state (update.go 206-268).
THEOREM TypeCorrect ==
  ASSUME ~Overlap
  PROVE  Spec => []TypeOK
<1>1. IInv => TypeOK
  BY DEF IInv
<1> QED BY <1>1, Inductive, PTL

\* Whatever fails and wherever a process dies, the host has a whole executable in
\* its place or under .old (update.go 258-266), as long as updates take turns.
THEOREM BinaryKept ==
  ASSUME ~Overlap
  PROVE  Spec => []KeepsABinary
<1>1. IInv => KeepsABinary
  BY DEF IInv, Files, Whole, KeepsABinary
<1> QED BY <1>1, Inductive, PTL

\* Nothing but a whole, verified release is ever put in place (update.go 247-253),
\* as long as updates take turns.
THEOREM VerifiedOnly ==
  ASSUME ~Overlap
  PROVE  Spec => []OnlyVerified
<1>1. IInv => OnlyVerified
  BY FilesAssumption DEF IInv, Files, Whole, OnlyVerified
<1> QED BY <1>1, Inductive, PTL

\* Releases were published in the order of their versions.
InOrder == \A i, j \in Numbers : i < j => Precedes(Releases[i], Releases[j])

\* A release that is newer was published later.
LEMMA NewerIsLater ==
  ASSUME InOrder, NEW m \in Numbers, NEW n \in Numbers, Precedes(Releases[m], Releases[n])
  PROVE  m < n
<1>1. Releases[m] \in Parsed /\ Releases[n] \in Parsed /\ m \in Nat /\ n \in Nat
  BY ReleasesAssumption DEF Numbers
<1>2. CASE m = n
  BY <1>1, <1>2, StrictOrder
<1>3. CASE n < m
  <2>1. Precedes(Releases[n], Releases[m])
    BY <1>3 DEF InOrder
  <2> QED BY <1>1, <2>1, StrictOrder
<1> QED BY <1>1, <1>2, <1>3

\* No update replaces a release by an older one, whatever the server calls the
\* latest and whatever kinds of version there are, if releases were published in
\* the order of their versions and updates take turns (update.go 95-109, 215).
THEOREM NoDowngrade ==
  ASSUME ~Overlap, InOrder
  PROVE  Spec => NeverDowngrades
<1> DEFINE Upgrades == \A p \in Procs, m, n \in Numbers :
                         /\ pc[p] = "moveIn" /\ pc'[p] = "applied"
                         /\ current[p] = m /\ old = m /\ exe' = n
                         => m < n
<1>1. IInv /\ IInv' /\ [Next]_vars => [Upgrades]_vars
  <2> SUFFICES ASSUME IInv, IInv', Next, NEW p \in Procs, NEW m \in Numbers, NEW n \in Numbers,
                      pc[p] = "moveIn", pc'[p] = "applied", current[p] = m, exe' = n
               PROVE  m < n
    OBVIOUS
  <2>1. exe' = new
    BY DEF Next, Publish, Withdraw, Launch, Crash, Check, Apply, Open, Write, Verify, RemoveOld,
           MoveAway, MoveIn, MoveBack, Cleanup, WriteFails, WriteDamaged, Relaunch, CommandEnds,
           Ends, Goto, files, procs, IInv, TypeOK, Applying, Procs
  <2>2. latest[p] = n /\ IsNewer(Version(m), Version(n))
    BY <2>1 DEF IInv, Files, Checked, Newer
  <2>3. Precedes(Releases[m], Releases[n])
    BY <2>2, FilesAssumption DEF IsNewer, Version
  <2> QED BY <2>3, NewerIsLater
<1> QED BY <1>1, Inductive, PTL DEF Spec, NeverDowngrades
=============================================================================
