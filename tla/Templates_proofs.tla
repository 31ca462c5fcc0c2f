-------------------------- MODULE Templates_proofs --------------------------
(***************************************************************************)
(* Proofs about templates.                                                 *)
(*                                                                         *)
(* TemplateReload, for any files, texts and number of edits.  A revision in *)
(* an entry was on the disk when it was read, so it is not newer than what  *)
(* a later reload reads: the watcher is one goroutine.  An entry that is     *)
(* behind its files has a reload to come.  What a template includes is       *)
(* defined by recursion, and is shown by induction to be what can be        *)
(* reached.                                                                *)
(*                                                                         *)
(* TemplateText, for texts of any length, by induction over positions: for  *)
(* tempJadeFix from the first one, the depth of its loop beside the meaning *)
(* of being within an action; for LocalizeTemplate from the last one, what  *)
(* it writes beside what is meant, as its loop jumps over keys; for           *)
(* parseTemplateIncludeDeps from the last one too, its two buffers beside    *)
(* the definitions and the text that are still to come.                     *)
(***************************************************************************)
EXTENDS TemplateReload, MCTexts, SequenceTheorems, FiniteSetTheorems, WellFoundedInduction,
        TLAPS

\* The types, in parts.
DiskTypes == /\ DOMAIN disk = Files /\ \A f \in Files : disk[f] \in Texts[f] \cup {Gone}
             /\ rev \in [Files -> 0..edits]
             /\ edits \in 0..MaxEdits
EventTypes == events \in Seq(Files) /\ resends \subseteq Watched
LoadTypes == /\ cur \in Watched \cup {Gone}
             /\ todo \in Seq(Includes)
             /\ got \subseteq Revisions
             /\ deps \subseteq Files
             /\ cur = Gone => todo = << >> /\ got = {} /\ deps = {}
SoundTypes == sound \in BOOLEAN
EntryTypes == templates \in [Watched -> [text : SUBSET Revisions, deps : SUBSET Files]]

LEMMA Types == TypeOK <=> DiskTypes /\ EventTypes /\ LoadTypes /\ SoundTypes /\ EntryTypes
  BY DEF TypeOK, DiskTypes, EventTypes, LoadTypes, SoundTypes, EntryTypes

LEMMA TypesNext == TypeOK' <=> DiskTypes' /\ EventTypes' /\ LoadTypes' /\ SoundTypes'
                              /\ EntryTypes'
  BY DEF TypeOK, DiskTypes, EventTypes, LoadTypes, SoundTypes, EntryTypes

\* No revision is newer than the file's; what is read is not older than what the
\* entry under reload has.
NotNewer(revs) == \A x \in revs : x[2] <= rev[x[1]]
Onwards == /\ \A t \in Watched : NotNewer(templates[t].text)
           /\ NotNewer(got)
           /\ cur # Gone => \A x \in got, y \in templates[cur].text :
                              y[1] = x[1] => y[2] <= x[2]

IInv == TypeOK /\ Onwards

\* What a text includes.
LEMMA TextTypes ==
  ASSUME DiskTypes, NEW i \in Includes, disk[i.file] # Gone
  PROVE  Targets(i) \in Seq(Includes) /\ disk[i.file].parses \in BOOLEAN
<1>1. i.file \in Files /\ i.rooted \in BOOLEAN
  BY DEF Includes
<1>2. disk[i.file] \in Texts[i.file]
  BY <1>1 DEF DiskTypes
<1>3. disk[i.file].includes \in Seq(Includes) /\ disk[i.file].parses \in BOOLEAN
  BY <1>1, <1>2, TemplateAssumption DEF TemplateAssumption
<1> DEFINE s == disk[i.file].includes
<1>4. Len(s) \in Nat /\ DOMAIN s = 1..Len(s) /\ \A k \in 1..Len(s) : s[k] \in Includes
  BY <1>3, LenProperties, ElementOfSeq
<1>5. \A k \in 1..Len(s) :
        [file |-> s[k].file, rooted |-> i.rooted \/ s[k].rooted] \in Includes
  BY <1>4 DEF Includes
<1>6. Targets(i) = [k \in 1..Len(s) |->
                      [file |-> s[k].file, rooted |-> i.rooted \/ s[k].rooted]]
  BY <1>4 DEF Targets
<1>q. QED  BY <1>3, <1>4, <1>5, <1>6, IsASeq

-----------------------------------------------------------------------------
(***************************************************************************)
(* What a template reaches through its partials: the levels of Reached are  *)
(* a recursive function, which exists because it can be built value by       *)
(* value, and which stops growing because there are finitely many includes. *)
(***************************************************************************)

Before == {p \in Nat \X Nat : p[1] < p[2]}

\* Induction over the numbers, for a set.
LEMMA AllNumbers ==
  ASSUME NEW S, 0 \in S, \A n \in Nat : n \in S => n + 1 \in S
  PROVE  \A n \in Nat : n \in S
<1> SUFFICES ASSUME NEW m \in Nat \ S PROVE FALSE
  OBVIOUS
<1>1. IsWellFoundedOn(Before, Nat)
  BY NatLessThanWellFounded DEF OpToRel, Before
<1>2. PICK i \in Nat \ S : \A j \in Nat \ S : ~ (<<j, i>> \in Before)
  BY <1>1, WFMin
<1>3. i - 1 \in Nat /\ i - 1 < i /\ i = (i - 1) + 1
  BY <1>2
<1>4. i - 1 \in S
  BY <1>2, <1>3 DEF Before
<1>q. QED  BY <1>2, <1>3, <1>4

LEMMA IncludesFinite == IsFiniteSet(Includes)
<1>1. IsFiniteSet(BOOLEAN)
  <2>1. BOOLEAN = {TRUE} \cup {FALSE}
    OBVIOUS
  <2>2. IsFiniteSet({TRUE}) /\ IsFiniteSet({FALSE})
    BY FS_Singleton
  <2>3. IsFiniteSet({TRUE} \cup {FALSE})
    BY <2>2, FS_Union
  <2>q. QED  BY <2>1, <2>3
<1>2. IsFiniteSet(Files \X BOOLEAN)
  BY <1>1, FS_Product, TemplateAssumption DEF TemplateAssumption
<1> DEFINE h == [p \in Files \X BOOLEAN |-> [file |-> p[1], rooted |-> p[2]]]
<1>3. h \in Surjection(Files \X BOOLEAN, Includes)
  <2>1. h \in [Files \X BOOLEAN -> Includes]
    BY DEF Includes
  <2>2. ASSUME NEW i \in Includes PROVE \E p \in Files \X BOOLEAN : h[p] = i
    <3>1. <<i.file, i.rooted>> \in Files \X BOOLEAN
      BY DEF Includes
    <3>2. h[<<i.file, i.rooted>>] = i
      BY <3>1 DEF Includes
    <3>q. QED  BY <3>1, <3>2
  <2>q. QED  BY <2>1, <2>2 DEF Surjection
<1>q. QED  BY <1>2, <1>3, FS_Surjection

Levels(f, n, g) == g = [m \in 0..n |-> IF m = 0 THEN {Root(f)} ELSE Spread(g[m - 1])]

LEMMA LevelsExist ==
  ASSUME NEW f, NEW n \in Nat
  PROVE  \E g : Levels(f, n, g)
<1> DEFINE S == {m \in Nat : \E g : Levels(f, m, g)}
<1>1. 0 \in S
  <2>1. Levels(f, 0, [m \in 0..0 |-> {Root(f)}])
    BY DEF Levels
  <2>q. QED  BY <2>1
<1>2. ASSUME NEW k \in Nat, k \in S PROVE k + 1 \in S
  <2>1. PICK g : Levels(f, k, g)
    BY <1>2
  <2> DEFINE h == [m \in 0..(k + 1) |-> IF m \in 0..k THEN g[m] ELSE Spread(g[k])]
  <2>2. \A m \in 0..k : g[m] = IF m = 0 THEN {Root(f)} ELSE Spread(g[m - 1])
    BY <2>1 DEF Levels
  <2>3. ASSUME NEW m \in 0..(k + 1)
        PROVE  h[m] = IF m = 0 THEN {Root(f)} ELSE Spread(h[m - 1])
    <3>1. CASE m = 0
      BY <2>2, <3>1
    <3>2. CASE m # 0 /\ m \in 0..k
      <4>1. m - 1 \in 0..k /\ h[m - 1] = g[m - 1] /\ h[m] = g[m]
        BY <3>2
      <4>q. QED  BY <2>2, <3>2, <4>1
    <3>3. CASE m = k + 1
      <4>1. m - 1 = k /\ h[m - 1] = g[k] /\ h[m] = Spread(g[k]) /\ m # 0
        BY <3>3
      <4>q. QED  BY <4>1
    <3>q. QED  BY <3>1, <3>2, <3>3
  <2>4. h = [m \in 0..(k + 1) |-> IF m = 0 THEN {Root(f)} ELSE Spread(h[m - 1])]
    BY <2>3
  <2>5. Levels(f, k + 1, h)
    BY <2>4 DEF Levels
  <2> HIDE DEF h
  <2>q. QED  BY <2>5
<1> HIDE DEF S
<1>3. n \in S
  BY <1>1, <1>2, AllNumbers
<1>q. QED  BY <1>3 DEF S

\* Reached, by its levels.
LEMMA ReachedIs ==
  ASSUME NEW f
  PROVE  \E L : /\ Reached(f) = L[Cardinality(Includes)]
                /\ L[0] = {Root(f)}
                /\ \A n \in 0..Cardinality(Includes) : n # 0 => L[n] = Spread(L[n - 1])
<1> DEFINE N == Cardinality(Includes)
           L == CHOOSE g : g = [n \in 0..N |-> IF n = 0 THEN {Root(f)} ELSE Spread(g[n - 1])]
<1>1. N \in Nat
  BY IncludesFinite, FS_CardinalityType
<1>2. L = [n \in 0..N |-> IF n = 0 THEN {Root(f)} ELSE Spread(L[n - 1])]
  BY <1>1, LevelsExist DEF Levels
<1>3. Reached(f) = L[N]
  BY DEF Reached
<1> HIDE DEF L
<1>4. L[0] = {Root(f)} /\ \A n \in 0..N : n # 0 => L[n] = Spread(L[n - 1])
  BY <1>1, <1>2
<1>q. QED  BY <1>3, <1>4

\* A set of includes to which its own partials add nothing.
Complete(S) == \A i \in S : disk[i.file] # Gone =>
               \A k \in DOMAIN Targets(i) : Targets(i)[k] \in S

LEMMA SpreadAdds ==
  ASSUME DiskTypes, NEW S \in SUBSET Includes
  PROVE  /\ Spread(S) \in SUBSET Includes
         /\ S \subseteq Spread(S)
         /\ Complete(S) <=> Spread(S) = S
<1>1. \A i \in S : disk[i.file] # Gone => \A k \in DOMAIN Targets(i) : Targets(i)[k] \in Includes
  BY TextTypes, ElementOfSeq, LenProperties
<1>q. QED  BY <1>1 DEF Spread, Complete

\* Reached(f) is the least closed set with f in it.
ReachedIsLeast ==
  \A f \in Files :
    /\ Reached(f) \subseteq Includes /\ Root(f) \in Reached(f) /\ Complete(Reached(f))
    /\ \A S : Root(f) \in S /\ Complete(S) => Reached(f) \subseteq S

LEMMA Reaches == DiskTypes => ReachedIsLeast
<1> SUFFICES ASSUME DiskTypes, NEW f \in Files
             PROVE  /\ Reached(f) \subseteq Includes /\ Root(f) \in Reached(f)
                    /\ Complete(Reached(f))
                    /\ \A S : Root(f) \in S /\ Complete(S) => Reached(f) \subseteq S
  BY DEF ReachedIsLeast
<1> DEFINE N == Cardinality(Includes)
<1>1. N \in Nat
  BY IncludesFinite, FS_CardinalityType
<1>2. PICK L : /\ Reached(f) = L[N] /\ L[0] = {Root(f)}
               /\ \A n \in 0..N : n # 0 => L[n] = Spread(L[n - 1])
  BY ReachedIs
<1>3. \A n \in Nat : n + 1 <= N => L[n + 1] = Spread(L[n])
  <2> SUFFICES ASSUME NEW n \in Nat, n + 1 <= N PROVE L[n + 1] = Spread(L[n])
    OBVIOUS
  <2>1. n + 1 \in 0..N /\ n + 1 # 0 /\ (n + 1) - 1 = n
    BY <1>1
  <2>q. QED  BY <1>2, <2>1
<1> HIDE DEF N
<1>4. Root(f) \in Includes
  BY DEF Root, Includes
<1>5. \A n \in Nat : n <= N => /\ L[n] \in SUBSET Includes /\ Root(f) \in L[n]
                               /\ Complete(L[n]) \/ n < Cardinality(L[n])
  <2> DEFINE P(n) == /\ L[n] \in SUBSET Includes /\ Root(f) \in L[n]
                     /\ Complete(L[n]) \/ n < Cardinality(L[n])
             A == {n \in Nat : n <= N => P(n)}
  <2>1. 0 \in A
    <3>1. Cardinality({Root(f)}) = 1
      BY FS_Singleton
    <3>q. QED  BY <1>2, <1>4, <3>1
  <2>2. ASSUME NEW n \in Nat, n \in A PROVE n + 1 \in A
    <3> SUFFICES ASSUME n + 1 <= N PROVE P(n + 1)
      OBVIOUS
    <3>1. P(n)
      BY <1>1, <2>2
    <3>2. L[n + 1] = Spread(L[n])
      BY <1>3
    <3>3. L[n + 1] \in SUBSET Includes /\ L[n] \subseteq L[n + 1]
      BY <3>1, <3>2, SpreadAdds
    <3>4. CASE Complete(L[n])
      BY <3>1, <3>2, <3>3, <3>4, SpreadAdds
    <3>5. CASE ~Complete(L[n])
      <4>1. L[n + 1] # L[n] /\ n < Cardinality(L[n])
        BY <3>1, <3>2, <3>5, SpreadAdds
      <4>2. IsFiniteSet(L[n + 1])
        BY <3>3, IncludesFinite, FS_Subset
      <4>3. IsFiniteSet(L[n]) /\ Cardinality(L[n]) <= Cardinality(L[n + 1])
            /\ Cardinality(L[n]) # Cardinality(L[n + 1])
        BY <3>3, <4>1, <4>2, FS_Subset
      <4>4. Cardinality(L[n]) \in Nat /\ Cardinality(L[n + 1]) \in Nat
        BY <4>2, <4>3, FS_CardinalityType
      <4>5. n + 1 < Cardinality(L[n + 1])
        BY <4>1, <4>3, <4>4
      <4>q. QED  BY <3>1, <3>3, <4>5
    <3>q. QED  BY <3>4, <3>5
  <2> HIDE DEF A
  <2>3. \A n \in Nat : n \in A
    BY <2>1, <2>2, AllNumbers
  <2>q. QED  BY <2>3 DEF A
<1>6. L[N] \in SUBSET Includes /\ Root(f) \in L[N] /\ (Complete(L[N]) \/ N < Cardinality(L[N]))
  <2>1. N <= N
    BY <1>1
  <2>q. QED  BY <1>1, <1>5, <2>1
<1>7. Complete(L[N])
  <2>1. Cardinality(L[N]) <= N /\ Cardinality(L[N]) \in Nat
    BY <1>6, IncludesFinite, FS_Subset, FS_CardinalityType DEF N
  <2>q. QED  BY <1>1, <1>6, <2>1
<1>8. ASSUME NEW S, Root(f) \in S, Complete(S) PROVE L[N] \subseteq S
  <2> DEFINE A == {n \in Nat : n <= N => L[n] \subseteq S}
  <2>1. 0 \in A
    BY <1>2, <1>8
  <2>2. ASSUME NEW n \in Nat, n \in A PROVE n + 1 \in A
    <3> SUFFICES ASSUME n + 1 <= N PROVE L[n + 1] \subseteq S
      OBVIOUS
    <3>1. L[n] \subseteq S
      BY <1>1, <2>2
    <3>2. Spread(L[n]) \subseteq S
      BY <1>8, <3>1 DEF Spread, Complete
    <3>q. QED  BY <1>3, <3>2
  <2> HIDE DEF A
  <2>3. N \in A
    BY <1>1, <2>1, <2>2, AllNumbers
  <2>q. QED  BY <1>1, <2>3 DEF A
<1>q. QED  BY <1>2, <1>6, <1>7, <1>8 DEF N

LEMMA ReachesNext == DiskTypes' => ReachedIsLeast'
  BY Reaches, PTL
-----------------------------------------------------------------------------
LEMMA InitInv == Init => IInv
<1> SUFFICES ASSUME Init PROVE IInv
  OBVIOUS
<1>1. DiskTypes
  BY TemplateAssumption DEF Init, DiskTypes, TemplateAssumption
<1>2. EventTypes /\ SoundTypes
  BY DEF Init, EventTypes, SoundTypes
<1>3. LoadTypes
  BY DEF Init, LoadTypes
<1>4. \A f \in Watched : Text(f) \subseteq Revisions /\ Listed(f) \subseteq Files
  <2>1. \A g \in Files : rev[g] = 0 /\ 0 \in 0..MaxEdits
    BY TemplateAssumption DEF Init, TemplateAssumption
  <2>q. QED  BY <2>1 DEF Text, Parts, Listed, Revisions
<1>5. EntryTypes
  BY <1>4 DEF Init, EntryTypes, NoEntry
<1>6. Onwards
  <2>1. NotNewer(got) /\ cur = Gone
    BY DEF Init, NotNewer
  <2>2. ASSUME NEW t \in Watched PROVE NotNewer(templates[t].text)
    <3>1. templates[t].text \in {{}, Text(t)}
      BY DEF Init, NoEntry
    <3>2. \A x \in Text(t) : x[1] \in Files /\ x[2] = rev[x[1]] /\ rev[x[1]] = 0
      BY DEF Text, Parts, Init
    <3>q. QED  BY <3>1, <3>2 DEF NotNewer
  <2>q. QED  BY <2>1, <2>2 DEF Onwards
<1>q. QED  BY <1>1, <1>2, <1>3, <1>5, <1>6, Types DEF IInv

-----------------------------------------------------------------------------
\* The steps.
LEMMA EditStep ==
  ASSUME IInv, NEW f \in Files, NEW x \in Texts[f] \cup {Gone},
         edits < MaxEdits, edits' = edits + 1,
         disk' = [disk EXCEPT ![f] = x], rev' = [rev EXCEPT ![f] = edits + 1],
         events' \in Seq(Files), UNCHANGED <<resends, load, templates>>
  PROVE  IInv'
<1>0. DiskTypes /\ EventTypes /\ LoadTypes /\ SoundTypes /\ EntryTypes
  BY Types DEF IInv
<1>1. DiskTypes'
  <2>1. edits \in Nat /\ edits' \in 0..MaxEdits /\ \A g \in Files : rev[g] \in 0..edits
    BY <1>0, TemplateAssumption DEF DiskTypes, TemplateAssumption
  <2>2. \A g \in Files : rev'[g] \in 0..edits'
    BY <1>0, <2>1 DEF DiskTypes
  <2>3. \A g \in Files : disk'[g] \in Texts[g] \cup {Gone}
    BY <1>0 DEF DiskTypes
  <2>4. rev' \in [Files -> 0..edits']
    BY <1>0, <2>2 DEF DiskTypes
  <2>q. QED  BY <1>0, <2>1, <2>3, <2>4 DEF DiskTypes
<1>2. EventTypes' /\ LoadTypes' /\ SoundTypes' /\ EntryTypes'
  BY <1>0 DEF EventTypes, LoadTypes, SoundTypes, EntryTypes, load
<1>3. \A g \in Files : rev[g] \in Nat /\ rev'[g] \in Nat /\ rev[g] <= rev'[g]
  <2>1. edits \in Nat /\ rev \in [Files -> 0..edits]
    BY <1>0 DEF DiskTypes
  <2>q. QED  BY <2>1
<1>4. ASSUME NEW revs \in SUBSET Revisions, NotNewer(revs)
      PROVE  \A y \in revs : y[2] <= rev'[y[1]]
  <2>1. \A y \in revs : y[1] \in Files /\ y[2] \in Nat /\ y[2] <= rev[y[1]]
    BY <1>4, TemplateAssumption DEF Revisions, NotNewer, TemplateAssumption
  <2>q. QED  BY <1>3, <2>1
<1>5. UNCHANGED <<cur, got, templates>>
  BY DEF load
<1>6. \A t \in Watched : templates[t].text \in SUBSET Revisions
  BY <1>0 DEF EntryTypes
<1>7. \A t \in Watched : \A y \in templates[t].text : y[2] <= rev'[y[1]]
  BY <1>4, <1>6 DEF IInv, Onwards
<1>8. \A y \in got : y[2] <= rev'[y[1]]
  BY <1>0, <1>4 DEF IInv, Onwards, LoadTypes
<1>9. Onwards'
  BY <1>5, <1>7, <1>8 DEF IInv, Onwards, NotNewer
<1>q. QED  BY <1>1, <1>2, <1>9, TypesNext DEF IInv

LEMMA StartStep ==
  ASSUME IInv, NEW f \in Files, cur = Gone, StartOn(f),
         events' \in Seq(Files), resends' \subseteq Watched,
         UNCHANGED <<files, templates>>
  PROVE  IInv'
<1>0. DiskTypes /\ EventTypes /\ LoadTypes /\ SoundTypes /\ EntryTypes
  BY Types DEF IInv
<1>1. Root(f) \in Includes /\ <<Root(f)>> \in Seq(Includes)
  BY DEF Root, Includes
<1>2. DiskTypes' /\ EventTypes' /\ SoundTypes' /\ EntryTypes'
  BY <1>0 DEF DiskTypes, EventTypes, SoundTypes, EntryTypes, files, load, StartOn
<1>3. got = {} /\ got' = {} /\ LoadTypes'
  BY <1>0, <1>1, TemplateAssumption DEF LoadTypes, StartOn, load, TemplateAssumption
<1>4. Onwards'
  BY <1>3 DEF IInv, Onwards, NotNewer, files
<1>q. QED  BY <1>2, <1>3, <1>4, TypesNext DEF IInv

LEMMA IdleStep ==
  ASSUME IInv, Idle, UNCHANGED <<files, events, resends, templates>>
  PROVE  IInv'
<1>0. DiskTypes /\ EventTypes /\ LoadTypes /\ SoundTypes /\ EntryTypes
  BY Types DEF IInv
<1>1. << >> \in Seq(Includes)
  OBVIOUS
<1>2. DiskTypes' /\ EventTypes' /\ LoadTypes' /\ SoundTypes' /\ EntryTypes'
  BY <1>0, <1>1 DEF DiskTypes, EventTypes, LoadTypes, SoundTypes, EntryTypes, files, Idle
<1>3. Onwards'
  BY DEF IInv, Onwards, NotNewer, files, Idle
<1>q. QED  BY <1>2, <1>3, TypesNext DEF IInv

LEMMA ReadStep ==
  ASSUME IInv, Read PROVE IInv'
<1>0. DiskTypes /\ EventTypes /\ LoadTypes /\ SoundTypes /\ EntryTypes
  BY Types DEF IInv
<1> DEFINE i == Head(todo)
           f == i.file
<1>1. todo # << >> /\ todo \in Seq(Includes) /\ cur # Gone /\ cur \in Watched
  BY <1>0 DEF Read, LoadTypes
<1>2. i \in Includes /\ Tail(todo) \in Seq(Includes) /\ f \in Files
  <2>1. i \in Includes /\ Tail(todo) \in Seq(Includes)
    BY <1>1, HeadTailProperties
  <2>q. QED  BY <2>1 DEF Includes
<1>3. CASE disk[f] = Gone
  BY <1>3, IdleStep DEF Read
<1>4. CASE disk[f] # Gone
  <2>1. /\ todo' = Targets(i) \o Tail(todo)
        /\ got' = got \cup {<<f, rev[f]>>}
        /\ deps' = (IF f = cur THEN deps ELSE deps \cup Noted(i))
        /\ sound' = (sound /\ disk[f].parses)
        /\ UNCHANGED <<cur, files, events, resends, templates>>
    BY <1>4 DEF Read
  <2>2. Targets(i) \in Seq(Includes) /\ disk[f].parses \in BOOLEAN
    BY <1>0, <1>2, <1>4, TextTypes
  <2>3. todo' \in Seq(Includes)
    BY <1>2, <2>1, <2>2, ConcatProperties
  <2>4. rev[f] \in 0..MaxEdits /\ <<f, rev[f]>> \in Revisions
    <3>1. edits \in 0..MaxEdits /\ rev[f] \in 0..edits
      BY <1>0, <1>2 DEF DiskTypes
    <3>q. QED  BY <1>2, <3>1, TemplateAssumption DEF Revisions, TemplateAssumption
  <2>5. deps' \subseteq Files
    BY <1>0, <1>2, <2>1 DEF LoadTypes, Noted
  <2>6. LoadTypes'
    BY <1>0, <1>1, <2>1, <2>3, <2>4, <2>5 DEF LoadTypes
  <2>7. DiskTypes' /\ EventTypes' /\ SoundTypes' /\ EntryTypes'
    BY <1>0, <2>1, <2>2 DEF DiskTypes, EventTypes, SoundTypes, EntryTypes, files
  <2>8. Onwards'
    <3>1. \A y \in got : y[2] <= rev[y[1]]
      BY DEF IInv, Onwards, NotNewer
    <3>2. \A y \in templates[cur].text : y[2] <= rev[y[1]]
      BY <1>1 DEF IInv, Onwards, NotNewer
    <3>3. \A x \in got, y \in templates[cur].text : y[1] = x[1] => y[2] <= x[2]
      BY <1>1 DEF IInv, Onwards
    <3>4. \A y \in got' : y[2] <= rev[y[1]]
      BY <2>1, <2>4, <3>1
    <3>5. \A x \in got', y \in templates[cur].text : y[1] = x[1] => y[2] <= x[2]
      BY <2>1, <2>4, <3>2, <3>3
    <3>6. UNCHANGED <<rev, cur, templates>>
      BY <2>1 DEF files
    <3>q. QED  BY <3>4, <3>5, <3>6 DEF IInv, Onwards, NotNewer
  <2>q. QED  BY <2>6, <2>7, <2>8, TypesNext DEF IInv
<1>q. QED  BY <1>3, <1>4

LEMMA StoreStep ==
  ASSUME IInv, Store PROVE IInv'
<1>0. DiskTypes /\ EventTypes /\ LoadTypes /\ SoundTypes /\ EntryTypes
  BY Types DEF IInv
<1>1. /\ cur \in Watched /\ cur' = Gone /\ todo' = << >> /\ got' = {} /\ deps' = {}
      /\ sound' = TRUE
      /\ templates' = [templates EXCEPT ![cur] = [text |-> got, deps |-> deps]]
      /\ resends' \subseteq Watched /\ UNCHANGED <<disk, rev, edits, events>>
  BY <1>0 DEF Store, Idle, EventTypes, LoadTypes, files
<1>2. << >> \in Seq(Includes)
  OBVIOUS
<1>3. DiskTypes' /\ EventTypes' /\ LoadTypes' /\ SoundTypes'
  BY <1>0, <1>1, <1>2 DEF DiskTypes, EventTypes, LoadTypes, SoundTypes
<1>4. EntryTypes'
  BY <1>0, <1>1 DEF EntryTypes, LoadTypes
<1>5. \A t \in Watched : templates'[t] =
          IF t = cur THEN [text |-> got, deps |-> deps] ELSE templates[t]
  BY <1>0, <1>1 DEF EntryTypes
<1>6. Onwards'
  <2>1. ASSUME NEW t \in Watched PROVE \A y \in templates'[t].text : y[2] <= rev[y[1]]
    BY <1>5 DEF IInv, Onwards, NotNewer
  <2>q. QED  BY <1>1, <2>1 DEF Onwards, NotNewer
<1>q. QED  BY <1>3, <1>4, <1>6, TypesNext DEF IInv

LEMMA StepInv == IInv /\ [Next]_vars => IInv'
<1> SUFFICES ASSUME IInv, [Next]_vars PROVE IInv'
  OBVIOUS
<1>0. EventTypes /\ LoadTypes /\ Watched \subseteq Files
  BY Types, TemplateAssumption DEF IInv, TemplateAssumption
<1>1. ASSUME NEW f \in Files, Unlink(f) PROVE IInv'
  BY <1>0, <1>1, EditStep DEF Unlink, EventTypes
<1>2. ASSUME NEW f \in Files, NEW x \in Texts[f], Write(f, x) PROVE IInv'
  <2>1. events' \in Seq(Files)
    BY <1>0, <1>2 DEF Write, EventTypes
  <2>q. QED  BY <1>2, <2>1, EditStep DEF Write
<1>3. CASE Receive
  <2>1. Head(events) \in Files /\ Tail(events) \in Seq(Files)
    BY <1>0, <1>3, HeadTailProperties DEF Receive, EventTypes
  <2>q. QED  BY <1>0, <1>3, <2>1, StartStep DEF Receive, EventTypes
<1>4. ASSUME NEW f \in Files, ReceiveResent(f) PROVE IInv'
  BY <1>0, <1>4, StartStep DEF ReceiveResent, EventTypes
<1>5. CASE Read
  BY <1>5, ReadStep
<1>6. CASE Reject
  BY <1>6, IdleStep DEF Reject
<1>7. CASE Store
  BY <1>7, StoreStep
<1>8. CASE UNCHANGED vars
  BY <1>8 DEF vars, files, load, IInv, TypeOK, Onwards, NotNewer
<1>q. QED
  BY <1>1, <1>2, <1>3, <1>4, <1>5, <1>6, <1>7, <1>8 DEF Next, Reload

LEMMA Invariant == Spec => []IInv
<1>1. QED  BY InitInv, StepInv, PTL DEF Spec

-----------------------------------------------------------------------------
\* Every variable keeps its type; while nothing is being reloaded nothing has been
\* read (App.go:707-800).
THEOREM TypeCorrect == Spec => []TypeOK
<1>1. IInv => TypeOK
  BY DEF IInv
<1>q. QED  BY Invariant, <1>1, PTL

\* What parseTemplateIncludeDeps can reach from a template, at any depth and
\* through partials that include each other, is the least set that contains the
\* template and the partials of its members (templateutils.go:33-72).
THEOREM ReachedIsExact == Spec => []ReachedIsLeast
<1>1. IInv => ReachedIsLeast
  BY Types, Reaches DEF IInv
<1>q. QED  BY Invariant, <1>1, PTL

\* Whatever is edited, and between which reads, a reload of the watcher
\* (App.go:718-753) never puts a revision into a template that is older than the one
\* it replaces.
THEOREM ReloadsGoForward == Spec => NeverOlder
<1>1. IInv /\ [Next]_vars =>
        [\A t \in Watched, g \in Files :
           templates'[t] # templates[t] =>
             \A r \in Revs(t, g), q \in Revs(t, g)' : q >= r]_vars
  <2> SUFFICES ASSUME IInv, Next, NEW t \in Watched, NEW g \in Files,
                      templates'[t] # templates[t],
                      NEW r \in Revs(t, g), NEW q \in Revs(t, g)'
               PROVE  q >= r
    OBVIOUS
  <2>0. LoadTypes /\ EntryTypes
    BY Types DEF IInv
  <2>1. Store
    BY DEF Next, Reload, Unlink, Write, Receive, ReceiveResent, Read, Reject
  <2>2. /\ cur \in Watched /\ cur # Gone
        /\ templates' = [templates EXCEPT ![cur] = [text |-> got, deps |-> deps]]
    BY <2>0, <2>1 DEF Store, LoadTypes
  <2>3. t = cur /\ templates'[t].text = got
    BY <2>0, <2>2 DEF EntryTypes
  <2>4. <<g, r>> \in templates[cur].text /\ <<g, q>> \in got /\ r \in Nat /\ q \in Nat
    BY <2>3 DEF Revs
  <2>5. r <= q
    BY <2>2, <2>4 DEF IInv, Onwards
  <2>q. QED  BY <2>4, <2>5
<1>q. QED  BY Invariant, <1>1, PTL DEF Spec, NeverOlder
-----------------------------------------------------------------------------
(***************************************************************************)
(* No update is lost.  An entry that is behind its files has a reload to     *)
(* come: an event waits for one of the files it is made of, or the reload    *)
(* under way is of such a file and will not fail.  It is stored then, and    *)
(* sends an event to whoever lists it.                                       *)
(***************************************************************************)

LEMMA PartsOfPart ==
  ASSUME ReachedIsLeast, NEW f \in Files, NEW g \in Parts(f)
  PROVE  Parts(g) \subseteq Parts(f)
<1> DEFINE S == {i \in Includes : i.file \in Parts(f)}
<1>1. g \in Files /\ Root(g) \in S
  BY DEF Root, Includes, Parts
<1>2. ASSUME NEW i \in S, disk[i.file] # Gone, NEW k \in DOMAIN Targets(i)
      PROVE  Targets(i)[k] \in S
  <2>1. PICK j \in Reached(f) : j.file = i.file
    BY DEF Parts
  <2>2. k \in DOMAIN Targets(j) /\ Targets(j)[k].file = Targets(i)[k].file
    BY <1>2, <2>1 DEF Targets
  <2>3. Targets(j)[k] \in Reached(f)
    BY <1>2, <2>1, <2>2 DEF ReachedIsLeast, Complete
  <2>4. Targets(j)[k] \in Includes
    BY <2>3 DEF ReachedIsLeast
  <2>5. Targets(j)[k].file \in Parts(f)
    BY <2>3, <2>4 DEF Parts, Includes
  <2>6. Targets(i)[k] \in Includes
    <3>1. Targets(i)[k] = [file |-> disk[i.file].includes[k].file,
                           rooted |-> i.rooted \/ disk[i.file].includes[k].rooted]
      BY <1>2 DEF Targets
    <3>q. QED  BY <2>2, <2>4, <3>1 DEF Includes
  <2>q. QED  BY <2>2, <2>5, <2>6
<1>3. Complete(S)
  BY <1>2 DEF Complete
<1>4. Reached(g) \subseteq S
  BY <1>1, <1>3 DEF ReachedIsLeast
<1>q. QED  BY <1>4 DEF Parts

\* A set that is closed stays so when none of its files changes.
LEMMA CompleteStays ==
  ASSUME NEW S \in SUBSET Includes, \A i \in S : disk'[i.file] = disk[i.file]
  PROVE  Complete(S)' <=> Complete(S)
<1>1. \A i \in S : DOMAIN Targets(i)' = DOMAIN Targets(i)
               /\ \A k \in DOMAIN Targets(i) : Targets(i)'[k] = Targets(i)[k]
  BY DEF Targets
<1>q. QED  BY <1>1 DEF Complete

\* What a template reaches stays the same when none of it is edited: of what it
\* reached before the edit, or of what it reaches after it.
LEMMA Unaffected ==
  ASSUME ReachedIsLeast, ReachedIsLeast', NEW f \in Files,
         \/ \A g \in Parts(f) : disk'[g] = disk[g]
         \/ \A g \in Parts(f)' : disk'[g] = disk[g]
  PROVE  Reached(f)' = Reached(f) /\ Parts(f)' = Parts(f)
<1>0. Reached(f) \subseteq Includes /\ Reached(f)' \subseteq Includes
  BY DEF ReachedIsLeast
<1>1. Root(f)' = Root(f)
  BY DEF Root
<1>2. /\ \A i \in Reached(f) : i.file \in Parts(f)
      /\ \A i \in Reached(f)' : i.file \in Parts(f)'
  BY <1>0 DEF Parts, Includes
<1>3. PICK R, Q : R = Reached(f) /\ Q = Reached(f)'
  OBVIOUS
<1>4. /\ R \in SUBSET Includes /\ Root(f) \in R /\ Complete(R)
      /\ \A S : Root(f) \in S /\ Complete(S) => R \subseteq S
  BY <1>3 DEF ReachedIsLeast
<1>5. /\ Q \in SUBSET Includes /\ Root(f) \in Q /\ Complete(Q)'
      /\ \A S : Root(f) \in S /\ Complete(S)' => Q \subseteq S
  BY <1>1, <1>3 DEF ReachedIsLeast
<1>6. ASSUME \A g \in Parts(f) : disk'[g] = disk[g] PROVE R = Q
  <2>1. \A i \in R : disk'[i.file] = disk[i.file]
    BY <1>2, <1>3, <1>6
  <2>2. Q \subseteq R
    BY <1>4, <1>5, <2>1, CompleteStays
  <2>3. Complete(Q)
    BY <1>4, <1>5, <2>1, <2>2, CompleteStays
  <2>q. QED  BY <1>4, <1>5, <2>2, <2>3
<1>7. ASSUME \A g \in Parts(f)' : disk'[g] = disk[g] PROVE R = Q
  <2>1. \A i \in Q : disk'[i.file] = disk[i.file]
    BY <1>2, <1>3, <1>7
  <2>2. R \subseteq Q
    BY <1>4, <1>5, <2>1, CompleteStays
  <2>3. Complete(R)'
    BY <1>4, <1>5, <2>1, <2>2, CompleteStays
  <2>q. QED  BY <1>4, <1>5, <2>2, <2>3
<1>8. Reached(f)' = Reached(f)
  BY <1>3, <1>6, <1>7
<1>q. QED  BY <1>8 DEF Parts
-----------------------------------------------------------------------------
Queued(f) == \E k \in DOMAIN events : events[k] = f

\* The reload under way will be stored.
Succeeds == sound /\ \A k \in DOMAIN todo : todo[k] \in Reached(cur)

\* A reload of f is to come that will be stored if all that f includes is there.
Pending(f) == Queued(f) \/ f \in resends \/ (cur = f /\ Succeeds)

\* An entry that ParentsFollowPartials will not have when the watcher is at rest.
Behind(t) == Loadable(t) /\ Shown(t) = Parts(t) /\ Parts(t) \subseteq Watched /\ ~Fresh(t)
Follows == \A t \in Watched : Behind(t) => \E g \in Parts(t) : Pending(g)

\* While a reload runs no event is received: what it read is what is there, or the
\* edit that has changed it since waits in the queue.
ReadsCurrent == \A x \in got : rev[x[1]] = x[2] \/ Queued(x[1]) \/ disk[x[1]] = Gone

\* An entry lists what it was made of; so does the reload under way.
Lists == /\ \A t \in Watched : Shown(t) \ {t} \subseteq templates[t].deps
         /\ {x[1] : x \in got} \ {cur} \subseteq deps
Rested == cur = Gone => sound

FInv == AbsoluteNames /\ IInv /\ ReachedIsLeast /\ ReadsCurrent /\ Lists /\ Rested /\ Follows

LEMMA InitFollows == AbsoluteNames /\ Init => FInv
<1> SUFFICES ASSUME AbsoluteNames, Init PROVE FInv
  OBVIOUS
<1>1. IInv /\ ReachedIsLeast
  BY InitInv, Reaches, Types DEF IInv
<1>2. got = {} /\ sound = TRUE
  BY DEF Init
<1>3. \A t \in Watched : templates[t] = NoEntry \/ templates[t] = [text |-> Text(t), deps |-> Listed(t)]
  BY DEF Init
<1>4. ASSUME NEW t \in Watched PROVE Shown(t) \ {t} \subseteq templates[t].deps
  <2>1. CASE templates[t] = NoEntry
    BY <2>1 DEF NoEntry, Shown
  <2>2. CASE templates[t] = [text |-> Text(t), deps |-> Listed(t)]
    <3>1. Shown(t) = Parts(t)
      <4>1. templates[t].text = {<<g, rev[g]>> : g \in Parts(t)}
        BY <2>2 DEF Text
      <4>2. ASSUME NEW g \in Parts(t) PROVE g \in Shown(t)
        <5>1. <<g, rev[g]>> \in templates[t].text /\ <<g, rev[g]>>[1] = g
          BY <4>1
        <5>q. QED  BY <5>1 DEF Shown
      <4>q. QED  BY <4>1, <4>2 DEF Shown
    <3>2. ASSUME NEW g \in Parts(t), g # t PROVE g \in Listed(t)
      BY <3>2 DEF Parts, Listed, Noted, Root
    <3>q. QED  BY <2>2, <3>1, <3>2
  <2>q. QED  BY <1>3, <2>1, <2>2
<1>5. ASSUME NEW t \in Watched, Behind(t) PROVE FALSE
  <2>1. CASE templates[t] = NoEntry
    <3>1. t \in Parts(t)
      BY <1>1, TemplateAssumption DEF ReachedIsLeast, Parts, Root, TemplateAssumption
    <3>q. QED  BY <1>5, <2>1, <3>1 DEF Behind, Shown, NoEntry
  <2>2. CASE templates[t] = [text |-> Text(t), deps |-> Listed(t)]
    BY <1>5, <2>2 DEF Behind, Fresh
  <2>q. QED  BY <1>3, <2>1, <2>2
<1>q. QED  BY <1>1, <1>2, <1>4, <1>5 DEF FInv, ReadsCurrent, Lists, Rested, Follows

\* An entry that no edit touches is behind if it was, and a reload that was to
\* succeed still is.
LEMMA StaysBehind ==
  ASSUME ReachedIsLeast, ReachedIsLeast', NEW t \in Watched, Behind(t)',
         \A g \in Parts(t)' : disk'[g] = disk[g] /\ rev'[g] = rev[g],
         templates'[t] = templates[t]
  PROVE  /\ Behind(t) /\ Parts(t)' = Parts(t)
         /\ \A g \in Parts(t) : Reached(g)' = Reached(g)
<1>1. t \in Files
  BY TemplateAssumption DEF TemplateAssumption
<1>2. Parts(t)' = Parts(t)
  BY <1>1, Unaffected
<1>3. \A g \in Parts(t) : g \in Files /\ Parts(g) \subseteq Parts(t)
  BY <1>1, PartsOfPart DEF Parts
<1>4. \A g \in Parts(t) : Reached(g)' = Reached(g)
  BY <1>2, <1>3, Unaffected
<1>5. Shown(t)' = Shown(t) /\ Text(t)' = Text(t) /\ (Loadable(t)' => Loadable(t))
  BY <1>2 DEF Shown, Text, Loadable
<1>6. Behind(t)
  BY <1>2, <1>5 DEF Behind, Fresh
<1>q. QED  BY <1>2, <1>4, <1>6

LEMMA EditFollows ==
  ASSUME FInv, IInv', NEW f \in Files, NEW x \in Texts[f] \cup {Gone},
         disk' = [disk EXCEPT ![f] = x], rev' = [rev EXCEPT ![f] = edits + 1],
         events' = Append(events, f) \/ (x = Gone /\ events' = events),
         UNCHANGED <<resends, load, templates>>
  PROVE  FInv'
<1>0. /\ DiskTypes /\ EventTypes /\ LoadTypes /\ SoundTypes /\ EntryTypes
      /\ DiskTypes' /\ ReachedIsLeast'
  BY Types, TypesNext, ReachesNext DEF FInv, IInv
<1>1. (\A g : Queued(g) => Queued(g)') /\ (x # Gone => Queued(f)')
  <2>1. CASE x = Gone /\ events' = events
    BY <2>1 DEF Queued
  <2>2. CASE events' = Append(events, f)
    <3>1. events \in Seq(Files) /\ events' = Append(events, f)
      BY <1>0, <2>2 DEF EventTypes
    <3>2. /\ DOMAIN events = 1..Len(events) /\ DOMAIN events' = 1..(Len(events) + 1)
          /\ Len(events) \in Nat /\ events'[Len(events) + 1] = f
          /\ \A k \in 1..Len(events) : events'[k] = events[k]
      BY <3>1, LenProperties, AppendProperties
    <3>q. QED  BY <3>2 DEF Queued
  <2>q. QED  BY <2>1, <2>2
<1>2. /\ \A g \in Files \ {f} : disk'[g] = disk[g] /\ rev'[g] = rev[g]
      /\ disk'[f] = x
  BY <1>0 DEF DiskTypes
<1>3. ReadsCurrent'
  <2> SUFFICES ASSUME NEW y \in got
               PROVE  (rev[y[1]] = y[2])' \/ Queued(y[1])' \/ (disk[y[1]] = Gone)'
    BY DEF ReadsCurrent, load
  <2>1. y[1] \in Files
    BY <1>0 DEF LoadTypes, Revisions
  <2>2. CASE y[1] = f
    BY <1>1, <1>2, <2>2
  <2>3. CASE y[1] # f
    BY <1>1, <1>2, <2>1, <2>3 DEF FInv, ReadsCurrent
  <2>q. QED  BY <2>2, <2>3
<1>4. Lists' /\ Rested'
  BY DEF FInv, Lists, Rested, Shown, load
<1>5. ASSUME NEW t \in Watched, Behind(t)' PROVE \E g \in Parts(t)' : Pending(g)'
  <2>1. CASE f \in Parts(t)'
    <3>1. disk'[f] # Gone
      BY <1>5, <2>1 DEF Behind, Loadable
    <3>2. Pending(f)'
      BY <1>1, <1>2, <3>1 DEF Pending, Queued
    <3>q. QED  BY <2>1, <3>2
  <2>2. CASE f \notin Parts(t)'
    <3>1. /\ Behind(t) /\ Parts(t)' = Parts(t)
          /\ \A g \in Parts(t) : Reached(g)' = Reached(g)
      <4>1. \A g \in Parts(t)' : disk'[g] = disk[g] /\ rev'[g] = rev[g]
        BY <1>2, <2>2 DEF Parts
      <4>q. QED  BY <1>0, <1>5, <4>1, StaysBehind DEF FInv
    <3>2. PICK g \in Parts(t) : Pending(g)
      BY <3>1 DEF FInv, Follows
    <3>3. cur' = cur /\ todo' = todo /\ sound' = sound /\ resends' = resends
      BY DEF load
    <3>4. Pending(g)'
      <4>1. CASE Queued(g) \/ g \in resends
        BY <1>1, <3>3, <4>1 DEF Pending, Queued
      <4>2. CASE cur = g /\ Succeeds
        <5>1. Reached(cur)' = Reached(cur)
          BY <3>1, <3>3, <4>2
        <5>q. QED  BY <3>3, <4>2, <5>1 DEF Pending, Succeeds
      <4>q. QED  BY <3>2, <4>1, <4>2 DEF Pending
    <3>q. QED  BY <3>1, <3>4
  <2>q. QED  BY <2>1, <2>2
<1>q. QED  BY <1>0, <1>3, <1>4, <1>5 DEF FInv, Follows
\* An entry that is behind before a step in which the files stay has a reload to come.
LEMMA WasPending ==
  ASSUME FInv, IInv', UNCHANGED files, NEW t \in Watched, templates'[t] = templates[t],
         Behind(t)'
  PROVE  /\ Parts(t)' = Parts(t) /\ Loadable(t) /\ Shown(t) = Parts(t)
         /\ Parts(t) \subseteq Watched
         /\ \A g \in Parts(t) : /\ g \in Files /\ Reached(g)' = Reached(g)
                                /\ Reached(g) \subseteq Includes
                                /\ \A i \in Reached(g) : i.file \in Parts(t)
         /\ \E g \in Parts(t) : Pending(g)
<1>1. ReachedIsLeast /\ ReachedIsLeast'
  BY TypesNext, ReachesNext DEF FInv, IInv
<1>2. /\ Behind(t) /\ Parts(t)' = Parts(t)
      /\ \A g \in Parts(t) : Reached(g)' = Reached(g)
  BY <1>1, StaysBehind DEF files
<1>3. \E g \in Parts(t) : Pending(g)
  BY <1>2 DEF FInv, Follows
<1>4. ASSUME NEW g \in Parts(t)
      PROVE  /\ g \in Files /\ Reached(g) \subseteq Includes
             /\ \A i \in Reached(g) : i.file \in Parts(t)
  <2>1. t \in Files /\ g \in Files
    BY TemplateAssumption DEF TemplateAssumption, Parts
  <2>2. Parts(g) \subseteq Parts(t) /\ Reached(g) \subseteq Includes
    BY <1>1, <2>1, PartsOfPart DEF ReachedIsLeast
  <2>q. QED  BY <2>1, <2>2 DEF Parts, Includes
<1>q. QED  BY <1>2, <1>3, <1>4 DEF Behind

LEMMA StartFollows ==
  ASSUME FInv, IInv', NEW f \in Files, cur = Gone, StartOn(f),
         \A g : Queued(g) => Queued(g)' \/ g = f, resends \subseteq resends' \cup {f},
         UNCHANGED <<files, templates>>
  PROVE  FInv'
<1>0. LoadTypes /\ LoadTypes' /\ ReachedIsLeast'
  BY Types, TypesNext, ReachesNext DEF FInv, IInv
<1>1. got' = {} /\ deps' = {} /\ sound' = TRUE
  BY <1>0 DEF LoadTypes, StartOn, load, FInv, Rested, IInv, Types, SoundTypes, TypeOK
<1>2. ReadsCurrent' /\ Lists' /\ Rested'
  BY <1>1 DEF FInv, ReadsCurrent, Lists, Rested, Shown
<1>3. ASSUME NEW t \in Watched, Behind(t)' PROVE \E g \in Parts(t)' : Pending(g)'
  <2>1. PICK g \in Parts(t) : Pending(g)
    BY <1>3, WasPending
  <2>2. g \in Watched /\ g \in Files /\ Parts(t)' = Parts(t) /\ Reached(g)' = Reached(g)
    BY <1>3, WasPending
  <2>3. cur # g
    BY <2>2, TemplateAssumption DEF TemplateAssumption
  <2>4. CASE g = f
    <3>1. cur' = g /\ todo' = <<Root(g)>>
      BY <2>2, <2>4 DEF StartOn
    <3>2. \A k \in DOMAIN todo' : todo'[k] = Root(g)
      BY <3>1
    <3>3. Root(g) \in Reached(g)
      BY <2>2 DEF FInv, ReachedIsLeast
    <3>4. Reached(cur)' = Reached(g)
      BY <2>2, <3>1
    <3>5. Succeeds'
      BY <1>1, <3>2, <3>3, <3>4 DEF Succeeds
    <3>6. Pending(g)'
      BY <3>1, <3>5 DEF Pending
    <3>q. QED  BY <2>2, <3>6
  <2>5. CASE g # f
    <3>1. Queued(g)' \/ g \in resends'
      BY <2>1, <2>3, <2>5 DEF Pending
    <3>q. QED  BY <2>2, <3>1 DEF Pending
  <2>q. QED  BY <2>4, <2>5
<1>q. QED  BY <1>0, <1>2, <1>3 DEF FInv, Follows

\* A reload that ends without a template was not going to succeed for anyone behind.
LEMMA IdleFollows ==
  ASSUME FInv, IInv', Idle, UNCHANGED <<files, events, resends, templates>>,
         \A t \in Watched : Loadable(t) /\ cur \in Parts(t) => ~Succeeds
  PROVE  FInv'
<1>0. ReachedIsLeast'
  BY TypesNext, ReachesNext DEF IInv
<1>1. ReadsCurrent' /\ Lists' /\ Rested'
  BY DEF FInv, ReadsCurrent, Lists, Rested, Shown, Idle
<1>2. ASSUME NEW t \in Watched, Behind(t)' PROVE \E g \in Parts(t)' : Pending(g)'
  <2>1. PICK g \in Parts(t) : Pending(g)
    BY <1>2, WasPending
  <2>2. Loadable(t) /\ Parts(t)' = Parts(t)
    BY <1>2, WasPending
  <2>3. Queued(g) \/ g \in resends
    BY <2>1, <2>2 DEF Pending
  <2>4. Pending(g)'
    BY <2>3 DEF Pending, Queued
  <2>q. QED  BY <2>2, <2>4
<1>q. QED  BY <1>0, <1>1, <1>2 DEF FInv, Follows

LEMMA ReadFollows ==
  ASSUME FInv, IInv', Read PROVE FInv'
<1>0. /\ DiskTypes /\ LoadTypes /\ LoadTypes' /\ ReachedIsLeast /\ ReachedIsLeast'
      /\ AbsoluteNames
  BY Types, TypesNext, ReachesNext DEF FInv, IInv
<1> DEFINE i == Head(todo)
           f == i.file
<1>1. todo # << >> /\ todo \in Seq(Includes) /\ cur # Gone /\ cur \in Watched
  BY <1>0 DEF Read, LoadTypes
<1>2. /\ i \in Includes /\ f \in Files /\ Tail(todo) \in Seq(Includes)
      /\ i = todo[1] /\ 1 \in DOMAIN todo
      /\ \A k \in DOMAIN Tail(todo) : k + 1 \in DOMAIN todo /\ Tail(todo)[k] = todo[k + 1]
  <2>1. /\ i \in Includes /\ Tail(todo) \in Seq(Includes) /\ i = todo[1]
        /\ Len(todo) \in Nat /\ Len(todo) # 0 /\ DOMAIN todo = 1..Len(todo)
        /\ DOMAIN Tail(todo) = 1..(Len(todo) - 1)
        /\ \A k \in 1..(Len(todo) - 1) : Tail(todo)[k] = todo[k + 1]
    BY <1>1, HeadTailProperties, LenProperties, EmptySeq
  <2>q. QED  BY <2>1 DEF Includes
<1>3. ASSUME NEW t \in Watched, Loadable(t), cur \in Parts(t), Succeeds
      PROVE  f \in Parts(t) /\ disk[f] # Gone /\ disk[f].parses
  <2>1. t \in Files /\ cur \in Files
    BY TemplateAssumption, <1>3 DEF TemplateAssumption, Parts
  <2>2. f \in Parts(cur)
    BY <1>2, <1>3 DEF Succeeds, Parts
  <2>q. QED  BY <1>0, <1>3, <2>1, <2>2, PartsOfPart DEF Loadable
<1>4. CASE disk[f] = Gone
  BY <1>3, <1>4, IdleFollows DEF Read
<1>5. CASE disk[f] # Gone
  <2>1. /\ todo' = Targets(i) \o Tail(todo)
        /\ got' = got \cup {<<f, rev[f]>>}
        /\ deps' = (IF f = cur THEN deps ELSE deps \cup Noted(i))
        /\ sound' = (sound /\ disk[f].parses)
        /\ UNCHANGED <<cur, files, events, resends, templates>>
    BY <1>5 DEF Read
  <2>2. ReadsCurrent'
    BY <2>1 DEF FInv, ReadsCurrent, Queued, files
  <2>3. Lists' /\ Rested'
    BY <1>0, <1>1, <2>1 DEF FInv, Lists, Rested, Noted, Shown
  <2>4. Targets(i) \in Seq(Includes) /\ disk[f].parses \in BOOLEAN
    BY <1>0, <1>2, <1>5, TextTypes
  <2>5. ASSUME NEW k \in DOMAIN todo'
        PROVE  \/ \E m \in DOMAIN Targets(i) : todo'[k] = Targets(i)[m]
               \/ \E m \in DOMAIN todo : todo'[k] = todo[m]
    <3> DEFINE a == Targets(i)
               b == Tail(todo)
    <3>1. /\ DOMAIN a = 1..Len(a) /\ DOMAIN b = 1..Len(b) /\ Len(a) \in Nat /\ Len(b) \in Nat
          /\ DOMAIN todo' = 1..(Len(a) + Len(b))
          /\ todo'[k] = IF k <= Len(a) THEN a[k] ELSE b[k - Len(a)]
      BY <1>2, <2>1, <2>4, <2>5, LenProperties, ConcatProperties
    <3> HIDE DEF a, b
    <3>2. CASE k <= Len(a)
      <4>1. k \in DOMAIN a
        BY <2>5, <3>1, <3>2
      <4>q. QED  BY <3>1, <3>2, <4>1 DEF a
    <3>3. CASE ~(k <= Len(a))
      <4>1. k - Len(a) \in DOMAIN b
        BY <2>5, <3>1, <3>3
      <4>q. QED  BY <1>2, <3>1, <3>3, <4>1 DEF b
    <3>q. QED  BY <3>2, <3>3
  <2>6. ASSUME NEW t \in Watched, Behind(t)' PROVE \E g \in Parts(t)' : Pending(g)'
    <3>1. PICK g \in Parts(t) : Pending(g)
      BY <2>1, <2>6, WasPending
    <3>2. /\ Loadable(t) /\ Parts(t)' = Parts(t) /\ g \in Files
          /\ Reached(g)' = Reached(g)
      BY <2>1, <2>6, WasPending
    <3>3. CASE Queued(g) \/ g \in resends
      <4>1. Pending(g)'
        BY <2>1, <3>3 DEF Pending, Queued
      <4>q. QED  BY <3>2, <4>1
    <3>4. CASE cur = g /\ Succeeds
      <4>1. sound' = TRUE
        BY <1>3, <2>1, <3>2, <3>4 DEF Succeeds
      <4>2. i \in Reached(g)
        BY <1>2, <3>4 DEF Succeeds
      <4>3. \A m \in DOMAIN Targets(i) : Targets(i)[m] \in Reached(g)
        BY <1>0, <1>5, <3>2, <4>2 DEF ReachedIsLeast, Complete
      <4>4. \A k \in DOMAIN todo' : todo'[k] \in Reached(g)
        BY <2>5, <3>4, <4>3 DEF Succeeds
      <4>5. Reached(cur)' = Reached(g)
        BY <2>1, <3>2, <3>4
      <4>6. Succeeds'
        BY <4>1, <4>4, <4>5 DEF Succeeds
      <4>7. Pending(g)'
        BY <2>1, <3>4, <4>6 DEF Pending
      <4>q. QED  BY <3>2, <4>7
    <3>q. QED  BY <3>1, <3>3, <3>4 DEF Pending
  <2>q. QED  BY <1>0, <2>2, <2>3, <2>6 DEF FInv, Follows
<1>q. QED  BY <1>4, <1>5

LEMMA StoreFollows ==
  ASSUME FInv, IInv', Store PROVE FInv'
<1>0. /\ DiskTypes /\ LoadTypes /\ EntryTypes /\ ReachedIsLeast /\ ReachedIsLeast'
      /\ AbsoluteNames
  BY Types, TypesNext, ReachesNext DEF FInv, IInv
<1>1. /\ cur \in Watched /\ cur # Gone /\ cur' = Gone /\ got' = {} /\ sound' = TRUE
      /\ templates' = [templates EXCEPT ![cur] = [text |-> got, deps |-> deps]]
      /\ resends' = resends \cup {t \in Watched : cur \in templates'[t].deps}
      /\ UNCHANGED <<files, events>>
  BY <1>0 DEF Store, Idle, LoadTypes
<1>2. \A t \in Watched : templates'[t] =
          IF t = cur THEN [text |-> got, deps |-> deps] ELSE templates[t]
  BY <1>0, <1>1 DEF EntryTypes
<1>3. ReadsCurrent' /\ Rested'
  BY <1>1 DEF ReadsCurrent, Rested
<1>4. Lists'
  BY <1>1, <1>2 DEF FInv, Lists, Shown
<1>5. ASSUME NEW t \in Watched, Behind(t)' PROVE \E g \in Parts(t)' : Pending(g)'
  <2>1. CASE t = cur
    <3>1. templates'[t].text = got
      BY <1>2, <2>1
    <3>2. Loadable(t)' /\ Shown(t)' = Parts(t)' /\ got # Text(t)'
      BY <1>5, <3>1 DEF Behind, Fresh
    <3>3. \A g : g \in Parts(t)' <=> \E x \in got : x[1] = g
      BY <3>1, <3>2 DEF Shown
    <3>4. \A x \in got : x = <<x[1], x[2]>>
      BY <1>0 DEF LoadTypes, Revisions
    <3>5. Text(t)' = {<<g, rev[g]>> : g \in Parts(t)'}
      BY <1>1 DEF Text, files
    <3>6. PICK x \in got : x[2] # rev[x[1]]
      <4> SUFFICES ASSUME \A x \in got : x[2] = rev[x[1]] PROVE FALSE
        OBVIOUS
      <4>1. got \subseteq Text(t)'
        BY <3>3, <3>4, <3>5
      <4>2. ASSUME NEW g \in Parts(t)' PROVE <<g, rev[g]>> \in got
        BY <3>3, <3>4
      <4>q. QED  BY <3>2, <3>5, <4>1, <4>2
    <3>7. x[1] \in Parts(t)' /\ disk[x[1]] # Gone
      BY <1>1, <3>2, <3>3 DEF Loadable, files
    <3>8. Queued(x[1])'
      BY <1>1, <3>6, <3>7 DEF FInv, ReadsCurrent, Queued
    <3>q. QED  BY <3>7, <3>8 DEF Pending
  <2>2. CASE t # cur
    <3>1. templates'[t] = templates[t]
      BY <1>2, <2>2
    <3>2. PICK g \in Parts(t) : Pending(g)
      BY <1>1, <1>5, <3>1, WasPending
    <3>3. Shown(t) = Parts(t) /\ Parts(t)' = Parts(t) /\ t \in Parts(t)
      <4>1. Shown(t) = Parts(t) /\ Parts(t)' = Parts(t)
        BY <1>1, <1>5, <3>1, WasPending
      <4>2. t \in Parts(t)
        <5>1. t \in Files /\ Root(t) \in Reached(t) /\ Root(t).file = t
          BY <1>0, TemplateAssumption DEF ReachedIsLeast, Root, TemplateAssumption
        <5>q. QED  BY <5>1 DEF Parts
      <4>q. QED  BY <4>1, <4>2
    <3>4. CASE Queued(g) \/ g \in resends
      <4>1. Pending(g)'
        BY <1>1, <3>4 DEF Pending, Queued
      <4>q. QED  BY <3>3, <4>1
    <3>5. CASE cur = g
      <4>1. cur \in templates'[t].deps
        BY <2>2, <3>1, <3>3, <3>5 DEF FInv, Lists
      <4>2. Pending(t)'
        BY <1>1, <4>1 DEF Pending
      <4>q. QED  BY <3>3, <4>2
    <3>q. QED  BY <3>2, <3>4, <3>5 DEF Pending
  <2>q. QED  BY <2>1, <2>2
<1>q. QED  BY <1>0, <1>3, <1>4, <1>5 DEF FInv, Follows
LEMMA StepFollows == FInv /\ [Next]_vars => FInv'
<1> SUFFICES ASSUME FInv, [Next]_vars PROVE FInv'
  OBVIOUS
<1>0. EventTypes /\ LoadTypes /\ Watched \subseteq Files /\ IInv'
  BY Types, StepInv, TemplateAssumption DEF FInv, IInv, TemplateAssumption
<1>1. ASSUME NEW f \in Files, Unlink(f) PROVE FInv'
  BY <1>0, <1>1, EditFollows DEF Unlink
<1>2. ASSUME NEW f \in Files, NEW x \in Texts[f], Write(f, x) PROVE FInv'
  BY <1>0, <1>2, EditFollows DEF Write
<1>3. CASE Receive
  <2>1. /\ Head(events) = events[1] /\ DOMAIN events = 1..Len(events) /\ Len(events) \in Nat
        /\ DOMAIN Tail(events) = 1..(Len(events) - 1) /\ Head(events) \in Files
        /\ \A k \in 1..(Len(events) - 1) : Tail(events)[k] = events[k + 1]
    BY <1>0, <1>3, HeadTailProperties, LenProperties, EmptySeq DEF Receive, EventTypes
  <2>2. ASSUME NEW g, Queued(g) PROVE Queued(g)' \/ g = Head(events)
    <3>1. PICK k \in 1..Len(events) : events[k] = g
      BY <2>1, <2>2 DEF Queued
    <3>2. CASE k = 1
      BY <2>1, <3>1, <3>2
    <3>3. CASE k # 1
      <4>1. k - 1 \in 1..(Len(events) - 1) /\ (k - 1) + 1 = k
        BY <2>1, <3>1, <3>3
      <4>2. Tail(events)[k - 1] = g /\ k - 1 \in DOMAIN Tail(events)
        BY <2>1, <3>1, <4>1
      <4>q. QED  BY <1>3, <4>2 DEF Receive, Queued
    <3>q. QED  BY <3>2, <3>3
  <2>q. QED  BY <1>0, <1>3, <2>1, <2>2, StartFollows DEF Receive
<1>4. ASSUME NEW f \in Files, ReceiveResent(f) PROVE FInv'
  <2>1. \A g : Queued(g) => Queued(g)'
    BY <1>4 DEF ReceiveResent, Queued
  <2>q. QED  BY <1>0, <1>4, <2>1, StartFollows DEF ReceiveResent
<1>5. CASE Read
  BY <1>0, <1>5, ReadFollows
<1>6. CASE Reject
  BY <1>0, <1>6, IdleFollows DEF Reject, Succeeds
<1>7. CASE Store
  BY <1>0, <1>7, StoreFollows
<1>8. CASE UNCHANGED vars
  <2>1. ReachedIsLeast'
    BY <1>0, TypesNext, ReachesNext DEF IInv
  <2>2. ReadsCurrent' /\ Lists' /\ Rested'
    BY <1>8 DEF FInv, ReadsCurrent, Queued, Lists, Shown, Rested, vars, files, load
  <2>3. ASSUME NEW t \in Watched, Behind(t)' PROVE \E g \in Parts(t)' : Pending(g)'
    <3>1. UNCHANGED files /\ templates' = templates
      BY <1>8 DEF vars
    <3>2. PICK g \in Parts(t) : Pending(g)
      BY <1>0, <2>3, <3>1, WasPending
    <3>3. Parts(t)' = Parts(t) /\ Reached(g)' = Reached(g)
      BY <1>0, <2>3, <3>1, <3>2, WasPending
    <3>4. CASE Queued(g) \/ g \in resends
      BY <1>8, <3>3, <3>4 DEF Pending, Queued, vars
    <3>5. CASE cur = g /\ Succeeds
      BY <1>8, <3>3, <3>5 DEF Pending, Succeeds, vars, load
    <3>q. QED  BY <3>2, <3>4, <3>5 DEF Pending
  <2>q. QED  BY <1>0, <2>1, <2>2, <2>3 DEF FInv, Follows
<1>q. QED
  BY <1>1, <1>2, <1>3, <1>4, <1>5, <1>6, <1>7, <1>8 DEF Next, Reload

\* "Updating partial templates now trigger a reload on parent templates" (CHANGELOG.md:7):
\* however partials are nested, whatever is edited while the watcher reads and in
\* whatever order the events of files and of parents are received (App.go:712-800), a
\* watcher at rest has every template as its files are on the disk, of those whose
\* entry is made of the partials they have now.
THEOREM PartialsReachParents == AbsoluteNames /\ Spec => []ParentsFollowPartials
<1>1. FInv => ParentsFollowPartials
  <2> SUFFICES ASSUME FInv, Quiet, NEW t \in Watched, Behind(t) PROVE FALSE
    BY DEF ParentsFollowPartials, Behind
  <2>1. PICK g \in Parts(t) : Pending(g)
    BY DEF FInv, Follows
  <2>2. cur # g
    BY TemplateAssumption DEF Quiet, Parts, TemplateAssumption
  <2>q. QED  BY <2>1, <2>2 DEF Quiet, Pending, Queued
<1>2. AbsoluteNames /\ Spec => []FInv
  BY InitFollows, StepFollows, PTL DEF Spec
<1>q. QED  BY <1>1, <1>2, PTL

-----------------------------------------------------------------------------
(***************************************************************************)
(* tempJadeFix: the loop is a recursive function, which exists because it   *)
(* can be built turn by turn.                                              *)
(***************************************************************************)
\* The turns of the loop of tempJadeFix.
Turns(s, n, g) ==
  g = [m \in 0..n |-> IF m = 0 THEN JadeStart ELSE JadeRune(g[m - 1], s[m])]

LEMMA TurnsExist ==
  ASSUME NEW s, NEW n \in Nat
  PROVE  \E g : Turns(s, n, g)
<1> DEFINE S == {m \in Nat : \E g : Turns(s, m, g)}
<1>1. 0 \in S
  <2>1. Turns(s, 0, [m \in 0..0 |-> JadeStart])
    BY DEF Turns
  <2>q. QED  BY <2>1
<1>2. ASSUME NEW k \in Nat, k \in S PROVE k + 1 \in S
  <2>1. PICK g : Turns(s, k, g)
    BY <1>2
  <2> DEFINE h == [m \in 0..(k + 1) |-> IF m \in 0..k THEN g[m] ELSE JadeRune(g[k], s[m])]
  <2>2. \A m \in 0..k : g[m] = IF m = 0 THEN JadeStart ELSE JadeRune(g[m - 1], s[m])
    BY <2>1 DEF Turns
  <2>3. ASSUME NEW m \in 0..(k + 1)
        PROVE  h[m] = IF m = 0 THEN JadeStart ELSE JadeRune(h[m - 1], s[m])
    <3>1. CASE m = 0
      BY <2>2, <3>1
    <3>2. CASE m # 0 /\ m \in 0..k
      <4>1. m - 1 \in 0..k /\ h[m - 1] = g[m - 1] /\ h[m] = g[m]
        BY <3>2
      <4>q. QED  BY <2>2, <3>2, <4>1
    <3>3. CASE m = k + 1
      <4>1. m - 1 = k /\ h[m - 1] = g[k] /\ h[m] = JadeRune(g[k], s[m]) /\ m # 0
        BY <3>3
      <4>q. QED  BY <4>1
    <3>q. QED  BY <3>1, <3>2, <3>3
  <2>4. h = [m \in 0..(k + 1) |-> IF m = 0 THEN JadeStart ELSE JadeRune(h[m - 1], s[m])]
    BY <2>3
  <2>5. Turns(s, k + 1, h)
    BY <2>4 DEF Turns
  <2> HIDE DEF h
  <2>q. QED  BY <2>5
<1> HIDE DEF S
<1>3. n \in S
  BY <1>1, <1>2, AllNumbers
<1>q. QED  BY <1>3 DEF S

LEMMA JadeTurns ==
  ASSUME NEW R, NEW s \in Seq(R)
  PROVE  \E a : /\ tempJadeFix(s) = a[Len(s)].buf
                /\ a[0] = JadeStart
                /\ \A n \in 1..Len(s) : a[n] = JadeRune(a[n - 1], s[n])
<1> DEFINE N == Len(s)
           L == CHOOSE g : g = [n \in 0..N |-> IF n = 0 THEN JadeStart
                                              ELSE JadeRune(g[n - 1], s[n])]
<1>1. N \in Nat
  BY LenProperties
<1>2. L = [n \in 0..N |-> IF n = 0 THEN JadeStart ELSE JadeRune(L[n - 1], s[n])]
  BY <1>1, TurnsExist DEF Turns
<1>3. tempJadeFix(s) = L[N].buf
  BY DEF tempJadeFix
<1> HIDE DEF L
<1>4. L[0] = JadeStart /\ \A n \in 1..N : L[n] = JadeRune(L[n - 1], s[n])
  BY <1>1, <1>2
<1>q. QED  BY <1>3, <1>4

LEMMA JadeFields ==
  ASSUME NEW st, NEW r
  PROVE  /\ JadeRune(st, r).buf = Append(st.buf, IF st.inside > 0 /\ r = "'" THEN "\"" ELSE r)
         /\ JadeRune(st, r).inside = IF r = "{" /\ st.prev = "{" THEN st.inside + 1
                                   ELSE IF r = "}" /\ st.prev = "}" THEN st.inside - 1
                                   ELSE st.inside
         /\ JadeRune(st, r).prev = r
  BY DEF JadeRune

\* A quote after turn n.
Requoted(a, s, i) == IF a[i - 1].inside > 0 /\ s[i] = "'" THEN "\"" ELSE s[i]

\* What n turns have done.
Turned(R, a, s, n) ==
  /\ a[n].buf \in Seq(R \cup {"\""})
  /\ Len(a[n].buf) = n
  /\ \A i \in 1..n : a[n].buf[i] = Requoted(a, s, i)
  /\ a[n].inside \in Int
  /\ a[n].prev = IF n = 0 THEN "none" ELSE s[n]

LEMMA TurnedAlways ==
  ASSUME NEW R, NEW s \in Seq(R), NEW a, a[0] = JadeStart,
         \A n \in 1..Len(s) : a[n] = JadeRune(a[n - 1], s[n])
  PROVE  \A n \in 0..Len(s) : Turned(R, a, s, n)
<1> DEFINE N == Len(s)
           X == R \cup {"\""}
           A == {n \in Nat : n <= N => Turned(R, a, s, n)}
<1>0. N \in Nat
  BY LenProperties
<1>1. 0 \in A
  <2>1. Turned(R, a, s, 0)
    BY EmptySeq DEF Turned, JadeStart
  <2>q. QED  BY <2>1
<1>2. ASSUME NEW n \in Nat, n \in A PROVE n + 1 \in A
  <2> SUFFICES ASSUME n + 1 <= N PROVE Turned(R, a, s, n + 1)
    OBVIOUS
  <2>1. Turned(R, a, s, n)
    BY <1>0, <1>2
  <2>2. n + 1 \in 1..N /\ (n + 1) - 1 = n
    BY <1>0
  <2> DEFINE old == a[n]
             new == a[n + 1]
             c == s[n + 1]
             b == old.buf
             r == Requoted(a, s, n + 1)
  <2>3. new = JadeRune(old, c)
    BY <2>2
  <2>4. r \in X /\ r = IF old.inside > 0 /\ c = "'" THEN "\"" ELSE c
    <3>1. s[n + 1] \in R
      BY <2>2, ElementOfSeq
    <3>q. QED  BY <2>2, <3>1 DEF Requoted
  <2> HIDE DEF old, new, c, r
  <2>7. new.buf = Append(b, IF old.inside > 0 /\ c = "'" THEN "\"" ELSE c)
    BY <2>3, JadeFields
  <2>13. new.inside \in {old.inside, old.inside + 1, old.inside - 1}
    BY <2>3, JadeFields
  <2>5. new.buf = Append(b, r)
    BY <2>4, <2>7
  <2>6. b \in Seq(X) /\ Len(b) = n
    BY <2>1 DEF Turned, old
  <2>8. new.inside \in Int
    <3>1. old.inside \in Int
      BY <2>1 DEF Turned, old
    <3>q. QED  BY <3>1, <2>13
  <2>9. \A i \in 1..n : b[i] = Requoted(a, s, i)
    BY <2>1 DEF Turned, old
  <2> HIDE DEF b, X
  <2>10. /\ Append(b, r) \in Seq(X) /\ Len(Append(b, r)) = n + 1
         /\ \A i \in 1..n : Append(b, r)[i] = b[i]
         /\ Append(b, r)[n + 1] = r
    <3>1. r \in X
      BY <2>4
    <3>q. QED  BY <2>6, <3>1, AppendProperties
  <2>11. \A i \in 1..(n + 1) : new.buf[i] = Requoted(a, s, i)
    BY <2>5, <2>9, <2>10 DEF r
  <2>12. new.buf \in Seq(R \cup {"\""}) /\ Len(new.buf) = n + 1
    BY <2>5, <2>10 DEF X
  <2>14. new.prev = IF n + 1 = 0 THEN "none" ELSE s[n + 1]
    <3>1. new.prev = c
      BY <2>3, JadeFields
    <3>q. QED  BY <3>1 DEF c
  <2>q. QED  BY <2>8, <2>11, <2>12, <2>14 DEF Turned, new
<1> HIDE DEF A
<1>3. \A n \in Nat : n \in A
  BY <1>1, <1>2, AllNumbers
<1>q. QED  BY <1>0, <1>3 DEF A

\* What one more rune does to being within an action.
LEMMA WithinNext ==
  ASSUME NEW s, NEW n \in Nat
  PROVE  /\ Delimiter(s, n + 1, "{") => Within(s, n + 2)
         /\ Delimiter(s, n + 1, "}") => ~Within(s, n + 2)
         /\ ~Delimiter(s, n + 1, "{") /\ ~Delimiter(s, n + 1, "}")
              => (Within(s, n + 2) <=> Within(s, n + 1))
<1>1. (n + 2) - 1 = n + 1 /\ (n + 1) - 1 = n
  OBVIOUS
<1>2. ASSUME Delimiter(s, n + 1, "{") PROVE Within(s, n + 2)
  <2>1. n + 1 > 1
    BY <1>2 DEF Delimiter
  <2>2. n + 1 \in 2..(n + 1) /\ ((n + 1) + 1)..(n + 1) = {}
    BY <2>1
  <2>q. QED  BY <1>1, <1>2, <2>2 DEF Within
<1>3. ASSUME Delimiter(s, n + 1, "}") PROVE ~Within(s, n + 2)
  <2>0. \A j \in 2..(n + 1) : j # n + 1 => n + 1 \in (j + 1)..(n + 1)
    OBVIOUS
  <2> SUFFICES ASSUME NEW j \in 2..(n + 1), Delimiter(s, j, "{")
               PROVE  \E k \in (j + 1)..(n + 1) : Delimiter(s, k, "}")
    BY <1>1 DEF Within
  <2>1. j # n + 1
    BY <1>3 DEF Delimiter
  <2>q. QED  BY <1>3, <2>0, <2>1
<1>4. ASSUME ~Delimiter(s, n + 1, "{"), ~Delimiter(s, n + 1, "}")
      PROVE  Within(s, n + 2) <=> Within(s, n + 1)
  <2> DEFINE P(j, m) == Delimiter(s, j, "{") /\ ~\E k \in (j + 1)..m : Delimiter(s, k, "}")
  <2>1. \A j \in 2..n : P(j, n) <=> P(j, n + 1)
    <3>1. \A j \in 2..n : \A k : k \in (j + 1)..(n + 1) <=> k \in (j + 1)..n \/ k = n + 1
      OBVIOUS
    <3>q. QED  BY <1>4, <3>1
  <2>2. ~P(n + 1, n + 1)
    BY <1>4
  <2> HIDE DEF P
  <2>3. (\E j \in 2..(n + 1) : P(j, n + 1)) <=> (\E j \in 2..n : P(j, n + 1))
    <3>1. \A j \in 2..n : j \in 2..(n + 1)
      OBVIOUS
    <3>2. \A j \in 2..(n + 1) : j \in 2..n \/ j = n + 1
      OBVIOUS
    <3>q. QED  BY <2>2, <3>1, <3>2
  <2>4. (\E j \in 2..n : P(j, n + 1)) <=> (\E j \in 2..n : P(j, n))
    BY <2>1
  <2>q. QED  BY <1>1, <2>3, <2>4 DEF Within, P
<1>q. QED  BY <1>2, <1>3, <1>4

\* The depth is that of the alternating delimiters.
LEMMA DepthIsWithin ==
  ASSUME NEW R, NEW s \in Seq(R), NEW a, a[0] = JadeStart,
         \A n \in 1..Len(s) : a[n] = JadeRune(a[n - 1], s[n]),
         Alternating(s)
  PROVE  \A n \in Nat : n <= Len(s) => a[n].inside = IF Within(s, n + 1) THEN 1 ELSE 0
<1> DEFINE N == Len(s)
           In(n) == a[n].inside = IF Within(s, n + 1) THEN 1 ELSE 0
           A == {n \in Nat : n <= N => In(n)}
<1>0. N \in Nat
  BY LenProperties
<1>1. 0 \in A
  <2>1. ~Within(s, 1)
    BY DEF Within
  <2>2. a[0].inside = 0
    BY DEF JadeStart
  <2>q. QED  BY <2>1, <2>2
<1>2. ASSUME NEW n \in Nat, n \in A PROVE n + 1 \in A
  <2> SUFFICES ASSUME n + 1 <= N PROVE In(n + 1)
    OBVIOUS
  <2>1. In(n)
    BY <1>0, <1>2
  <2>2. n + 1 \in 1..N /\ (n + 1) - 1 = n /\ (n + 1) + 1 = n + 2
    BY <1>0
  <2> DEFINE old == a[n]
             new == a[n + 1]
             c == s[n + 1]
             Begins == Delimiter(s, n + 1, "{")
             Finishes == Delimiter(s, n + 1, "}")
  <2>3. new = JadeRune(old, c)
    BY <2>2
  <2>4. old.prev = IF n = 0 THEN "none" ELSE s[n]
    <3>1. n \in 0..N
      BY <1>0
    <3>2. Turned(R, a, s, n)
      BY <3>1, TurnedAlways
    <3>q. QED  BY <3>2 DEF Turned
  <2>5. (c = "{" /\ old.prev = "{" <=> Begins) /\ (c = "}" /\ old.prev = "}" <=> Finishes)
    <3>1. CASE n = 0
      BY <2>2, <2>4, <3>1 DEF Delimiter
    <3>2. CASE n # 0
      <4>1. old.prev = s[n] /\ n + 1 > 1
        BY <2>4, <3>2
      <4>q. QED  BY <2>2, <4>1 DEF Delimiter
    <3>q. QED  BY <3>1, <3>2
  <2>6. ~(Begins /\ Finishes)
    BY DEF Delimiter
  <2>7. (Begins => ~Within(s, n + 1)) /\ (Finishes => Within(s, n + 1))
    BY <2>2 DEF Alternating
  <2> HIDE DEF old, new, c, Begins, Finishes
  <2>8. new.inside = IF Begins THEN old.inside + 1
                     ELSE IF Finishes THEN old.inside - 1 ELSE old.inside
    BY <2>3, <2>5, JadeFields
  <2>9. old.inside = IF Within(s, n + 1) THEN 1 ELSE 0
    BY <2>1 DEF old
  <2>10. new.inside = IF Begins THEN 1 ELSE IF Finishes THEN 0
                      ELSE IF Within(s, n + 1) THEN 1 ELSE 0
    BY <2>7, <2>8, <2>9
  <2>11. new.inside = IF Within(s, n + 2) THEN 1 ELSE 0
    BY <2>6, <2>10, WithinNext DEF Begins, Finishes
  <2>q. QED  BY <2>2, <2>11 DEF new
<1> HIDE DEF A
<1>3. \A n \in Nat : n \in A
  BY <1>1, <1>2, AllNumbers
<1>q. QED  BY <1>3 DEF A

\* Of a text of any runes tempJadeFix (jadefix.go:9-65) doubles the single quotes within
\* actions and keeps every other rune in its place; when actions nest or end before they
\* begin, still only quotes change.
THEOREM JadeIsFixed ==
  ASSUME NEW R, text \in Seq(R)
  PROVE  JadeFixed
<1> DEFINE N == Len(text)
           out == tempJadeFix(text)
           fixed(i) == IF text[i] = "'" THEN "\"" ELSE text[i]
<1>1. N \in Nat /\ DOMAIN text = 1..N
  BY LenProperties
<1>2. PICK a : /\ out = a[N].buf
               /\ a[0] = JadeStart
               /\ \A n \in 1..N : a[n] = JadeRune(a[n - 1], text[n])
  BY JadeTurns
<1>3. Turned(R, a, text, N)
  BY <1>1, <1>2, TurnedAlways
<1>4. Len(out) = N /\ \A i \in 1..N : out[i] = Requoted(a, text, i)
  BY <1>2, <1>3 DEF Turned
<1>5. \A i \in 1..N : Requoted(a, text, i) = IF a[i - 1].inside > 0 THEN fixed(i) ELSE text[i]
  BY DEF Requoted
<1>6. ASSUME Alternating(text), NEW i \in 1..N
      PROVE  a[i - 1].inside > 0 <=> Within(text, i)
  <2>1. i - 1 \in Nat /\ i - 1 <= N /\ (i - 1) + 1 = i
    BY <1>1
  <2>2. a[i - 1].inside = IF Within(text, i) THEN 1 ELSE 0
    BY <1>2, <1>6, <2>1, DepthIsWithin
  <2>q. QED  BY <2>2
<1> HIDE DEF out
<1>7. \A i \in DOMAIN text : out[i] \in {text[i], fixed(i)}
  BY <1>1, <1>4, <1>5
<1>8. Alternating(text) => \A i \in DOMAIN text :
                             out[i] = IF Within(text, i) THEN fixed(i) ELSE text[i]
  BY <1>1, <1>4, <1>5, <1>6
<1>q. QED  BY <1>4, <1>7, <1>8 DEF JadeFixed, out

-----------------------------------------------------------------------------
(***************************************************************************)
(* LocalizeTemplate: what the loop writes from a position on needs what it  *)
(* writes from later positions on, so that it exists, and is compared with  *)
(* its meaning, from the end of the text backwards.                         *)
(***************************************************************************)
LEMMA MinIs ==
  ASSUME NEW S \in SUBSET Nat, S # {}
  PROVE  Min(S) \in S /\ \A y \in S : Min(S) <= y
<1>1. IsWellFoundedOn(Before, Nat)
  BY NatLessThanWellFounded DEF OpToRel, Before
<1>2. PICK x \in S : \A y \in S : ~ (<<y, x>> \in Before)
  BY <1>1, WFMin
<1>3. ASSUME NEW y \in S PROVE x <= y
  <2>1. x \in Nat /\ y \in Nat /\ ~ (y < x)
    BY <1>2 DEF Before
  <2>q. QED  BY <2>1
<1>q. QED  BY <1>3 DEF Min

\* The next marker, and where the capture of a key ends.
LEMMA MarkerIs ==
  ASSUME NEW R, NEW s \in Seq(R), NEW i \in Nat
  PROVE  /\ Marker(s, i) \in Nat /\ Marker(s, i) <= Len(s) + 1
         /\ \/ Marker(s, i) = Len(s) + 1
            \/ i <= Marker(s, i) /\ Marker(s, i) + 2 <= Len(s) /\ MarkerAt(s, Marker(s, i))
         /\ \A j \in Nat : i <= j /\ MarkerAt(s, j) => Marker(s, i) <= j
<1> DEFINE N == Len(s)
           S == {j \in i .. N : MarkerAt(s, j)} \cup {N + 1}
<1>1. N \in Nat
  BY LenProperties
<1>2. S \in SUBSET Nat /\ S # {}
  BY <1>1
<1>3. Marker(s, i) = Min(S)
  BY DEF Marker
<1>4. \A j \in Nat : MarkerAt(s, j) => j + 2 <= N /\ j >= 1
  BY <1>1 DEF MarkerAt
<1> HIDE DEF N
<1>5. Min(S) \in S /\ \A y \in S : Min(S) <= y
  <2> HIDE DEF S
  <2>q. QED  BY <1>2, MinIs
<1>6. \A j \in Nat : i <= j /\ MarkerAt(s, j) => j \in S
  <2> SUFFICES ASSUME NEW j \in Nat, i <= j, MarkerAt(s, j) PROVE j \in S
    OBVIOUS
  <2>1. j \in i .. N
    BY <1>1, <1>4
  <2>q. QED  BY <2>1
<1>7. Min(S) \in Nat /\ Min(S) <= N + 1 /\ (Min(S) = N + 1 \/ (i <= Min(S) /\ MarkerAt(s, Min(S))))
  BY <1>1, <1>5
<1>q. QED  BY <1>3, <1>4, <1>5, <1>6, <1>7 DEF N

LEMMA CaptureEndIs ==
  ASSUME NEW R, NEW s \in Seq(R), NEW k \in Nat, k <= Len(s)
  PROVE  /\ CaptureEnd(s, k) \in Nat /\ k <= CaptureEnd(s, k) /\ CaptureEnd(s, k) <= Len(s)
         /\ MarkerAt(s, CaptureEnd(s, k)) \/ CaptureEnd(s, k) + 1 >= Len(s)
         /\ \A j \in Nat : k <= j /\ MarkerAt(s, j) => CaptureEnd(s, k) <= j
<1> DEFINE N == Len(s)
           Ends(j) == \/ MarkerAt(s, j)
                      \/ j = N - 1 /\ s[j] = "%" /\ s[j + 1] = "%"
                      \/ j = N
           S == {j \in k .. N : Ends(j)}
<1>1. N \in Nat
  BY LenProperties
<1>2. S \in SUBSET Nat /\ S # {}
  <2>1. N \in S
    BY <1>1
  <2>q. QED  BY <2>1
<1>3. CaptureEnd(s, k) = Min(S)
  BY DEF CaptureEnd
<1>4. \A j \in Nat : MarkerAt(s, j) => j + 2 <= N /\ j >= 1
  BY <1>1 DEF MarkerAt
<1>5. Min(S) \in S /\ \A y \in S : Min(S) <= y
  <2> HIDE DEF S
  <2>q. QED  BY <1>2, MinIs
<1>6. \A j \in Nat : k <= j /\ MarkerAt(s, j) => j \in S
  <2> SUFFICES ASSUME NEW j \in Nat, k <= j, MarkerAt(s, j) PROVE j \in S
    OBVIOUS
  <2>1. j \in k .. N
    BY <1>1, <1>4
  <2>q. QED  BY <2>1
<1>7. \A j \in S : j \in Nat /\ k <= j /\ j <= N /\ (MarkerAt(s, j) \/ j + 1 >= N)
  <2> SUFFICES ASSUME NEW j \in k .. N, Ends(j) PROVE MarkerAt(s, j) \/ j + 1 >= N
    BY <1>1
  <2> HIDE DEF N
  <2>q. QED  BY <1>1
<1> HIDE DEF S, N
<1>q. QED  BY <1>3, <1>5, <1>6, <1>7 DEF N

-----------------------------------------------------------------------------
\* What LocalizeTemplate writes depends on what it writes from later positions on.
LEMMA LocalizeLater ==
  ASSUME NEW R, NEW s \in Seq(R), NEW p, NEW i \in 1 .. Len(s) + 3, NEW g, NEW h,
         \A j \in 1 .. Len(s) + 3 : i < j => g[j] = h[j]
  PROVE  LocalizeFrom(s, p, i, g) = LocalizeFrom(s, p, i, h)
<1> DEFINE N == Len(s)
           e == CaptureEnd(s, i + 3)
<1>1. N \in Nat /\ i \in Nat /\ i >= 1
  BY LenProperties
<1>2. CASE i > N
  BY <1>2 DEF LocalizeFrom
<1>3. CASE i <= N /\ ~(i + 3 <= N)
  <2>1. g[i + 1] = h[i + 1]
    <3>1. i + 1 \in 1 .. N + 3 /\ i < i + 1
      BY <1>1, <1>3
    <3>q. QED  BY <3>1
  <2>2. i = N \/ i + 1 = N \/ i + 2 = N
    BY <1>1, <1>3
  <2>q. QED  BY <1>1, <2>1, <2>2 DEF LocalizeFrom
<1>4. CASE i + 3 <= N
  <2>1. e \in Nat /\ i + 3 <= e /\ e <= N
    <3>1. i + 3 \in Nat
      BY <1>1
    <3>q. QED  BY <1>4, <3>1, CaptureEndIs
  <2> HIDE DEF e
  <2>2. g[i + 1] = h[i + 1] /\ g[e + 1] = h[e + 1] /\ g[e + 3] = h[e + 3]
    <3>1. /\ i + 1 \in 1 .. N + 3 /\ i < i + 1
          /\ e + 1 \in 1 .. N + 3 /\ i < e + 1
          /\ e + 3 \in 1 .. N + 3 /\ i < e + 3
      BY <1>1, <1>4, <2>1
    <3>q. QED  BY <3>1
  <2>q. QED  BY <2>2 DEF LocalizeFrom, e
<1>q. QED  BY <1>1, <1>2, <1>3, <1>4

Localizes(s, p, k, g) ==
  g = [i \in k .. Len(s) + 3 |-> LocalizeFrom(s, p, i, g)]

LEMMA LocalizeExists ==
  ASSUME NEW R, NEW s \in Seq(R), NEW p
  PROVE  \E g : Localizes(s, p, 1, g)
<1> DEFINE M == Len(s) + 3
           S == {n \in Nat : n < M => \E g : Localizes(s, p, M - n, g)}
<1>0. M \in Nat /\ M >= 3 /\ Len(s) \in Nat
  BY LenProperties
<1>1. 0 \in S
  <2>1. M > Len(s) /\ M \in M .. M /\ M - 0 = M
    BY <1>0
  <2> DEFINE g == [i \in M .. M |-> << >>]
  <2>2. \A i \in M .. M : LocalizeFrom(s, p, i, g) = << >>
    BY <1>0 DEF LocalizeFrom
  <2>3. Localizes(s, p, M - 0, g)
    BY <2>1, <2>2 DEF Localizes
  <2>q. QED  BY <2>3
<1>2. ASSUME NEW n \in Nat, n \in S PROVE n + 1 \in S
  <2> SUFFICES ASSUME n + 1 < M PROVE \E g : Localizes(s, p, M - (n + 1), g)
    OBVIOUS
  <2> DEFINE k == M - (n + 1)
  <2>0. k \in 1 .. M /\ M - n = k + 1 /\ n < M
    BY <1>0
  <2>1. PICK g : Localizes(s, p, k + 1, g)
    BY <1>2, <2>0
  <2> DEFINE h == [i \in k .. M |-> IF i = k THEN LocalizeFrom(s, p, k, g) ELSE g[i]]
  <2>2. \A i \in (k + 1) .. M : g[i] = LocalizeFrom(s, p, i, g)
    BY <2>1 DEF Localizes
  <2> HIDE DEF k, M
  <2>3. \A i \in (k + 1) .. M : h[i] = g[i]
    BY <2>0
  <2>4. ASSUME NEW i \in k .. M PROVE LocalizeFrom(s, p, i, h) = LocalizeFrom(s, p, i, g)
    <3>1. i \in 1 .. M
      BY <1>0, <2>0
    <3>2. \A j \in 1 .. M : i < j => h[j] = g[j]
      <4>1. \A j \in 1 .. M : i < j => j \in (k + 1) .. M
        BY <1>0, <2>0
      <4>q. QED  BY <2>3, <4>1
    <3> HIDE DEF h
    <3>q. QED  BY <3>1, <3>2, LocalizeLater DEF M
  <2>5. ASSUME NEW i \in k .. M PROVE h[i] = LocalizeFrom(s, p, i, h)
    <3>1. i = k \/ i \in (k + 1) .. M
      BY <1>0, <2>0
    <3>2. h[i] = LocalizeFrom(s, p, i, g)
      BY <2>2, <2>3, <3>1
    <3> HIDE DEF h
    <3>q. QED  BY <2>4, <3>2
  <2>6. h = [i \in k .. M |-> LocalizeFrom(s, p, i, h)]
    BY <2>5
  <2>7. Localizes(s, p, k, h)
    BY <2>6 DEF Localizes, M
  <2> HIDE DEF h
  <2>q. QED  BY <2>7 DEF k
<1> HIDE DEF S
<1>3. \A n \in Nat : n \in S
  BY <1>1, <1>2, AllNumbers
<1>4. M - 1 \in Nat /\ M - 1 < M /\ M - (M - 1) = 1
  BY <1>0
<1> HIDE DEF M
<1>5. M - 1 \in S
  BY <1>3, <1>4
<1>6. \E g : Localizes(s, p, M - (M - 1), g)
  BY <1>4, <1>5 DEF S
<1>q. QED  BY <1>4, <1>6

\* LocalizeTemplate, position by position.
LEMMA LocalizeIs ==
  ASSUME NEW R, NEW s \in Seq(R), NEW p, p # "none"
  PROVE  \E L : /\ LocalizeTemplate(s, p) = L[1]
                /\ \A i \in 1 .. Len(s) + 3 : L[i] = LocalizeFrom(s, p, i, L)
<1> DEFINE L == CHOOSE g : g = [i \in 1 .. Len(s) + 3 |-> LocalizeFrom(s, p, i, g)]
<1>1. L = [i \in 1 .. Len(s) + 3 |-> LocalizeFrom(s, p, i, L)]
  BY LocalizeExists DEF Localizes
<1>2. LocalizeTemplate(s, p) = L[1]
  BY DEF LocalizeTemplate
<1> HIDE DEF L
<1>3. \A i \in 1 .. Len(s) + 3 : L[i] = LocalizeFrom(s, p, i, L)
  BY <1>1
<1>q. QED  BY <1>2, <1>3

-----------------------------------------------------------------------------
\* The markers of a key that is closed, behind position i.
LEMMA KeyIs ==
  ASSUME NEW R, NEW s \in Seq(R), NEW i \in Nat,
         Marker(s, i) <= Len(s), Marker(s, Marker(s, i) + 3) <= Len(s)
  PROVE  LET open == Marker(s, i)
             close == Marker(s, open + 3)
         IN  /\ open \in Nat /\ close \in Nat
             /\ i <= open /\ open + 3 <= close /\ close + 2 <= Len(s)
             /\ MarkerAt(s, open) /\ MarkerAt(s, close)
<1> DEFINE N == Len(s)
           open == Marker(s, i)
           close == Marker(s, open + 3)
<1>1. N \in Nat
  BY LenProperties
<1>2. open \in Nat /\ i <= open /\ MarkerAt(s, open)
  <2>1. open \in Nat /\ (open = N + 1 \/ (i <= open /\ MarkerAt(s, open)))
    BY MarkerIs
  <2>2. open <= N
    OBVIOUS
  <2> HIDE DEF open, N
  <2>q. QED  BY <1>1, <2>1, <2>2
<1>3. open + 3 \in Nat
  BY <1>2
<1> HIDE DEF open
<1>4. /\ close \in Nat
      /\ close = N + 1 \/ (open + 3 <= close /\ close + 2 <= N /\ MarkerAt(s, close))
  BY <1>3, MarkerIs
<1>5. close <= N
  BY DEF open
<1>6. open + 3 <= close /\ close + 2 <= N /\ MarkerAt(s, close)
  BY <1>1, <1>4, <1>5
<1>q. QED  BY <1>2, <1>4, <1>6 DEF open

LEMMA ReplacedLater ==
  ASSUME NEW R, NEW s \in Seq(R), NEW p, NEW i \in 1 .. Len(s) + 1, NEW g, NEW h,
         \A j \in 1 .. Len(s) + 1 : i < j => g[j] = h[j]
  PROVE  ReplacedFrom(s, p, i, g) = ReplacedFrom(s, p, i, h)
<1> DEFINE N == Len(s)
           open == Marker(s, i)
           close == Marker(s, open + 3)
<1>1. N \in Nat /\ i \in Nat /\ i >= 1
  BY LenProperties
<1>2. CASE open <= N /\ close <= N
  <2>1. /\ open \in Nat /\ close \in Nat /\ i <= open /\ open + 3 <= close /\ close + 2 <= N
    BY <1>1, <1>2, KeyIs
  <2> HIDE DEF open, close
  <2>2. close + 3 \in 1 .. N + 1 /\ i < close + 3
    BY <1>1, <2>1
  <2>3. g[close + 3] = h[close + 3]
    BY <2>2
  <2>q. QED  BY <1>2, <2>3 DEF ReplacedFrom, open, close
<1>3. CASE ~(open <= N /\ close <= N)
  BY <1>3 DEF ReplacedFrom
<1>q. QED  BY <1>2, <1>3

Replaces(s, p, k, g) ==
  g = [i \in k .. Len(s) + 1 |-> ReplacedFrom(s, p, i, g)]

LEMMA ReplacesExists ==
  ASSUME NEW R, NEW s \in Seq(R), NEW p
  PROVE  \E g : Replaces(s, p, 1, g)
<1> DEFINE M == Len(s) + 1
           S == {n \in Nat : n < M => \E g : Replaces(s, p, M - n, g)}
<1>0. M \in Nat /\ M >= 1 /\ Len(s) \in Nat
  BY LenProperties
<1>1. 0 \in S
  <2>1. M > Len(s) /\ M \in M .. M /\ M - 0 = M
    BY <1>0
  <2> DEFINE g == [i \in M .. M |-> ReplacedFrom(s, p, M, << >>)]
  <2>2. ASSUME NEW i \in M .. M PROVE ReplacedFrom(s, p, i, << >>) = ReplacedFrom(s, p, i, g)
    <3>1. i \in 1 .. M /\ \A j \in 1 .. M : ~(i < j)
      BY <1>0
    <3> HIDE DEF g
    <3>q. QED  BY <3>1, ReplacedLater
  <2>3. \A i \in M .. M : i = M
    BY <1>0
  <2>4. \A i \in M .. M : g[i] = ReplacedFrom(s, p, i, g)
    BY <2>2, <2>3
  <2>5. g = [i \in M .. M |-> ReplacedFrom(s, p, i, g)]
    BY <2>4
  <2>6. Replaces(s, p, M - 0, g)
    BY <2>1, <2>5 DEF Replaces
  <2> HIDE DEF g
  <2>q. QED  BY <2>6
<1>2. ASSUME NEW n \in Nat, n \in S PROVE n + 1 \in S
  <2> SUFFICES ASSUME n + 1 < M PROVE \E g : Replaces(s, p, M - (n + 1), g)
    OBVIOUS
  <2> DEFINE k == M - (n + 1)
  <2>0. k \in 1 .. M /\ M - n = k + 1 /\ n < M
    BY <1>0
  <2>1. PICK g : Replaces(s, p, k + 1, g)
    BY <1>2, <2>0
  <2> DEFINE h == [i \in k .. M |-> IF i = k THEN ReplacedFrom(s, p, k, g) ELSE g[i]]
  <2>2. \A i \in (k + 1) .. M : g[i] = ReplacedFrom(s, p, i, g)
    BY <2>1 DEF Replaces
  <2> HIDE DEF k, M
  <2>3. \A i \in (k + 1) .. M : h[i] = g[i]
    BY <2>0
  <2>4. ASSUME NEW i \in k .. M PROVE ReplacedFrom(s, p, i, h) = ReplacedFrom(s, p, i, g)
    <3>1. i \in 1 .. M
      BY <1>0, <2>0
    <3>2. \A j \in 1 .. M : i < j => h[j] = g[j]
      <4>1. \A j \in 1 .. M : i < j => j \in (k + 1) .. M
        BY <1>0, <2>0
      <4>q. QED  BY <2>3, <4>1
    <3> HIDE DEF h
    <3>q. QED  BY <3>1, <3>2, ReplacedLater DEF M
  <2>5. ASSUME NEW i \in k .. M PROVE h[i] = ReplacedFrom(s, p, i, h)
    <3>1. i = k \/ i \in (k + 1) .. M
      BY <1>0, <2>0
    <3>2. h[i] = ReplacedFrom(s, p, i, g)
      BY <2>2, <2>3, <3>1
    <3> HIDE DEF h
    <3>q. QED  BY <2>4, <3>2
  <2>6. h = [i \in k .. M |-> ReplacedFrom(s, p, i, h)]
    BY <2>5
  <2>7. Replaces(s, p, k, h)
    BY <2>6 DEF Replaces, M
  <2> HIDE DEF h
  <2>q. QED  BY <2>7 DEF k
<1> HIDE DEF S
<1>3. \A n \in Nat : n \in S
  BY <1>1, <1>2, AllNumbers
<1>4. M - 1 \in Nat /\ M - 1 < M /\ M - (M - 1) = 1
  BY <1>0
<1> HIDE DEF M
<1>5. M - 1 \in S
  BY <1>3, <1>4
<1>6. \E g : Replaces(s, p, M - (M - 1), g)
  BY <1>4, <1>5 DEF S
<1>q. QED  BY <1>4, <1>6

\* The meaning of a text, position by position.
LEMMA ReplacedIs ==
  ASSUME NEW R, NEW s \in Seq(R), NEW p
  PROVE  \E L : /\ Replaced(s, p) = L[1]
                /\ \A i \in 1 .. Len(s) + 1 : L[i] = ReplacedFrom(s, p, i, L)
<1> DEFINE L == CHOOSE g : g = [i \in 1 .. Len(s) + 1 |-> ReplacedFrom(s, p, i, g)]
<1>1. L = [i \in 1 .. Len(s) + 1 |-> ReplacedFrom(s, p, i, L)]
  BY ReplacesExists DEF Replaces
<1>2. Replaced(s, p) = L[1]
  BY DEF Replaced
<1> HIDE DEF L
<1>3. \A i \in 1 .. Len(s) + 1 : L[i] = ReplacedFrom(s, p, i, L)
  BY <1>1
<1>q. QED  BY <1>2, <1>3

-----------------------------------------------------------------------------
(***************************************************************************)
(* What is written, beside what is meant, from each position on.            *)
(***************************************************************************)

Written(R) == R \cup {"<", ">", "panic"}

Stray(s) == Len(s) > 1 /\ s[Len(s) - 1] = "%" /\ s[Len(s)] # "%"

Meanings(R) == [written : Seq(Written(R)), tail : Seq(R), unclosed : Seq(R)]

\* Localized, of the text from some position on.
Right(R, out, meant) ==
  /\ out \in Seq(Written(R)) /\ meant \in Meanings(R)
  /\ meant.unclosed = << >> /\ ~Stray(meant.tail) => out = meant.written
  /\ meant.unclosed # << >> => \E rest \in Seq(Written(R)) : out = meant.written \o rest
  /\ "panic" \in ToSet(out) <=> meant.unclosed = <<"%", "%", "%">>

LEMMA ToSetConcat ==
  ASSUME NEW S, NEW s \in Seq(S), NEW t \in Seq(S)
  PROVE  ToSet(s \o t) = ToSet(s) \cup ToSet(t)
<1>1. /\ s \o t \in Seq(S) /\ Len(s \o t) = Len(s) + Len(t)
      /\ \A i \in 1 .. Len(s) + Len(t) :
           (s \o t)[i] = IF i <= Len(s) THEN s[i] ELSE t[i - Len(s)]
  BY ConcatProperties
<1>2. /\ Len(s) \in Nat /\ Len(t) \in Nat
      /\ DOMAIN s = 1 .. Len(s) /\ DOMAIN t = 1 .. Len(t)
      /\ DOMAIN (s \o t) = 1 .. Len(s) + Len(t)
  BY <1>1, LenProperties
<1> DEFINE u == s \o t
<1> HIDE DEF u
<1>3. ASSUME NEW i \in 1 .. Len(s) + Len(t) PROVE u[i] \in ToSet(s) \cup ToSet(t)
  <2>1. CASE i <= Len(s)
    <3>1. i \in DOMAIN s /\ u[i] = s[i]
      BY <1>1, <1>2, <2>1 DEF u
    <3>q. QED  BY <3>1 DEF ToSet
  <2>2. CASE ~(i <= Len(s))
    <3>1. i - Len(s) \in DOMAIN t /\ u[i] = t[i - Len(s)]
      BY <1>1, <1>2, <2>2 DEF u
    <3>q. QED  BY <3>1 DEF ToSet
  <2>q. QED  BY <2>1, <2>2
<1>4. ASSUME NEW i \in DOMAIN s PROVE s[i] \in ToSet(u)
  <2>1. i \in DOMAIN u /\ u[i] = s[i]
    BY <1>1, <1>2 DEF u
  <2>q. QED  BY <2>1 DEF ToSet
<1>5. ASSUME NEW i \in DOMAIN t PROVE t[i] \in ToSet(u)
  <2>1. i + Len(s) \in DOMAIN u /\ ~(i + Len(s) <= Len(s)) /\ (i + Len(s)) - Len(s) = i
    BY <1>2 DEF u
  <2>2. u[i + Len(s)] = t[i]
    BY <1>1, <1>2, <2>1 DEF u
  <2>q. QED  BY <2>1, <2>2 DEF ToSet
<1>6. DOMAIN u = 1 .. Len(s) + Len(t)
  BY <1>2 DEF u
<1>7. ToSet(u) = ToSet(s) \cup ToSet(t)
  BY <1>3, <1>4, <1>5, <1>6 DEF ToSet
<1>q. QED  BY <1>7 DEF u

\* The same text before both.
LEMMA RightBefore ==
  ASSUME NEW R, NEW out, NEW meant, Right(R, out, meant),
         NEW x \in Seq(Written(R)), "panic" \notin ToSet(x),
         NEW more \in Meanings(R),
         more.written = x \o meant.written,
         more.unclosed = meant.unclosed,
         Stray(meant.tail) => Stray(more.tail)
  PROVE  Right(R, x \o out, more)
<1>1. /\ out \in Seq(Written(R)) /\ meant.written \in Seq(Written(R))
  BY DEF Right, Meanings
<1>2. x \o out \in Seq(Written(R)) /\ ToSet(x \o out) = ToSet(x) \cup ToSet(out)
  BY <1>1, ConcatProperties, ToSetConcat
<1>3. ASSUME more.unclosed = << >>, ~Stray(more.tail) PROVE x \o out = more.written
  BY <1>3 DEF Right
<1>4. ASSUME more.unclosed # << >>
      PROVE  \E rest \in Seq(Written(R)) : x \o out = more.written \o rest
  <2>1. PICK rest \in Seq(Written(R)) : out = meant.written \o rest
    BY <1>4 DEF Right
  <2>2. x \o out = (x \o meant.written) \o rest
    <3> DEFINE w == meant.written
               W == Written(R)
    <3>1. w \in Seq(W) /\ x \in Seq(W) /\ rest \in Seq(W)
      BY <1>1
    <3> HIDE DEF w, W
    <3>2. (x \o w) \o rest = x \o (w \o rest)
      BY <3>1, ConcatAssociative
    <3>q. QED  BY <2>1, <3>2 DEF w
  <2>q. QED  BY <2>2
<1>5. "panic" \in ToSet(x \o out) <=> more.unclosed = <<"%", "%", "%">>
  BY <1>2 DEF Right
<1>q. QED  BY <1>2, <1>3, <1>4, <1>5 DEF Right

LEMMA TranslationIs ==
  ASSUME NEW R, "panic" \notin R, NEW key \in Seq(R), NEW p
  PROVE  T(p, key) \in Seq(Written(R)) /\ "panic" \notin ToSet(T(p, key))
<1> DEFINE V == R \cup {"<", ">"}
<1>1. key \in Seq(V) /\ <<"<">> \in Seq(V) /\ <<">">> \in Seq(V)
  <2>1. key \in Seq(V)
    BY SeqMonotonic
  <2>2. "<" \in V /\ ">" \in V
    OBVIOUS
  <2> HIDE DEF V
  <2>q. QED  BY <2>1, <2>2
<1>2. T(p, key) \in Seq(V)
  <2> HIDE DEF V
  <2>1. <<"<">> \o key \in Seq(V)
    BY <1>1, ConcatProperties
  <2>2. (<<"<">> \o key) \o <<">">> \in Seq(V)
    BY <1>1, <2>1, ConcatProperties
  <2>q. QED  BY <1>1, <2>2 DEF T
<1>3. V \subseteq Written(R) /\ "panic" \notin V
  BY DEF Written
<1> HIDE DEF V
<1>4. T(p, key) \in Seq(Written(R))
  BY <1>2, <1>3, SeqMonotonic
<1>5. \A i \in DOMAIN T(p, key) : T(p, key)[i] \in V
  BY <1>2, LenProperties, ElementOfSeq
<1>q. QED  BY <1>3, <1>4, <1>5 DEF ToSet

\* Each of the two, at each position.
Runs(R, p, s, L, M) ==
  /\ s \in Seq(R) /\ "panic" \notin R
  /\ \A i \in 1 .. Len(s) + 3 : L[i] = LocalizeFrom(s, p, i, L)
  /\ \A i \in 1 .. Len(s) + 1 : M[i] = ReplacedFrom(s, p, i, M)

LEMMA NoMarkerThere ==
  ASSUME NEW R, NEW s \in Seq(R), NEW i \in Nat, i + 2 > Len(s)
  PROVE  Marker(s, i) = Len(s) + 1
<1>1. Len(s) \in Nat
  BY LenProperties
<1>2. \/ Marker(s, i) = Len(s) + 1
      \/ i <= Marker(s, i) /\ Marker(s, i) + 2 <= Len(s) /\ Marker(s, i) \in Nat
  BY MarkerIs
<1> DEFINE m == Marker(s, i)
<1> HIDE DEF m
<1>3. m = Len(s) + 1 \/ (i <= m /\ m + 2 <= Len(s) /\ m \in Nat)
  BY <1>2 DEF m
<1>4. m = Len(s) + 1
  BY <1>1, <1>3
<1>q. QED  BY <1>4 DEF m

\* What is meant where no key is closed.
LEMMA MeantUnclosed ==
  ASSUME NEW R, NEW p, NEW s, NEW L, NEW M, Runs(R, p, s, L, M), NEW i \in 1 .. Len(s) + 1,
         NEW open, open = Marker(s, i),
         ~(open <= Len(s) /\ Marker(s, open + 3) <= Len(s))
  PROVE  /\ M[i].written = SubSeq(s, i, open - 1)
         /\ M[i].tail = SubSeq(s, i, open - 1)
         /\ M[i].unclosed = SubSeq(s, open, Len(s))
         /\ M[i] \in Meanings(R)
<1> DEFINE N == Len(s)
           a == SubSeq(s, i, open - 1)
           b == SubSeq(s, open, N)
<1>1. M[i] = [written |-> a, tail |-> a, unclosed |-> b]
  BY DEF Runs, ReplacedFrom
<1>2. N \in Nat /\ open \in Nat /\ open <= N + 1 /\ i \in Nat /\ i >= 1
      /\ (open = N + 1 \/ i <= open)
  BY LenProperties, MarkerIs DEF Runs
<1>3. \A j \in 1 .. N : s[j] \in R
  BY ElementOfSeq DEF Runs
<1> HIDE DEF N
<1>4. (\A j \in i .. open - 1 : s[j] \in R) /\ (\A j \in open .. N : s[j] \in R)
  <2>1. (\A j \in i .. open - 1 : j \in 1 .. N) /\ (\A j \in open .. N : j \in 1 .. N)
    BY <1>2
  <2>q. QED  BY <1>3, <2>1
<1>5. a \in Seq(R) /\ b \in Seq(R)
  <2>1. i \in Int /\ open \in Int /\ open - 1 \in Int /\ N \in Int
    BY <1>2
  <2>q. QED  BY <1>4, <2>1, SubSeqProperties
<1> HIDE DEF a, b
<1>6. a \in Seq(Written(R))
  BY <1>5, SeqMonotonic DEF Written
<1>7. M[i] \in Meanings(R)
  BY <1>1, <1>5, <1>6 DEF Meanings
<1>8. M[i].written = a /\ M[i].tail = a /\ M[i].unclosed = b
  BY <1>1
<1>q. QED  BY <1>7, <1>8 DEF N, a, b

LEMMA RightEnd ==
  ASSUME NEW R, NEW p, NEW s, NEW L, NEW M, Runs(R, p, s, L, M)
  PROVE  Right(R, L[Len(s) + 1], M[Len(s) + 1])
<1> DEFINE N == Len(s)
<1>1. N \in Nat /\ N + 1 \in Nat /\ N + 1 > N /\ N + 1 \in 1 .. N + 1 /\ N + 1 \in 1 .. N + 3
      /\ ~(N + 1 <= N) /\ (N + 1) + 2 > N
  BY LenProperties DEF Runs
<1>2. L[N + 1] = << >>
  BY <1>1 DEF Runs, LocalizeFrom
<1>3. Marker(s, N + 1) = N + 1
  BY <1>1, NoMarkerThere DEF Runs
<1>4. SubSeq(s, N + 1, (N + 1) - 1) = << >> /\ SubSeq(s, N + 1, N) = << >>
  <2>1. N + 1 \in Int /\ (N + 1) - 1 = N /\ N \in Int /\ N < N + 1
    BY <1>1
  <2>q. QED  BY <2>1, SubSeqEmpty
<1>5. M[N + 1].written = << >> /\ M[N + 1].unclosed = << >> /\ M[N + 1] \in Meanings(R)
  BY <1>1, <1>3, <1>4, MeantUnclosed
<1>6. << >> # <<"%", "%", "%">> /\ ToSet(<< >>) = {}
  BY DEF ToSet
<1>7. << >> \in Seq(Written(R))
  BY EmptySeq
<1>q. QED  BY <1>2, <1>5, <1>6, <1>7 DEF Right

\* From i on, the first key stands between open and close; before stands before it,
\* and it is written k.
KeyAt(p, s, i, open, close, before, k) ==
  /\ i \in 1 .. Len(s) + 1
  /\ open = Marker(s, i) /\ open <= Len(s)
  /\ close = Marker(s, open + 3) /\ close <= Len(s)
  /\ before = SubSeq(s, i, open - 1)
  /\ k = T(p, SubSeq(s, open + 3, close - 1))

Adds(new, before, k, old) == /\ new.written = (before \o k) \o old.written
                             /\ new.tail = old.tail
                             /\ new.unclosed = old.unclosed

\* What is meant where a key is closed.
LEMMA MeantClosed ==
  ASSUME NEW R, NEW p, NEW s, NEW L, NEW M, Runs(R, p, s, L, M),
         NEW i, NEW open, NEW close, NEW before, NEW k,
         KeyAt(p, s, i, open, close, before, k),
         M[close + 3] \in Meanings(R)
  PROVE  /\ before \in Seq(Written(R)) /\ k \in Seq(Written(R))
         /\ "panic" \notin ToSet(before \o k)
         /\ Adds(M[i], before, k, M[close + 3])
         /\ M[i] \in Meanings(R)
<1> DEFINE N == Len(s)
           key == SubSeq(s, open + 3, close - 1)
           x == before \o T(p, key)
           old == M[close + 3]
<1>k. /\ i \in 1 .. N + 1 /\ open = Marker(s, i) /\ open <= N
      /\ close = Marker(s, open + 3) /\ close <= N /\ k = T(p, key)
      /\ before = SubSeq(s, i, open - 1)
  BY DEF KeyAt
<1>0. N \in Nat /\ i \in Nat /\ i >= 1 /\ s \in Seq(R) /\ "panic" \notin R
  BY <1>k, LenProperties DEF Runs
<1>1. /\ open \in Nat /\ close \in Nat /\ i <= open /\ open + 3 <= close /\ close + 2 <= N
  BY <1>0, <1>k, KeyIs
<1>2. M[i] = [old EXCEPT !.written = x \o @]
  <2>1. M[i] = ReplacedFrom(s, p, i, M)
    BY <1>k DEF Runs
  <2>q. QED  BY <1>k, <2>1 DEF ReplacedFrom
<1>3. old \in Meanings(R)
  OBVIOUS
<1>4. \A j \in 1 .. N : s[j] \in R
  BY <1>0, ElementOfSeq
<1> HIDE DEF N
<1>5. before \in Seq(R) /\ key \in Seq(R)
  <2>1. (\A j \in i .. open - 1 : j \in 1 .. N) /\ (\A j \in open + 3 .. close - 1 : j \in 1 .. N)
    BY <1>0, <1>1
  <2>2. (\A j \in i .. open - 1 : s[j] \in R) /\ (\A j \in open + 3 .. close - 1 : s[j] \in R)
    BY <1>4, <2>1
  <2>3. i \in Int /\ open - 1 \in Int /\ open + 3 \in Int /\ close - 1 \in Int
    BY <1>0, <1>1
  <2>q. QED  BY <1>k, <2>2, <2>3, SubSeqProperties
<1> HIDE DEF key, old
<1>6. before \in Seq(Written(R)) /\ "panic" \notin ToSet(before)
  <2>1. before \in Seq(Written(R))
    BY <1>5, SeqMonotonic DEF Written
  <2>2. \A j \in DOMAIN before : before[j] \in R
    BY <1>5, LenProperties, ElementOfSeq
  <2>q. QED  BY <1>0, <2>1, <2>2 DEF ToSet
<1>7. T(p, key) \in Seq(Written(R)) /\ "panic" \notin ToSet(T(p, key))
  BY <1>0, <1>5, TranslationIs
<1>8. x \in Seq(Written(R)) /\ "panic" \notin ToSet(x)
  <2>1. ToSet(x) = ToSet(before) \cup ToSet(T(p, key))
    BY <1>6, <1>7, ToSetConcat
  <2>2. x \in Seq(Written(R))
    BY <1>6, <1>7, ConcatProperties
  <2>q. QED  BY <1>6, <1>7, <2>1, <2>2
<1> HIDE DEF x
<1>9. x \o old.written \in Seq(Written(R))
  <2>1. old.written \in Seq(Written(R))
    BY <1>3 DEF Meanings
  <2>q. QED  BY <1>8, <2>1, ConcatProperties
<1>10. /\ M[i].written = x \o old.written /\ M[i].tail = old.tail
       /\ M[i].unclosed = old.unclosed /\ M[i] \in Meanings(R)
  BY <1>2, <1>3, <1>9 DEF Meanings
<1>q. QED  BY <1>k, <1>6, <1>7, <1>8, <1>10 DEF x, key, old, Adds

\* A position where no marker begins adds its rune.
LEMMA MarkerNext ==
  ASSUME NEW R, NEW s \in Seq(R), NEW i \in 1 .. Len(s), ~MarkerAt(s, i)
  PROVE  Marker(s, i) = Marker(s, i + 1) /\ Marker(s, i) >= i + 1
<1> DEFINE N == Len(s)
           m == Marker(s, i)
           k == Marker(s, i + 1)
<1>0. N \in Nat /\ i \in Nat /\ i + 1 \in Nat
  BY LenProperties
<1>1. /\ m \in Nat /\ m <= N + 1
      /\ m = N + 1 \/ (i <= m /\ m + 2 <= N /\ MarkerAt(s, m))
      /\ \A j \in Nat : i <= j /\ MarkerAt(s, j) => m <= j
  BY <1>0, MarkerIs
<1>2. /\ k \in Nat /\ k <= N + 1
      /\ k = N + 1 \/ (i + 1 <= k /\ k + 2 <= N /\ MarkerAt(s, k))
      /\ \A j \in Nat : i + 1 <= j /\ MarkerAt(s, j) => k <= j
  BY <1>0, MarkerIs
<1>3. i <= N
  BY <1>0
<1> HIDE DEF N, m, k
<1>4. m >= i + 1
  <2>1. CASE m = N + 1
    BY <1>0, <1>3, <2>1
  <2>2. CASE i <= m /\ MarkerAt(s, m)
    <3>1. m # i
      BY <2>2
    <3>q. QED  BY <1>0, <1>1, <2>2, <3>1
  <2>q. QED  BY <1>1, <2>1, <2>2
<1>5. k <= m
  <2>1. CASE m = N + 1
    BY <1>2, <2>1
  <2>2. CASE MarkerAt(s, m)
    BY <1>1, <1>2, <1>4, <2>2
  <2>q. QED  BY <1>1, <2>1, <2>2
<1>6. m <= k
  <2>1. CASE k = N + 1
    BY <1>1, <2>1
  <2>2. CASE i + 1 <= k /\ MarkerAt(s, k)
    <3>1. i <= k
      BY <1>0, <1>2, <2>2
    <3>q. QED  BY <1>1, <1>2, <2>2, <3>1
  <2>q. QED  BY <1>2, <2>1, <2>2
<1>7. m = k
  BY <1>1, <1>2, <1>5, <1>6
<1>q. QED  BY <1>4, <1>7 DEF m, k

LEMMA StrayBefore ==
  ASSUME NEW R, NEW t \in Seq(R), NEW c \in R, Stray(t)
  PROVE  Stray(<<c>> \o t)
<1> DEFINE n == Len(t)
           u == <<c>> \o t
<1>1. <<c>> \in Seq(R) /\ Len(<<c>>) = 1
  OBVIOUS
<1>2. n \in Nat
  BY LenProperties
<1>3. n > 1
  BY DEF Stray
<1>4. Len(u) = 1 + n /\ \A i \in 1 .. 1 + n : u[i] = IF i <= 1 THEN <<c>>[i] ELSE t[i - 1]
  BY <1>1, ConcatProperties
<1> HIDE DEF u
<1>5. u[n + 1] = t[n] /\ u[(n + 1) - 1] = t[n - 1]
  <2> HIDE DEF n
  <2>1. /\ n + 1 \in 1 .. 1 + n /\ ~(n + 1 <= 1) /\ (n + 1) - 1 = n
        /\ n \in 1 .. 1 + n /\ ~(n <= 1)
    BY <1>2, <1>3
  <2>q. QED  BY <1>4, <2>1
<1>6. Len(u) = n + 1 /\ n + 1 > 1
  BY <1>2, <1>3, <1>4
<1> HIDE DEF n
<1>7. t[n - 1] = "%" /\ t[n] # "%"
  BY DEF Stray, n
<1>8. Stray(u)
  BY <1>5, <1>6, <1>7 DEF Stray
<1>q. QED  BY <1>8 DEF u

LEMMA MeantNext ==
  ASSUME NEW R, NEW p, NEW s, NEW L, NEW M, Runs(R, p, s, L, M), NEW i \in 1 .. Len(s),
         ~MarkerAt(s, i), \A j \in 1 .. Len(s) + 1 : i < j => M[j] \in Meanings(R)
  PROVE  /\ M[i] \in Meanings(R)
         /\ M[i].written = <<s[i]>> \o M[i + 1].written
         /\ M[i].unclosed = M[i + 1].unclosed
         /\ Stray(M[i + 1].tail) => Stray(M[i].tail)
<1> DEFINE N == Len(s)
           open == Marker(s, i)
           close == Marker(s, open + 3)
           W == Written(R)
           c == <<s[i]>>
           before == SubSeq(s, i + 1, open - 1)
<1>0. N \in Nat /\ i \in Nat /\ i >= 1 /\ i <= N /\ s \in Seq(R) /\ "panic" \notin R /\ s[i] \in R
  BY LenProperties, ElementOfSeq DEF Runs
<1>1. open = Marker(s, i + 1) /\ open >= i + 1
  BY <1>0, MarkerNext
<1>2. open \in Nat /\ open <= N + 1
  BY <1>0, MarkerIs
<1>3. i + 1 \in 1 .. N + 1 /\ i \in 1 .. N + 1
  BY <1>0
<1>4. SubSeq(s, i, open - 1) = c \o before
  <2> HIDE DEF open
  <2>1. open - 1 \in i .. N
    BY <1>0, <1>1, <1>2
  <2>q. QED  BY <1>0, <2>1, SubSeqRecursiveFirst
<1>5. c \in Seq(R) /\ c \in Seq(W)
  <2>1. s[i] \in R /\ s[i] \in W
    BY <1>0 DEF Written
  <2> HIDE DEF W
  <2>q. QED  BY <2>1
<1>6. M[i + 1] \in Meanings(R)
  BY <1>0, <1>3
<1>7. CASE ~(open <= N /\ close <= N)
  <2>1. /\ M[i].written = c \o before /\ M[i].tail = c \o before
        /\ M[i].unclosed = SubSeq(s, open, N) /\ M[i] \in Meanings(R)
    <3>1. /\ M[i].written = SubSeq(s, i, open - 1) /\ M[i].tail = SubSeq(s, i, open - 1)
          /\ M[i].unclosed = SubSeq(s, open, N) /\ M[i] \in Meanings(R)
      BY <1>3, <1>7, MeantUnclosed
    <3> HIDE DEF c, before
    <3>q. QED  BY <1>4, <3>1
  <2>2. /\ M[i + 1].written = before /\ M[i + 1].tail = before
        /\ M[i + 1].unclosed = SubSeq(s, open, N)
    BY <1>1, <1>3, <1>7, MeantUnclosed
  <2>3. before \in Seq(R)
    BY <1>6, <2>2 DEF Meanings
  <2>4. Stray(before) => Stray(c \o before)
    BY <1>0, <2>3, StrayBefore
  <2> HIDE DEF c, before, open
  <2>q. QED  BY <2>1, <2>2, <2>4 DEF c
<1>8. CASE open <= N /\ close <= N
  <2> DEFINE k == T(p, SubSeq(s, open + 3, close - 1))
             old == M[close + 3]
             first == SubSeq(s, i, open - 1)
  <2>1. old \in Meanings(R)
    <3>1. /\ open \in Nat /\ close \in Nat /\ i <= open /\ open + 3 <= close /\ close + 2 <= N
      BY <1>0, <1>8, KeyIs
    <3> HIDE DEF open, close
    <3>2. close + 3 \in 1 .. N + 1 /\ i < close + 3
      BY <1>0, <3>1
    <3>q. QED  BY <3>2
  <2>2. KeyAt(p, s, i, open, close, first, k) /\ KeyAt(p, s, i + 1, open, close, before, k)
    BY <1>1, <1>3, <1>8 DEF KeyAt
  <2> HIDE DEF open, close, before, k, first
  <2>3. Adds(M[i], first, k, M[close + 3]) /\ M[i] \in Meanings(R)
    BY <2>1, <2>2, MeantClosed
  <2>4. /\ Adds(M[i + 1], before, k, M[close + 3])
        /\ before \in Seq(W) /\ k \in Seq(W)
    BY <2>1, <2>2, MeantClosed
  <2> DEFINE w == old.written
  <2>5. w \in Seq(W)
    BY <2>1 DEF Meanings
  <2>6. first = c \o before
    BY <1>4 DEF first
  <2>7. /\ M[i].written = (first \o k) \o w /\ M[i + 1].written = (before \o k) \o w
        /\ M[i].tail = M[i + 1].tail /\ M[i].unclosed = M[i + 1].unclosed
    BY <2>3, <2>4 DEF Adds
  <2> HIDE DEF c, old, w, W
  <2>8. (first \o k) \o w = c \o ((before \o k) \o w)
    <3>1. (c \o before) \o k = c \o (before \o k)
      BY <1>5, <2>4, ConcatAssociative
    <3>2. before \o k \in Seq(W)
      BY <2>4, ConcatProperties
    <3>3. (c \o (before \o k)) \o w = c \o ((before \o k) \o w)
      BY <1>5, <2>5, <3>2, ConcatAssociative
    <3>q. QED  BY <2>6, <3>1, <3>3
  <2>9. M[i].written = c \o M[i + 1].written
    BY <2>7, <2>8
  <2>q. QED  BY <2>3, <2>7, <2>9 DEF c
<1>q. QED  BY <1>7, <1>8

LEMMA RuneIs ==
  ASSUME NEW R, NEW c \in R, "panic" \notin R
  PROVE  <<c>> \in Seq(Written(R)) /\ "panic" \notin ToSet(<<c>>)
<1>1. c \in Written(R)
  BY DEF Written
<1>2. ToSet(<<c>>) = {c}
  BY DEF ToSet
<1>q. QED  BY <1>1, <1>2

\* A position where no marker begins.
LEMMA RightAtRune ==
  ASSUME NEW R, NEW p, NEW s, NEW L, NEW M, Runs(R, p, s, L, M), NEW i \in 1 .. Len(s),
         \A j \in 1 .. Len(s) + 1 : i < j => Right(R, L[j], M[j]),
         ~MarkerAt(s, i)
  PROVE  Right(R, L[i], M[i])
<1> DEFINE N == Len(s)
           c == s[i]
           x == <<c>>
           out == L[i + 1]
           old == M[i + 1]
           new == M[i]
<1>0. /\ N \in Nat /\ i \in Nat /\ i >= 1 /\ i <= N /\ s \in Seq(R) /\ "panic" \notin R
      /\ i \in 1 .. N + 3 /\ i + 1 \in 1 .. N + 1 /\ i < i + 1 /\ ~(i > N)
  BY LenProperties DEF Runs
<1>1. \A j \in 1 .. N : s[j] \in R
  BY <1>0, ElementOfSeq
<1>2. c \in R
  BY <1>0, <1>1
<1>3. x \in Seq(Written(R)) /\ "panic" \notin ToSet(x)
  BY <1>0, <1>2, RuneIs
<1>4. Right(R, out, old)
  BY <1>0
<1>5. \A j \in 1 .. N + 1 : i < j => M[j] \in Meanings(R)
  BY DEF Right
<1>6. /\ new \in Meanings(R) /\ new.written = x \o old.written
      /\ new.unclosed = old.unclosed /\ (Stray(old.tail) => Stray(new.tail))
  BY <1>5, MeantNext
<1>7. L[i] = LocalizeFrom(s, p, i, L)
  BY <1>0 DEF Runs
<1>8. CASE ~(c = "%" /\ i + 1 = N /\ s[N] # "%")
  <2>1. L[i] = x \o out
    <3>1. i # N /\ i + 1 = N /\ c = "%" => s[N] = c
      BY <1>8
    <3>q. QED  BY <1>0, <1>7, <3>1 DEF LocalizeFrom
  <2> HIDE DEF x, out, old, new
  <2>2. Right(R, x \o out, new)
    BY <1>3, <1>4, <1>6, RightBefore
  <2>q. QED  BY <2>1, <2>2 DEF new
<1>9. CASE c = "%" /\ i + 1 = N /\ s[N] # "%"
  <2>1. Marker(s, i) = N + 1
    <3>1. i + 2 > N
      BY <1>0, <1>9
    <3>q. QED  BY <1>0, <3>1, NoMarkerThere
  <2>2. new.tail = SubSeq(s, i, N) /\ new.unclosed = << >>
    <3>1. i \in 1 .. N + 1 /\ ~(N + 1 <= N) /\ (N + 1) - 1 = N
      BY <1>0
    <3>2. new.tail = SubSeq(s, i, (N + 1) - 1) /\ new.unclosed = SubSeq(s, N + 1, N)
      BY <2>1, <3>1, MeantUnclosed
    <3>3. SubSeq(s, N + 1, N) = << >>
      BY <1>0, SubSeqEmpty
    <3>q. QED  BY <3>1, <3>2, <3>3
  <2>3. Stray(new.tail)
    <3> DEFINE t == SubSeq(s, i, N)
    <3>1. i \in Int /\ N \in Int /\ \A j \in i .. N : s[j] \in R
      BY <1>0, <1>1
    <3>2. /\ Len(t) = IF i <= N THEN N - i + 1 ELSE 0
          /\ \A j \in 1 .. N - i + 1 : t[j] = s[i + j - 1]
      BY <3>1, SubSeqProperties
    <3> HIDE DEF t
    <3>3. Len(t) = 2 /\ t[1] = s[i] /\ t[2] = s[N]
      <4>1. N - i + 1 = 2 /\ i + 1 - 1 = i /\ i + 2 - 1 = N
        BY <1>0, <1>9
      <4>q. QED  BY <1>0, <3>2, <4>1
    <3>4. Stray(t)
      BY <1>9, <3>3 DEF Stray
    <3>q. QED  BY <2>2, <3>4 DEF t
  <2>4. L[i] = <<s[N]>> \o out
    <3>1. i # N
      BY <1>0, <1>9
    <3>q. QED  BY <1>0, <1>7, <1>9, <3>1 DEF LocalizeFrom
  <2>5. s[N] \in R
    BY <1>0, <1>1
  <2> DEFINE y == <<s[N]>>
  <2>6. y \in Seq(Written(R)) /\ "panic" \notin ToSet(y)
    BY <1>0, <2>5, RuneIs
  <2>7. << >> # <<"%", "%", "%">>
    OBVIOUS
  <2> HIDE DEF y, out, new, old
  <2>8. "panic" \notin ToSet(out) /\ out \in Seq(Written(R))
    BY <1>4, <1>6, <2>2, <2>7 DEF Right
  <2>9. y \o out \in Seq(Written(R)) /\ "panic" \notin ToSet(y \o out)
    BY <2>6, <2>8, ConcatProperties, ToSetConcat
  <2>10. L[i] = y \o out
    BY <2>4 DEF y
  <2>11. Right(R, L[i], new)
    BY <1>6, <2>2, <2>3, <2>7, <2>9, <2>10 DEF Right
  <2>q. QED  BY <2>11 DEF new
<1>q. QED  BY <1>8, <1>9

\* Nothing comes before a marker that begins here.
LEMMA MarkerHere ==
  ASSUME NEW R, NEW s \in Seq(R), NEW i \in Nat, MarkerAt(s, i)
  PROVE  Marker(s, i) = i /\ i + 2 <= Len(s) /\ SubSeq(s, i, i - 1) = << >>
<1>1. i + 2 <= Len(s)
  BY LenProperties DEF MarkerAt
<1>2. Len(s) \in Nat
  BY LenProperties
<1> DEFINE m == Marker(s, i)
<1>3. m \in Nat /\ (m = Len(s) + 1 \/ i <= m) /\ m <= i
  BY MarkerIs
<1> HIDE DEF m
<1>4. m = i
  BY <1>1, <1>2, <1>3
<1>5. SubSeq(s, i, i - 1) = << >>
  <2>1. i \in Int /\ i - 1 \in Int /\ i - 1 < i
    OBVIOUS
  <2>q. QED  BY <2>1, SubSeqEmpty
<1>q. QED  BY <1>1, <1>4, <1>5 DEF m

\* Text that is not closed.
LEMMA RightUnclosed ==
  ASSUME NEW R, NEW out, NEW meant \in Meanings(R), out \in Seq(Written(R)),
         meant.written = << >>, meant.unclosed # << >>,
         "panic" \in ToSet(out) <=> meant.unclosed = <<"%", "%", "%">>
  PROVE  Right(R, out, meant)
<1>1. out = << >> \o out
  BY ConcatEmptySeq
<1>2. \E rest \in Seq(Written(R)) : out = meant.written \o rest
  BY <1>1
<1>q. QED  BY <1>2 DEF Right

LEMMA RightAtMarker ==
  ASSUME NEW R, NEW p, NEW s, NEW L, NEW M, Runs(R, p, s, L, M), NEW i \in 1 .. Len(s),
         \A j \in 1 .. Len(s) + 1 : i < j => Right(R, L[j], M[j]),
         MarkerAt(s, i)
  PROVE  Right(R, L[i], M[i])
<1> DEFINE N == Len(s)
           close == Marker(s, i + 3)
           end == CaptureEnd(s, i + 3)
           new == M[i]
<1>0. /\ N \in Nat /\ i \in Nat /\ i >= 1 /\ s \in Seq(R) /\ "panic" \notin R
      /\ i \in 1 .. N + 3 /\ i \in 1 .. N + 1 /\ i + 3 \in Nat
  BY LenProperties DEF Runs
<1>1. \A j \in 1 .. N : s[j] \in R
  BY <1>0, ElementOfSeq
<1>2. Marker(s, i) = i /\ i + 2 <= N /\ SubSeq(s, i, i - 1) = << >>
  BY <1>0, MarkerHere
<1>3. s[i] = "%" /\ s[i + 1] = "%" /\ s[i + 2] = "%"
  <2>1. i \in i .. i + 2 /\ i + 1 \in i .. i + 2 /\ i + 2 \in i .. i + 2
    BY <1>0
  <2>q. QED  BY <2>1 DEF MarkerAt
<1>4. i # N /\ i + 1 # N /\ ~(i > N) /\ i <= N
  BY <1>0, <1>2
<1>5. L[i] = IF i + 2 = N THEN <<"%", "%", "%">> \o Panic
             ELSE IF MarkerAt(s, end) THEN T(p, SubSeq(s, i + 3, end - 1)) \o L[end + 3]
             ELSE <<s[end]>> \o L[end + 1]
  <2>1. L[i] = LocalizeFrom(s, p, i, L)
    BY <1>0 DEF Runs
  <2>q. QED  BY <1>3, <1>4, <2>1 DEF LocalizeFrom
<1>6. close \in Nat /\ (close = N + 1 \/ (i + 3 <= close /\ close + 2 <= N /\ MarkerAt(s, close)))
  BY <1>0, MarkerIs
<1>7. \A j \in 1 .. N + 1 : i < j => M[j] \in Meanings(R)
  BY DEF Right
<1>u. ASSUME close = N + 1
      PROVE  /\ new \in Meanings(R) /\ new.written = << >>
             /\ new.unclosed = SubSeq(s, i, N)
             /\ Len(new.unclosed) = (N - i) + 1
             /\ \A j \in 1 .. (N - i) + 1 : new.unclosed[j] = s[i + j - 1]
  <2> DEFINE open == Marker(s, i)
  <2>1. open = i /\ ~(open <= N /\ Marker(s, open + 3) <= N)
    BY <1>0, <1>2, <1>u
  <2>2. new \in Meanings(R) /\ new.written = SubSeq(s, i, i - 1) /\ new.unclosed = SubSeq(s, i, N)
    <3>1. /\ new \in Meanings(R) /\ new.written = SubSeq(s, i, open - 1)
          /\ new.unclosed = SubSeq(s, open, N)
      <4>1. i \in 1 .. N + 1 /\ ~(open <= N /\ Marker(s, open + 3) <= N) /\ open = Marker(s, i)
        BY <1>0, <2>1
      <4> HIDE DEF open
      <4>q. QED  BY <4>1, MeantUnclosed
    <3> HIDE DEF open, new
    <3>q. QED  BY <2>1, <3>1
  <2>3. i \in Int /\ N \in Int /\ i <= N /\ (\A j \in i .. N : s[j] \in R) /\ N - i + 1 = (N - i) + 1
    BY <1>0, <1>1, <1>4
  <2>4. /\ Len(SubSeq(s, i, N)) = N - i + 1
        /\ \A j \in 1 .. N - i + 1 : SubSeq(s, i, N)[j] = s[i + j - 1]
    BY <2>3, SubSeqProperties
  <2>q. QED  BY <1>2, <2>2, <2>3, <2>4
<1>8. CASE i + 2 = N
  <2>1. close = N + 1
    <3>1. (i + 3) + 2 > N /\ i + 3 \in Nat
      BY <1>0, <1>8
    <3>q. QED  BY <1>0, <3>1, NoMarkerThere
  <2> DEFINE u == new.unclosed
  <2>2. new \in Meanings(R) /\ new.written = << >> /\ u \in Seq(R)
    BY <1>u, <2>1 DEF Meanings
  <2>3. Len(u) = 3 /\ u[1] = "%" /\ u[2] = "%" /\ u[3] = "%"
    <3>1. (N - i) + 1 = 3 /\ i + 1 - 1 = i /\ i + 2 - 1 = i + 1 /\ i + 3 - 1 = i + 2
      BY <1>0, <1>8
    <3>2. Len(u) = (N - i) + 1 /\ \A j \in 1 .. (N - i) + 1 : u[j] = s[i + j - 1]
      BY <1>u, <2>1
    <3> HIDE DEF u
    <3>3. Len(u) = 3 /\ \A j \in 1 .. 3 : u[j] = s[i + j - 1]
      BY <3>1, <3>2
    <3>4. u[1] = s[i] /\ u[2] = s[i + 1] /\ u[3] = s[i + 2]
      BY <3>1, <3>3
    <3>q. QED  BY <1>3, <3>3, <3>4
  <2> HIDE DEF u
  <2>4. u = <<"%", "%", "%">>
    BY <2>2, <2>3
  <2>5. <<"%", "%", "%">> \in Seq(Written(R)) /\ Panic \in Seq(Written(R))
    <3>1. "%" \in Written(R) /\ "panic" \in Written(R)
      <4>1. s[i] \in R
        BY <1>1, <1>0, <1>4
      <4>q. QED  BY <1>3, <4>1 DEF Written
    <3>q. QED  BY <3>1 DEF Panic
  <2> DEFINE x == <<"%", "%", "%">>
             q == Panic
  <2>6. "panic" \in ToSet(q)
    BY DEF ToSet, Panic
  <2>7. u # << >>
    BY <2>3
  <2>8. L[i] = x \o q
    BY <1>5, <1>8
  <2> HIDE DEF x, q, new
  <2>9. L[i] \in Seq(Written(R)) /\ "panic" \in ToSet(L[i])
    <3>1. x \in Seq(Written(R)) /\ q \in Seq(Written(R))
      BY <2>5 DEF x, q
    <3>q. QED  BY <2>6, <2>8, <3>1, ConcatProperties, ToSetConcat
  <2>q. QED  BY <2>2, <2>4, <2>7, <2>9, RightUnclosed DEF u, new
<1>9. CASE i + 2 # N
  <2>1. i + 3 <= N
    BY <1>0, <1>2, <1>9
  <2>2. /\ end \in Nat /\ i + 3 <= end /\ end <= N
        /\ MarkerAt(s, end) \/ end + 1 >= N
        /\ \A j \in Nat : i + 3 <= j /\ MarkerAt(s, j) => end <= j
    BY <1>0, <2>1, CaptureEndIs
  <2>3. CASE MarkerAt(s, end)
    <3> DEFINE k == T(p, SubSeq(s, i + 3, end - 1))
               out == L[end + 3]
               old == M[end + 3]
    <3>1. close <= end
      BY <1>0, <2>2, <2>3, MarkerIs
    <3>2. end + 2 <= N
      <4>1. Marker(s, end) = end /\ end + 2 <= N
        BY <1>0, <2>2, <2>3, MarkerHere
      <4>q. QED  BY <4>1
    <3>3. close = end /\ close <= N
      <4> HIDE DEF close, end
      <4>q. QED  BY <1>0, <1>6, <2>2, <3>1, <3>2
    <3>4. end + 3 \in 1 .. N + 1 /\ i < end + 3
      <4> HIDE DEF end
      <4>q. QED  BY <1>0, <2>2, <3>2
    <3>5. Right(R, out, old) /\ old \in Meanings(R)
      BY <1>7, <3>4
    <3>6. KeyAt(p, s, i, i, end, << >>, k)
      BY <1>0, <1>2, <1>4, <3>3 DEF KeyAt
    <3>7. L[i] = k \o out
      BY <1>5, <1>9, <2>3
    <3> HIDE DEF k, out, old, end, close, new
    <3>8. /\ k \in Seq(Written(R)) /\ "panic" \notin ToSet(<< >> \o k)
          /\ Adds(new, << >>, k, old) /\ new \in Meanings(R)
      BY <3>5, <3>6, MeantClosed DEF new, old
    <3>9. << >> \o k = k
      BY <3>8, ConcatEmptySeq
    <3>10. /\ new.written = k \o old.written /\ new.unclosed = old.unclosed
           /\ new.tail = old.tail
      BY <3>8, <3>9 DEF Adds
    <3>11. "panic" \notin ToSet(k)
      BY <3>8, <3>9
    <3>12. Right(R, k \o out, new)
      BY <3>5, <3>8, <3>10, <3>11, RightBefore
    <3>q. QED  BY <3>7, <3>12 DEF new
  <2>4. CASE ~MarkerAt(s, end)
    <3> DEFINE out == L[end + 1]
               old == M[end + 1]
               x == <<s[end]>>
    <3>1. close = N + 1
      <4>1. \A j \in Nat : i + 3 <= j /\ MarkerAt(s, j) => j + 2 <= N
        BY <1>0, MarkerHere
      <4>2. close # N + 1 => end <= close /\ close + 2 <= N
        BY <1>6, <2>2
      <4>3. end + 1 >= N
        BY <2>2, <2>4
      <4> HIDE DEF close, end
      <4>q. QED  BY <1>0, <1>6, <2>2, <4>2, <4>3
    <3>2. /\ new \in Meanings(R) /\ new.written = << >>
          /\ Len(new.unclosed) = (N - i) + 1
      BY <1>u, <3>1
    <3>3. new.unclosed # << >> /\ new.unclosed # <<"%", "%", "%">>
      <4>1. (N - i) + 1 > 3
        BY <1>0, <2>1
      <4> HIDE DEF new
      <4>2. Len(new.unclosed) # 0 /\ Len(new.unclosed) # 3
        BY <1>0, <3>2, <4>1
      <4>3. Len(<< >>) = 0 /\ Len(<<"%", "%", "%">>) = 3
        OBVIOUS
      <4>q. QED  BY <4>2, <4>3, Zenon
    <3>4. end + 1 \in 1 .. N + 1 /\ i < end + 1 /\ end \in 1 .. N /\ (end + 1) + 2 > N
          /\ end + 1 \in Nat
      <4> HIDE DEF end
      <4>q. QED  BY <1>0, <2>2, <2>4
    <3>5. Right(R, out, old)
      BY <3>4
    <3>6. old.unclosed = << >>
      <4>1. Marker(s, end + 1) = N + 1
        BY <1>0, <3>4, NoMarkerThere
      <4>2. ~(N + 1 <= N)
        BY <1>0
      <4>3. old.unclosed = SubSeq(s, N + 1, N)
        BY <3>4, <4>1, <4>2, MeantUnclosed
      <4>4. SubSeq(s, N + 1, N) = << >>
        <5>1. N + 1 \in Int /\ N \in Int /\ N < N + 1
          BY <1>0
        <5>q. QED  BY <5>1, SubSeqEmpty
      <4>q. QED  BY <4>3, <4>4
    <3>7. L[i] = x \o out
      BY <1>5, <1>9, <2>4
    <3>8. x \in Seq(Written(R)) /\ "panic" \notin ToSet(x)
      <4>1. s[end] \in R
        BY <1>1, <3>4
      <4>q. QED  BY <1>0, <4>1, RuneIs
    <3>9. << >> # <<"%", "%", "%">>
      OBVIOUS
    <3> HIDE DEF x, out, old, new, end
    <3>10. out \in Seq(Written(R)) /\ "panic" \notin ToSet(out)
      BY <3>5, <3>6, <3>9 DEF Right
    <3>11. L[i] \in Seq(Written(R)) /\ "panic" \notin ToSet(L[i])
      BY <3>7, <3>8, <3>10, ConcatProperties, ToSetConcat
    <3>12. Right(R, L[i], new)
      BY <3>2, <3>3, <3>11, RightUnclosed
    <3>q. QED  BY <3>12 DEF new
  <2>q. QED  BY <2>3, <2>4
<1>q. QED  BY <1>8, <1>9

LEMMA RightEverywhere ==
  ASSUME NEW R, NEW p, NEW s, NEW L, NEW M, Runs(R, p, s, L, M)
  PROVE  Right(R, L[1], M[1])
<1> DEFINE N == Len(s)
           S == {n \in Nat : \A i \in 1 .. N + 1 : i + n >= N + 1 => Right(R, L[i], M[i])}
<1>0. N \in Nat
  BY LenProperties DEF Runs
<1>1. 0 \in S
  <2>1. \A i \in 1 .. N + 1 : i + 0 >= N + 1 => i = N + 1
    BY <1>0
  <2>q. QED  BY <2>1, RightEnd
<1>2. ASSUME NEW n \in Nat, n \in S PROVE n + 1 \in S
  <2> SUFFICES ASSUME NEW i \in 1 .. N + 1, i + (n + 1) >= N + 1 PROVE Right(R, L[i], M[i])
    OBVIOUS
  <2>1. CASE i = N + 1
    BY <2>1, RightEnd
  <2>2. CASE i # N + 1
    <3>1. i \in 1 .. N
      BY <1>0, <2>2
    <3>2. ASSUME NEW j \in 1 .. N + 1, i < j PROVE Right(R, L[j], M[j])
      <4>1. j + n >= N + 1
        BY <1>0, <3>2
      <4>q. QED  BY <1>2, <4>1
    <3>q. QED  BY <3>1, <3>2, RightAtRune, RightAtMarker
  <2>q. QED  BY <2>1, <2>2
<1> HIDE DEF S
<1>3. N \in S
  BY <1>0, <1>1, <1>2, AllNumbers
<1>4. 1 \in 1 .. N + 1 /\ 1 + N >= N + 1
  BY <1>0
<1>q. QED  BY <1>3, <1>4 DEF S

\* In a text of any runes LocalizeTemplate (i18n.go:13-89) replaces each closed key by its
\* translation and keeps the rest, what precedes an open marker is right, and only an open
\* marker that ends the text is a panic; a % before a last rune is lost.
THEOREM LocalizedRight ==
  ASSUME NEW R, "panic" \notin R, text \in Seq(R), NEW p, p # "none"
  PROVE  Localized(p)
<1>1. PICK L : /\ LocalizeTemplate(text, p) = L[1]
               /\ \A i \in 1 .. Len(text) + 3 : L[i] = LocalizeFrom(text, p, i, L)
  BY LocalizeIs
<1>2. PICK M : /\ Replaced(text, p) = M[1]
               /\ \A i \in 1 .. Len(text) + 1 : M[i] = ReplacedFrom(text, p, i, M)
  BY ReplacedIs
<1> DEFINE out == LocalizeTemplate(text, p)
           meant == Replaced(text, p)
<1>3. Right(R, out, meant)
  <2>1. Runs(R, p, text, L, M)
    BY <1>1, <1>2 DEF Runs
  <2>q. QED  BY <1>1, <1>2, <2>1, RightEverywhere
<1> HIDE DEF out, meant
<1>4. meant.unclosed # << >> => IsPrefix(meant.written, out)
  <2> SUFFICES ASSUME meant.unclosed # << >> PROVE IsPrefix(meant.written, out)
    OBVIOUS
  <2> DEFINE w == meant.written
             W == Written(R)
  <2>1. w \in Seq(W)
    BY <1>3 DEF Right, Meanings
  <2>2. PICK rest \in Seq(W) : out = w \o rest
    BY <1>3 DEF Right
  <2> HIDE DEF w, W
  <2>3. /\ Len(w) \in Nat /\ Len(rest) \in Nat /\ Len(w \o rest) = Len(w) + Len(rest)
        /\ SubSeq(w, 1, Len(w)) = w
    BY <2>1, LenProperties, ConcatProperties, SubSeqFull
  <2>4. SubSeq(w \o rest, 1, Len(w)) = SubSeq(w, 1, Len(w))
    <3>1. CASE Len(w) = 0
      <4>1. SubSeq(w \o rest, 1, 0) = << >> /\ SubSeq(w, 1, 0) = << >>
        BY SubSeqEmpty
      <4>q. QED  BY <3>1, <4>1
    <3>2. CASE Len(w) # 0
      <4>1. 1 \in 1 .. Len(w) /\ Len(w) \in 1 .. Len(w)
        BY <2>3, <3>2
      <4>q. QED  BY <2>1, <4>1, SubSeqOfConcat1
    <3>q. QED  BY <3>1, <3>2
  <2>5. IsPrefix(w, out)
    BY <2>2, <2>3, <2>4 DEF IsPrefix
  <2>q. QED  BY <2>5 DEF w
<1>q. QED  BY <1>3, <1>4 DEF Localized, Right, Stray, out, meant

-----------------------------------------------------------------------------
(***************************************************************************)
(* parseTemplateIncludeDeps: the state of its loops at the beginning of a   *)
(* directive decides with the rest of the text how it ends, which is shown  *)
(* from the end of the text backwards; within a directive the loops are     *)
(* followed up to its first brace.                                         *)
(***************************************************************************)
\* The first brace of a directive.
LEMMA BraceIs ==
  ASSUME NEW R, NEW s \in Seq(R), NEW i \in Nat
  PROVE  LET b == EndOf(s, i) - 1
         IN  /\ b \in Nat /\ b <= Len(s) + 1
             /\ b <= Len(s) => i <= b /\ s[b] = "}"
             /\ \A j \in Nat : i <= j /\ j <= Len(s) /\ s[j] = "}" => b <= j
             /\ EndOf(s, i) = b + 1
<1> DEFINE N == Len(s)
           S == {j \in i .. N : s[j] = "}"} \cup {N + 1}
<1>1. N \in Nat
  BY LenProperties
<1>2. S \in SUBSET Nat /\ S # {}
  <2>1. i .. N \in SUBSET Nat /\ N + 1 \in Nat
    BY <1>1
  <2> HIDE DEF N
  <2>q. QED  BY <2>1
<1>3. EndOf(s, i) = Min(S) + 1
  BY DEF EndOf
<1> HIDE DEF N
<1>4. Min(S) \in S /\ \A y \in S : Min(S) <= y
  <2> HIDE DEF S
  <2>q. QED  BY <1>2, MinIs
<1> DEFINE m == Min(S)
<1>5. \A j \in Nat : i <= j /\ j <= N /\ s[j] = "}" => j \in S
  <2>1. \A k \in Nat : i <= k /\ k <= N => k \in i .. N
    BY <1>1
  <2>q. QED  BY <2>1
<1>6. m \in S /\ \A y \in S : m <= y
  BY <1>4
<1>7. EndOf(s, i) = m + 1
  BY <1>3
<1>8. \A y \in S : y \in Nat /\ y <= N + 1 /\ (y <= N => i <= y /\ s[y] = "}")
  <2>1. \A y \in i .. N : y \in Nat /\ y <= N + 1 /\ i <= y
    BY <1>1
  <2>2. N + 1 \in Nat /\ N + 1 <= N + 1 /\ ~(N + 1 <= N)
    BY <1>1
  <2>q. QED  BY <2>1, <2>2
<1> HIDE DEF S, m
<1>9. m \in Nat /\ m <= N + 1 /\ (m <= N => i <= m /\ s[m] = "}")
  BY <1>6, <1>8
<1>10. EndOf(s, i) - 1 = m
  <2>1. m \in Nat
    BY <1>9
  <2>2. (m + 1) - 1 = m
    BY <2>1
  <2>q. QED  BY <1>7, <2>2
<1>11. \A j \in Nat : i <= j /\ j <= N /\ s[j] = "}" => m <= j
  BY <1>5, <1>6
<1>q. QED  BY <1>7, <1>9, <1>10, <1>11 DEF N

\* What IncludedFrom says depends on what it says from later positions on.
LEMMA IncludedLater ==
  ASSUME NEW R, NEW s \in Seq(R), NEW c, NEW i \in 1 .. Len(s) + 1, NEW g, NEW h,
         \A j \in 1 .. Len(s) + 1 : i < j => g[j] = h[j]
  PROVE  IncludedFrom(s, i, c, g) = IncludedFrom(s, i, c, h)
<1> DEFINE N == Len(s)
           b == EndOf(s, i) - 1
<1>1. N \in Nat /\ i \in Nat /\ i >= 1
  BY LenProperties
<1>2. CASE i > N
  BY <1>2 DEF IncludedFrom
<1>3. CASE i <= N /\ ~Closed(s, i)
  <2>1. i + 1 \in 1 .. N + 1 /\ i < i + 1
    BY <1>1, <1>3
  <2>2. g[i + 1] = h[i + 1]
    BY <2>1
  <2>q. QED  BY <1>3, <2>2 DEF IncludedFrom
<1>4. CASE i <= N /\ Closed(s, i)
  <2>1. b \in Nat /\ (b <= N => i <= b) /\ EndOf(s, i) = b + 1
    BY <1>1, BraceIs
  <2>2. EndOf(s, i) <= N
    BY <1>4 DEF Closed
  <2>3. g[i + 1] = h[i + 1]
    <3>1. i + 1 \in 1 .. N + 1 /\ i < i + 1
      BY <1>1, <1>4
    <3>q. QED  BY <3>1
  <2>4. g[EndOf(s, i) + 1] = h[EndOf(s, i) + 1]
    <3> HIDE DEF b
    <3>1. EndOf(s, i) + 1 \in 1 .. N + 1 /\ i < EndOf(s, i) + 1
      BY <1>1, <2>1, <2>2
    <3>q. QED  BY <3>1
  <2>q. QED  BY <2>3, <2>4 DEF IncludedFrom
<1>q. QED  BY <1>1, <1>2, <1>3, <1>4

\* What is meant, from the end of the text on.
PartialsFrom(s, c, k, g) ==
  g = [i \in k .. Len(s) + 1 |-> IncludedFrom(s, i, c, g)]

LEMMA PartialsExist ==
  ASSUME NEW R, NEW s \in Seq(R), NEW c
  PROVE  \E g : PartialsFrom(s, c, 1, g)
<1> DEFINE M == Len(s) + 1
           S == {n \in Nat : n < M => \E g : PartialsFrom(s, c, M - n, g)}
<1>0. M \in Nat /\ M >= 1 /\ Len(s) \in Nat
  BY LenProperties
<1>1. 0 \in S
  <2>1. M > Len(s) /\ M \in M .. M /\ M - 0 = M
    BY <1>0
  <2> DEFINE g == [i \in M .. M |-> IncludedFrom(s, M, c, << >>)]
  <2>2. ASSUME NEW i \in M .. M PROVE IncludedFrom(s, i, c, << >>) = IncludedFrom(s, i, c, g)
    <3>1. i \in 1 .. M /\ \A j \in 1 .. M : ~(i < j)
      BY <1>0
    <3> HIDE DEF g
    <3>q. QED  BY <3>1, IncludedLater
  <2>3. \A i \in M .. M : i = M
    BY <1>0
  <2>4. \A i \in M .. M : g[i] = IncludedFrom(s, i, c, g)
    BY <2>2, <2>3
  <2>5. g = [i \in M .. M |-> IncludedFrom(s, i, c, g)]
    BY <2>4
  <2>6. PartialsFrom(s, c, M - 0, g)
    BY <2>1, <2>5 DEF PartialsFrom
  <2> HIDE DEF g
  <2>q. QED  BY <2>6
<1>2. ASSUME NEW n \in Nat, n \in S PROVE n + 1 \in S
  <2> SUFFICES ASSUME n + 1 < M PROVE \E g : PartialsFrom(s, c, M - (n + 1), g)
    OBVIOUS
  <2> DEFINE k == M - (n + 1)
  <2>0. k \in 1 .. M /\ M - n = k + 1 /\ n < M
    BY <1>0
  <2>1. PICK g : PartialsFrom(s, c, k + 1, g)
    BY <1>2, <2>0
  <2> DEFINE h == [i \in k .. M |-> IF i = k THEN IncludedFrom(s, k, c, g) ELSE g[i]]
  <2>2. \A i \in (k + 1) .. M : g[i] = IncludedFrom(s, i, c, g)
    BY <2>1 DEF PartialsFrom
  <2> HIDE DEF k, M
  <2>3. \A i \in (k + 1) .. M : h[i] = g[i]
    BY <2>0
  <2>4. ASSUME NEW i \in k .. M PROVE IncludedFrom(s, i, c, h) = IncludedFrom(s, i, c, g)
    <3>1. i \in 1 .. M
      BY <1>0, <2>0
    <3>2. \A j \in 1 .. M : i < j => h[j] = g[j]
      <4>1. \A j \in 1 .. M : i < j => j \in (k + 1) .. M
        BY <1>0, <2>0
      <4>q. QED  BY <2>3, <4>1
    <3> HIDE DEF h
    <3>q. QED  BY <3>1, <3>2, IncludedLater DEF M
  <2>5. ASSUME NEW i \in k .. M PROVE h[i] = IncludedFrom(s, i, c, h)
    <3>1. i = k \/ i \in (k + 1) .. M
      BY <1>0, <2>0
    <3>2. h[i] = IncludedFrom(s, i, c, g)
      BY <2>2, <2>3, <3>1
    <3> HIDE DEF h
    <3>q. QED  BY <2>4, <3>2
  <2>6. h = [i \in k .. M |-> IncludedFrom(s, i, c, h)]
    BY <2>5
  <2>7. PartialsFrom(s, c, k, h)
    BY <2>6 DEF PartialsFrom, M
  <2> HIDE DEF h
  <2>q. QED  BY <2>7 DEF k
<1> HIDE DEF S
<1>3. \A n \in Nat : n \in S
  BY <1>1, <1>2, AllNumbers
<1>4. M - 1 \in Nat /\ M - 1 < M /\ M - (M - 1) = 1
  BY <1>0
<1> HIDE DEF M
<1>5. M - 1 \in S
  BY <1>3, <1>4
<1>6. \E g : PartialsFrom(s, c, M - (M - 1), g)
  BY <1>4, <1>5 DEF S
<1>q. QED  BY <1>4, <1>6


\* What is meant, position by position.
LEMMA PartsAre ==
  ASSUME NEW R, NEW s \in Seq(R), NEW c
  PROVE  \E L : /\ IncludedParts(s, c) = L[1]
                /\ \A i \in 1 .. Len(s) + 1 : L[i] = IncludedFrom(s, i, c, L)
<1> DEFINE L == CHOOSE g : g = [i \in 1 .. Len(s) + 1 |-> IncludedFrom(s, i, c, g)]
<1>1. L = [i \in 1 .. Len(s) + 1 |-> IncludedFrom(s, i, c, L)]
  BY PartialsExist DEF PartialsFrom
<1>2. IncludedParts(s, c) = L[1]
  BY DEF IncludedParts
<1> HIDE DEF L
<1>3. \A i \in 1 .. Len(s) + 1 : L[i] = IncludedFrom(s, i, c, L)
  BY <1>1
<1>q. QED  BY <1>2, <1>3

\* The largest of finitely many.
LEMMA MaxIs ==
  ASSUME NEW n \in Nat, NEW S \in SUBSET (1 .. n), S # {}
  PROVE  Max(S) \in S /\ \A y \in S : y <= Max(S)
<1> DEFINE D == {n - y : y \in S}
<1>1. D \in SUBSET Nat /\ D # {}
  <2>1. \A y \in 1 .. n : n - y \in Nat
    OBVIOUS
  <2>q. QED  BY <2>1
<1>2. Min(D) \in D /\ \A y \in D : Min(D) <= y
  <2> HIDE DEF D
  <2>q. QED  BY <1>1, MinIs
<1>3. PICK x \in S : Min(D) = n - x
  BY <1>2
<1>4. ASSUME NEW y \in S PROVE y <= x
  <2>1. n - x <= n - y
    BY <1>2, <1>3
  <2>2. x \in 1 .. n /\ y \in 1 .. n
    OBVIOUS
  <2>q. QED  BY <2>1, <2>2
<1>q. QED  BY <1>4 DEF Max

\* What Trim leaves is made of the runes it is given.
LEMMA TrimTypes ==
  ASSUME NEW R, NEW s \in Seq(R)
  PROVE  Trim(s) \in Seq(R)
<1> DEFINE ink == {i \in DOMAIN s : s[i] # "_"}
<1>1. Len(s) \in Nat /\ DOMAIN s = 1 .. Len(s) /\ \A j \in 1 .. Len(s) : s[j] \in R
  BY LenProperties
<1>2. Trim(s) = IF ink = {} THEN << >> ELSE SubSeq(s, Min(ink), Max(ink))
  BY DEF Trim
<1>3. ink \in SUBSET (1 .. Len(s)) /\ ink \in SUBSET Nat
  <2>1. \A j \in 1 .. Len(s) : j \in Nat
    BY <1>1
  <2>2. \A j \in ink : j \in 1 .. Len(s)
    BY <1>1
  <2> HIDE DEF ink
  <2>q. QED  BY <2>1, <2>2
<1> HIDE DEF ink
<1>4. CASE ink = {}
  BY <1>2, <1>4, EmptySeq
<1>5. CASE ink # {}
  <2>1. Min(ink) \in 1 .. Len(s) /\ Max(ink) \in 1 .. Len(s)
    BY <1>1, <1>3, <1>5, MinIs, MaxIs
  <2>2. \A j \in Min(ink) .. Max(ink) : s[j] \in R
    BY <1>1, <2>1
  <2>3. SubSeq(s, Min(ink), Max(ink)) \in Seq(R)
    BY <2>1, <2>2, SubSeqProperties
  <2>q. QED  BY <1>2, <1>5, <2>3
<1>q. QED  BY <1>4, <1>5

\* What the loops make of a s from position i on, in the words of the code.
ReadFrom(s, i, out) ==
    LET word == Word(s, i)
        rest == out[EndOf(s, i) + 1]
    IN  IF i > Len(s) THEN Stop("nothing")
        ELSE IF ~Opens(s, i) THEN [out[i + 1] EXCEPT !.kept = <<s[i]>> \o @]
        ELSE IF ~Closed(s, i) THEN Stop("error")
        ELSE IF word = <<>> THEN Stop("panic")
        ELSE IF PathOf(word) = <<>> THEN Stop("error")
        ELSE IF NameOf(word) = <<>> THEN [rest EXCEPT !.kept = <<PathOf(word)>> \o @]
        ELSE [rest EXCEPT
                !.defined = <<<<"define", NameOf(word)>>, PathOf(word), "end">> \o @]

\* The code looks for directives where one may begin.
LEMMA OpensIs ==
  ASSUME NEW R, NEW s \in Seq(R), NEW i \in 1 .. Len(s)
  PROVE  Opens(s, i) <=> Directive(s, i)
<1> DEFINE N == Len(s)
           O == {j \in i .. N : s[j] = "open"}
           n == Cardinality(O)
<1>1. N \in Nat /\ i \in Nat /\ i >= 1 /\ i <= N /\ i \in i .. N
  BY LenProperties
<1>2. IsFiniteSet(O) /\ n \in Nat
  <2>1. IsFiniteSet(i .. N)
    BY <1>1, FS_Interval
  <2>2. O \subseteq i .. N
    OBVIOUS
  <2>q. QED  BY <2>1, <2>2, FS_Subset, FS_CardinalityType
<1>3. Bytes(s, i) = N - i + 1 + 9 * n
  BY DEF Bytes
<1>4. ASSUME s[i] = "open" PROVE (n = 1 <=> O = {i}) /\ n >= 1
  <2>1. {i} \subseteq O /\ Cardinality({i}) = 1 /\ IsFiniteSet({i})
    BY <1>1, <1>4, FS_Singleton
  <2>2. n >= 1 /\ (n = 1 => O = {i})
    BY <1>2, <2>1, FS_Subset
  <2>q. QED  BY <2>1, <2>2
<1>5. s[i] = "open" => (O = {i} <=> \A j \in i + 1 .. N : s[j] # "open")
  <2>1. \A j \in i .. N : j = i \/ j \in i + 1 .. N
    BY <1>1
  <2>2. \A j \in i + 1 .. N : j # i /\ j \in i .. N
    BY <1>1
  <2>q. QED  BY <1>1, <2>1, <2>2
<1>6. Late(s, i) <=> N < i + 4 /\ \A j \in i + 1 .. N : s[j] # "open"
  BY DEF Late
<1> HIDE DEF n, O, N
<1>7. CASE s[i] = "open"
  <2>1. n >= 1 /\ (n = 1 <=> \A j \in i + 1 .. N : s[j] # "open")
    BY <1>4, <1>5, <1>7
  <2>2. Bytes(s, i) > 13 <=> ~(N < i + 4 /\ n = 1)
    BY <1>1, <1>2, <1>3, <2>1
  <2>q. QED  BY <1>6, <1>7, <2>1, <2>2 DEF Opens, Directive
<1>8. CASE s[i] # "open"
  BY <1>8 DEF Opens, Directive
<1>q. QED  BY <1>7, <1>8

\* A word is taken apart as it is meant, but for the quote that closes a name.
LEMMA WordIs ==
  ASSUME NEW R, NEW w \in Seq(R), w # << >>
  PROVE  /\ PathOf(w) = Place(w)
         /\ NameOf(w) = << >> <=> ~Named(w)
         /\ Named(w) => NameOf(w) = <<"quote">> \o Name(w)
         /\ Named(w) => Name(w) \in Seq(R) /\ "quote" \in R
<1> DEFINE N == Len(w)
           Q == Quotes(w)
           m == Max(Q)
<1>1. /\ N \in Nat /\ N >= 1 /\ Head(w) = w[1] /\ DOMAIN w = 1 .. N
      /\ \A j \in 1 .. N : w[j] \in R
  BY LenProperties, EmptySeq
<1>2. Q = {j \in DOMAIN w : w[j] = "quote"}
  BY DEF Quotes
<1>3. CASE w[1] # "quote"
  BY <1>1, <1>3 DEF PathOf, NameOf, Place, Named
<1>4. CASE w[1] = "quote"
  <2>1. /\ PathOf(w) = Place(w) /\ NameOf(w) = SubSeq(w, 1, m - 1)
        /\ Named(w) <=> Q # {1}
    BY <1>1, <1>2, <1>4 DEF PathOf, NameOf, Place, Named
  <2>2. m \in 1 .. N /\ m \in Q /\ \A j \in Q : j <= m
    <3>1. Q \subseteq 1 .. N /\ 1 \in Q
      BY <1>1, <1>2, <1>4
    <3> HIDE DEF Q
    <3>3. m \in Q /\ \A j \in Q : j <= m
      BY <1>1, <3>1, MaxIs
    <3>q. QED  BY <3>1, <3>3
  <2>3. Named(w) <=> m > 1
    <3>1. m > 1 => Q # {1}
      BY <2>2
    <3>2. m = 1 => Q = {1}
      <4>1. \A j \in Q : j \in 1 .. N /\ j <= m
        BY <1>1, <1>2, <2>2
      <4>2. 1 \in Q
        BY <1>1, <1>2, <1>4
      <4> HIDE DEF Q, m
      <4>3. m = 1 => \A j \in Q : j = 1
        BY <1>1, <4>1
      <4>q. QED  BY <4>2, <4>3
    <3>q. QED  BY <1>1, <2>1, <2>2, <3>1, <3>2
  <2>4. Name(w) = SubSeq(w, 2, m - 1)
    BY DEF Name
  <2> HIDE DEF m, Q, N
  <2>5. m = 1 => SubSeq(w, 1, m - 1) = << >>
    BY <1>1
  <2>6. ASSUME m > 1 PROVE /\ SubSeq(w, 1, m - 1) = <<"quote">> \o SubSeq(w, 2, m - 1)
                           /\ SubSeq(w, 1, m - 1) # << >>
                           /\ SubSeq(w, 2, m - 1) \in Seq(R)
    <3>1. m - 1 \in Nat /\ m - 1 >= 1 /\ m - 1 <= N
      BY <1>1, <2>2, <2>6
    <3>2. \A j \in 2 .. m - 1 : w[j] \in R
      BY <1>1, <3>1
    <3>3. SubSeq(w, 2, m - 1) \in Seq(R)
      BY <1>1, <3>2, <3>1, SubSeqProperties
    <3> DEFINE u == SubSeq(w, 1, m - 1)
               v == <<"quote">> \o SubSeq(w, 2, m - 1)
    <3>4. u = [j \in 1 .. m - 1 |-> w[j]]
      BY <3>1, <1>1 DEF N
    <3>5. v = [j \in 1 .. m - 1 |-> w[j]]
      BY <3>1, <1>1, <1>4, <3>3 DEF N
    <3>6. u # << >>
      BY <3>1, <3>4
    <3>q. QED  BY <3>3, <3>4, <3>5, <3>6
  <2>7. m = 1 \/ m > 1
    BY <1>1, <2>2
  <2>8. "quote" \in R
    BY <1>1, <1>4
  <2>q. QED  BY <2>1, <2>3, <2>4, <2>5, <2>6, <2>7, <2>8
<1>q. QED  BY <1>3, <1>4

LEMMA WordTypes ==
  ASSUME NEW R, NEW s \in Seq(R), NEW i \in 1 .. Len(s), Closed(s, i)
  PROVE  Word(s, i) \in Seq(R)
<1> DEFINE N == Len(s)
           e == EndOf(s, i)
           v == SubSeq(s, i + 1, e - 2)
<1>1. N \in Nat /\ i \in Nat /\ \A j \in 1 .. N : s[j] \in R
  BY LenProperties
<1>2. e \in Nat /\ e <= N
  <2>1. e - 1 \in Nat /\ e = (e - 1) + 1
    BY <1>1, BraceIs
  <2>2. e <= N
    BY DEF Closed
  <2> HIDE DEF e
  <2>q. QED  BY <2>1, <2>2
<1>3. v \in Seq(R)
  <2> HIDE DEF e
  <2>1. i + 1 \in Int /\ e - 2 \in Int /\ \A j \in i + 1 .. e - 2 : j \in 1 .. N
    BY <1>1, <1>2
  <2>2. \A j \in i + 1 .. e - 2 : s[j] \in R
    BY <1>1, <2>1
  <2>q. QED  BY <2>1, <2>2, SubSeqProperties
<1>q. QED  BY <1>3, TrimTypes DEF Word

\* What is meant, with the closing quotes left out, is what the code says.
LEMMA SaidInCode ==
  ASSUME NEW R, NEW s \in Seq(R), NEW i \in 1 .. Len(s) + 1, NEW g
  PROVE  IncludedFrom(s, i, << >>, g) = ReadFrom(s, i, g)
<1> DEFINE w == Word(s, i)
           rest == g[EndOf(s, i) + 1]
<1>1. CASE i > Len(s)
  BY <1>1 DEF IncludedFrom, ReadFrom
<1>2. CASE ~(i > Len(s))
  <2>1. i \in 1 .. Len(s)
    BY <1>2, LenProperties
  <2>2. Opens(s, i) <=> Directive(s, i)
    BY <2>1, OpensIs
  <2>3. CASE ~Directive(s, i) \/ ~Closed(s, i) \/ w = << >>
    BY <1>2, <2>2, <2>3 DEF IncludedFrom, ReadFrom
  <2>4. CASE Directive(s, i) /\ Closed(s, i) /\ w # << >>
    <3>1. w \in Seq(R)
      BY <2>1, <2>4, WordTypes
    <3> HIDE DEF w, rest
    <3>2. /\ PathOf(w) = Place(w)
          /\ NameOf(w) = << >> <=> ~Named(w)
          /\ Named(w) => Definition(w, << >>) = <<<<"define", NameOf(w)>>, PathOf(w), "end">>
      <4>1. /\ PathOf(w) = Place(w) /\ (NameOf(w) = << >> <=> ~Named(w))
            /\ Named(w) => NameOf(w) = <<"quote">> \o Name(w)
            /\ Named(w) => Name(w) \in Seq(R) /\ "quote" \in R
        BY <2>4, <3>1, WordIs
      <4>2. Named(w) => (<<"quote">> \o Name(w)) \o << >> = <<"quote">> \o Name(w)
        <5>1. Named(w) => <<"quote">> \o Name(w) \in Seq(R)
          BY <4>1, ConcatProperties
        <5>q. QED  BY <5>1, ConcatEmptySeq
      <4>q. QED  BY <4>1, <4>2 DEF Definition
    <3>3. IncludedFrom(s, i, << >>, g) =
            IF Place(w) = << >> THEN Stop("error")
            ELSE IF Named(w) THEN [rest EXCEPT !.defined = Definition(w, << >>) \o @]
            ELSE [rest EXCEPT !.kept = <<Place(w)>> \o @]
      BY <1>2, <2>4 DEF IncludedFrom, w, rest
    <3>4. ReadFrom(s, i, g) =
            IF PathOf(w) = << >> THEN Stop("error")
            ELSE IF NameOf(w) = << >> THEN [rest EXCEPT !.kept = <<PathOf(w)>> \o @]
            ELSE [rest EXCEPT
                    !.defined = <<<<"define", NameOf(w)>>, PathOf(w), "end">> \o @]
      BY <1>2, <2>2, <2>4 DEF ReadFrom, w, rest
    <3>5. CASE Named(w)
      BY <3>2, <3>3, <3>4, <3>5
    <3>6. CASE ~Named(w)
      BY <3>2, <3>3, <3>4, <3>6
    <3>q. QED  BY <3>5, <3>6
  <2>q. QED  BY <2>3, <2>4
<1>q. QED  BY <1>1, <1>2

LEMMA IncludedIs ==
  ASSUME NEW R, NEW s \in Seq(R)
  PROVE  \E L : /\ IncludedUnquoted(s) = Whole(L[1])
                /\ \A i \in 1 .. Len(s) + 1 : L[i] = ReadFrom(s, i, L)
<1>1. PICK L : /\ IncludedParts(s, << >>) = L[1]
               /\ \A i \in 1 .. Len(s) + 1 : L[i] = IncludedFrom(s, i, << >>, L)
  BY PartsAre
<1>2. \A i \in 1 .. Len(s) + 1 : L[i] = ReadFrom(s, i, L)
  BY <1>1, SaidInCode
<1>q. QED  BY <1>1, <1>2 DEF IncludedUnquoted

-----------------------------------------------------------------------------
\* The turns of the loops of parseTemplateIncludeDeps.
IncludeTurns(s, n, g) ==
  g = [m \in 0..n |-> IF m = 0 THEN IncludeStart ELSE IncludeRune(s, g[m - 1], m)]

LEMMA IncludeTurnsExist ==
  ASSUME NEW s, NEW n \in Nat
  PROVE  \E g : IncludeTurns(s, n, g)
<1> DEFINE S == {m \in Nat : \E g : IncludeTurns(s, m, g)}
<1>1. 0 \in S
  <2>1. IncludeTurns(s, 0, [m \in 0..0 |-> IncludeStart])
    BY DEF IncludeTurns
  <2>q. QED  BY <2>1
<1>2. ASSUME NEW k \in Nat, k \in S PROVE k + 1 \in S
  <2>1. PICK g : IncludeTurns(s, k, g)
    BY <1>2
  <2> DEFINE h == [m \in 0..(k + 1) |-> IF m \in 0..k THEN g[m] ELSE IncludeRune(s, g[k], m)]
  <2>2. \A m \in 0..k : g[m] = IF m = 0 THEN IncludeStart ELSE IncludeRune(s, g[m - 1], m)
    BY <2>1 DEF IncludeTurns
  <2>3. ASSUME NEW m \in 0..(k + 1)
        PROVE  h[m] = IF m = 0 THEN IncludeStart ELSE IncludeRune(s, h[m - 1], m)
    <3>1. CASE m = 0
      BY <2>2, <3>1
    <3>2. CASE m # 0 /\ m \in 0..k
      <4>1. m - 1 \in 0..k /\ h[m - 1] = g[m - 1] /\ h[m] = g[m]
        BY <3>2
      <4>q. QED  BY <2>2, <3>2, <4>1
    <3>3. CASE m = k + 1
      <4>1. m - 1 = k /\ h[m - 1] = g[k] /\ h[m] = IncludeRune(s, g[k], m) /\ m # 0
        BY <3>3
      <4>q. QED  BY <4>1
    <3>q. QED  BY <3>1, <3>2, <3>3
  <2>4. h = [m \in 0..(k + 1) |-> IF m = 0 THEN IncludeStart ELSE IncludeRune(s, h[m - 1], m)]
    BY <2>3
  <2>5. IncludeTurns(s, k + 1, h)
    BY <2>4 DEF IncludeTurns
  <2> HIDE DEF h
  <2>q. QED  BY <2>5
<1> HIDE DEF S
<1>3. n \in S
  BY <1>1, <1>2, AllNumbers
<1>q. QED  BY <1>3 DEF S

LEMMA IncludeTurnsAre ==
  ASSUME NEW R, NEW s \in Seq(R)
  PROVE  \E a : /\ parseTemplateIncludeDeps(s) = IncludeEnd(a[Len(s)])
                /\ a[0] = IncludeStart
                /\ \A n \in 1..Len(s) : a[n] = IncludeRune(s, a[n - 1], n)
<1> DEFINE N == Len(s)
           L == CHOOSE g : g = [n \in 0..N |-> IF n = 0 THEN IncludeStart
                                              ELSE IncludeRune(s, g[n - 1], n)]
<1>1. N \in Nat
  BY LenProperties
<1>2. L = [n \in 0..N |-> IF n = 0 THEN IncludeStart ELSE IncludeRune(s, L[n - 1], n)]
  BY <1>1, IncludeTurnsExist DEF IncludeTurns
<1>3. parseTemplateIncludeDeps(s) = IncludeEnd(L[N])
  BY DEF parseTemplateIncludeDeps
<1> HIDE DEF L
<1>4. L[0] = IncludeStart /\ \A n \in 1..N : L[n] = IncludeRune(s, L[n - 1], n)
  BY <1>1, <1>2
<1>q. QED  BY <1>3, <1>4

-----------------------------------------------------------------------------
\* What can be written: runes, paths and definitions.
Pieces(R) == R \cup {PathOf(Trim(v)) : v \in Seq(R)}
               \cup {<<"define", NameOf(Trim(v))>> : v \in Seq(R)} \cup {"end"}

Loops(R) == [mode : {"text", "body", "brace", "error", "panic"}, wb : Seq(R),
             fb : Seq(Pieces(R)), stackb : Seq(Pieces(R))]

Ends(R) == [defined : Seq(Pieces(R)), kept : Seq(Pieces(R)),
            wrong : {"nothing", "error", "panic"}]

LEMMA PartialIs ==
  ASSUME NEW R, NEW st \in Loops(R), NEW v \in Seq(R)
  PROVE  LET word == Trim(v)
             t == Partial(st, word)
             add == <<<<"define", NameOf(word)>>, PathOf(word), "end">>
         IN  /\ t \in Loops(R)
             /\ word = << >> => t.mode = "panic"
             /\ word # << >> /\ PathOf(word) = << >> => t.mode = "error"
             /\ word # << >> /\ PathOf(word) # << >> /\ NameOf(word) = << >> =>
                  /\ t.mode = "text" /\ t.wb = << >>
                  /\ t.fb = Append(st.fb, PathOf(word)) /\ t.stackb = st.stackb
             /\ word # << >> /\ PathOf(word) # << >> /\ NameOf(word) # << >> =>
                  /\ t.mode = "text" /\ t.wb = << >>
                  /\ t.fb = st.fb /\ t.stackb = st.stackb \o add
<1> DEFINE word == Trim(v)
           t == Partial(st, word)
           path == PathOf(word)
           name == NameOf(word)
           add == <<<<"define", name>>, path, "end">>
           X == Pieces(R)
<1>1. path \in X /\ <<"define", name>> \in X /\ "end" \in X
  BY DEF Pieces
<1>2. /\ st = [mode |-> st.mode, wb |-> st.wb, fb |-> st.fb, stackb |-> st.stackb]
      /\ st.mode \in {"text", "body", "brace", "error", "panic"} /\ st.wb \in Seq(R)
      /\ st.fb \in Seq(X) /\ st.stackb \in Seq(X)
  BY DEF Loops
<1>3. t = IF word = << >> THEN [st EXCEPT !.mode = "panic"]
          ELSE IF path = << >> THEN [st EXCEPT !.mode = "error"]
          ELSE IF name = << >> THEN [Reset(st) EXCEPT !.fb = Append(@, path)]
          ELSE [Reset(st) EXCEPT !.stackb = @ \o add]
  BY DEF Partial
<1> HIDE DEF X, word, t, path, name, add
<1>4. /\ Reset(st) \in Loops(R)
      /\ Reset(st).mode = "text" /\ Reset(st).wb = << >>
      /\ Reset(st).fb = st.fb /\ Reset(st).stackb = st.stackb
  <2> DEFINE mid == [st EXCEPT !.mode = "text"]
             none == << >>
             r == [mid EXCEPT !.wb = none]
  <2>1. /\ mid \in Loops(R) /\ mid.mode = "text"
        /\ mid.fb = st.fb /\ mid.stackb = st.stackb
    BY DEF Loops
  <2>2. none \in Seq(R)
    BY EmptySeq
  <2>3. Reset(st) = r
    BY Zenon DEF Reset
  <2> HIDE DEF mid, none
  <2>4. /\ r \in Loops(R) /\ r.mode = mid.mode /\ r.wb = none
        /\ r.fb = mid.fb /\ r.stackb = mid.stackb
    BY <2>1, <2>2 DEF Loops
  <2> HIDE DEF r
  <2>q. QED  BY <2>1, <2>3, <2>4 DEF none
<1> DEFINE r == Reset(st)
           longer == Append(st.fb, path)
           more == st.stackb \o add
<1>5. longer \in Seq(X) /\ more \in Seq(X)
  <2>1. add \in Seq(X)
    BY <1>1 DEF add
  <2>q. QED  BY <1>1, <1>2, <2>1, AppendProperties, ConcatProperties
<1>6. word = << >> => t = [st EXCEPT !.mode = "panic"]
  BY <1>3
<1>7. word # << >> /\ path = << >> => t = [st EXCEPT !.mode = "error"]
  BY <1>3
<1>8. word # << >> /\ path # << >> /\ name = << >> => t = [r EXCEPT !.fb = longer]
  <2>1. Reset(st).fb = st.fb
    BY <1>4
  <2>q. QED  BY <1>3, <2>1
<1>9. word # << >> /\ path # << >> /\ name # << >> => t = [r EXCEPT !.stackb = more]
  <2>1. Reset(st).stackb = st.stackb
    BY <1>4
  <2>q. QED  BY <1>3, <2>1
<1>10. /\ r \in Loops(R) /\ r.mode = "text" /\ r.wb = << >>
       /\ r.fb = st.fb /\ r.stackb = st.stackb
  BY <1>4
<1> HIDE DEF r, longer, more
<1>11. /\ [st EXCEPT !.mode = "panic"] \in Loops(R)
       /\ [st EXCEPT !.mode = "panic"].mode = "panic"
       /\ [st EXCEPT !.mode = "error"] \in Loops(R)
       /\ [st EXCEPT !.mode = "error"].mode = "error"
  BY DEF Loops
<1>12. /\ [r EXCEPT !.fb = longer] \in Loops(R)
       /\ [r EXCEPT !.fb = longer].mode = r.mode /\ [r EXCEPT !.fb = longer].wb = r.wb
       /\ [r EXCEPT !.fb = longer].fb = longer
       /\ [r EXCEPT !.fb = longer].stackb = r.stackb
  BY <1>5, <1>10 DEF Loops, X
<1>13. /\ [r EXCEPT !.stackb = more] \in Loops(R)
       /\ [r EXCEPT !.stackb = more].mode = r.mode /\ [r EXCEPT !.stackb = more].wb = r.wb
       /\ [r EXCEPT !.stackb = more].fb = r.fb
       /\ [r EXCEPT !.stackb = more].stackb = more
  BY <1>5, <1>10 DEF Loops, X
<1>14. t \in Loops(R)
  BY <1>6, <1>7, <1>8, <1>9, <1>11, <1>12, <1>13
<1>15. /\ word = << >> => t.mode = "panic"
       /\ word # << >> /\ path = << >> => t.mode = "error"
  BY <1>6, <1>7, <1>11
<1>16. word # << >> /\ path # << >> /\ name = << >> =>
         t.mode = "text" /\ t.wb = << >> /\ t.fb = longer /\ t.stackb = st.stackb
  BY <1>8, <1>10, <1>12
<1>17. word # << >> /\ path # << >> /\ name # << >> =>
         t.mode = "text" /\ t.wb = << >> /\ t.fb = st.fb /\ t.stackb = more
  BY <1>9, <1>10, <1>13
<1>q. QED
  BY <1>14, <1>15, <1>16, <1>17, Zenon DEF word, t, path, name, add, longer, more

\* One turn, field by field.
Same(t, st) == t.fb = st.fb /\ t.stackb = st.stackb

Turn(R, s, st, i, t) ==
  /\ t \in Loops(R)
  /\ st.mode = "text" /\ Opens(s, i) => t.mode = "body" /\ t.wb = st.wb /\ Same(t, st)
  /\ st.mode = "text" /\ ~Opens(s, i) => /\ t.mode = "text" /\ t.wb = st.wb
                                         /\ t.fb = Append(st.fb, s[i])
                                         /\ t.stackb = st.stackb
  /\ st.mode = "body" /\ s[i] = "}" => t.mode = "brace" /\ t.wb = st.wb /\ Same(t, st)
  /\ st.mode = "body" /\ s[i] # "}" =>
       t.mode = "body" /\ t.wb = Append(st.wb, s[i]) /\ Same(t, st)
  /\ st.mode = "brace" /\ s[i] = "}" => t = Partial(st, Trim(st.wb))
  /\ st.mode = "brace" /\ s[i] # "}" => t.mode = "error"
  /\ st.mode \in {"error", "panic"} => t = st

LEMMA IncludeFields ==
  ASSUME NEW R, NEW s \in Seq(R), NEW st \in Loops(R), NEW i \in 1..Len(s)
  PROVE  Turn(R, s, st, i, IncludeRune(s, st, i))
<1> DEFINE t == IncludeRune(s, st, i)
           c == s[i]
           X == Pieces(R)
<1>1. c \in R /\ c \in X
  BY ElementOfSeq DEF Pieces
<1>2. /\ st = [mode |-> st.mode, wb |-> st.wb, fb |-> st.fb, stackb |-> st.stackb]
      /\ st.mode \in {"text", "body", "brace", "error", "panic"} /\ st.wb \in Seq(R)
      /\ st.fb \in Seq(X) /\ st.stackb \in Seq(X)
  BY DEF Loops
<1>3. /\ st.mode = "text" /\ Opens(s, i) => t = [st EXCEPT !.mode = "body"]
      /\ st.mode = "text" /\ ~Opens(s, i) => t = [st EXCEPT !.fb = Append(@, c)]
      /\ st.mode = "body" /\ c = "}" => t = [st EXCEPT !.mode = "brace"]
      /\ st.mode = "body" /\ c # "}" => t = [st EXCEPT !.wb = Append(@, c)]
      /\ st.mode = "brace" /\ c = "}" => t = Partial(st, Trim(st.wb))
      /\ st.mode = "brace" /\ c # "}" => t = [st EXCEPT !.mode = "error"]
      /\ st.mode \in {"error", "panic"} => t = st
  BY DEF IncludeRune
<1> HIDE DEF t, c, X
<1>4. Append(st.fb, c) \in Seq(X) /\ Append(st.wb, c) \in Seq(R)
  BY <1>1, <1>2, AppendProperties
<1>5. st.mode = "text" /\ Opens(s, i) => t.mode = "body" /\ t.wb = st.wb /\ Same(t, st)
  BY <1>2, <1>3 DEF Same
<1>6. st.mode = "text" /\ ~Opens(s, i) => /\ t.mode = "text" /\ t.wb = st.wb
                                          /\ t.fb = Append(st.fb, c) /\ t.stackb = st.stackb
  BY <1>2, <1>3
<1>7. st.mode = "body" /\ c = "}" => t.mode = "brace" /\ t.wb = st.wb /\ Same(t, st)
  BY <1>2, <1>3 DEF Same
<1>8. st.mode = "body" /\ c # "}" =>
        t.mode = "body" /\ t.wb = Append(st.wb, c) /\ Same(t, st)
  BY <1>2, <1>3 DEF Same
<1>9. st.mode = "brace" /\ c # "}" => t.mode = "error"
  BY <1>2, <1>3
<1>10. Partial(st, Trim(st.wb)) \in Loops(R)
  BY <1>2, PartialIs
<1>11. /\ [st EXCEPT !.mode = "body"] \in Loops(R)
       /\ [st EXCEPT !.mode = "brace"] \in Loops(R)
       /\ [st EXCEPT !.mode = "error"] \in Loops(R)
       /\ [st EXCEPT !.fb = Append(@, c)] \in Loops(R)
       /\ [st EXCEPT !.wb = Append(@, c)] \in Loops(R)
  BY <1>4 DEF Loops, X
<1>12. t \in Loops(R)
  BY <1>2, <1>3, <1>10, <1>11
<1>q. QED  BY <1>3, <1>5, <1>6, <1>7, <1>8, <1>9, <1>12, Zenon DEF Turn, t, c

-----------------------------------------------------------------------------
(***************************************************************************)
(* The loops beside the meaning, from each position on.                     *)
(***************************************************************************)
Loop(s, a) == /\ a[0] = IncludeStart
              /\ \A n \in 1..Len(s) : a[n] = IncludeRune(s, a[n - 1], n)

LEMMA LoopTypes ==
  ASSUME NEW R, NEW s \in Seq(R), NEW a, Loop(s, a)
  PROVE  \A n \in Nat : n <= Len(s) => a[n] \in Loops(R)
<1> DEFINE N == Len(s)
           A == {n \in Nat : n <= N => a[n] \in Loops(R)}
<1>0. N \in Nat
  BY LenProperties
<1>1. 0 \in A
  <2>1. IncludeStart \in Loops(R)
    BY EmptySeq DEF IncludeStart, Loops
  <2>q. QED  BY <2>1 DEF Loop
<1>2. ASSUME NEW n \in Nat, n \in A PROVE n + 1 \in A
  <2> SUFFICES ASSUME n + 1 <= N PROVE a[n + 1] \in Loops(R)
    OBVIOUS
  <2>1. n + 1 \in 1..N /\ (n + 1) - 1 = n /\ n <= N
    BY <1>0
  <2>2. a[n] \in Loops(R)
    BY <1>2, <2>1
  <2>3. a[n + 1] = IncludeRune(s, a[n], n + 1)
    BY <2>1 DEF Loop
  <2>4. Turn(R, s, a[n], n + 1, a[n + 1])
    BY <2>1, <2>2, <2>3, IncludeFields
  <2>q. QED  BY <2>4 DEF Turn
<1> HIDE DEF A
<1>3. \A n \in Nat : n \in A
  BY <1>1, <1>2, AllNumbers
<1>q. QED  BY <1>3 DEF A

\* Nothing changes once something is wrong.
LEMMA StaysWrong ==
  ASSUME NEW R, NEW s \in Seq(R), NEW a, Loop(s, a), NEW k \in Nat, k <= Len(s),
         a[k].mode \in {"error", "panic"}
  PROVE  a[Len(s)] = a[k]
<1> DEFINE N == Len(s)
           A == {n \in Nat : k + n <= N => a[k + n] = a[k]}
<1>0. N \in Nat
  BY LenProperties
<1>1. 0 \in A
  OBVIOUS
<1>2. ASSUME NEW n \in Nat, n \in A PROVE n + 1 \in A
  <2> SUFFICES ASSUME k + (n + 1) <= N PROVE a[k + (n + 1)] = a[k]
    OBVIOUS
  <2> DEFINE m == k + n
  <2>1. m + 1 \in 1..N /\ (m + 1) - 1 = m /\ m <= N /\ m \in Nat /\ k + (n + 1) = m + 1
    BY <1>0
  <2>2. a[m] = a[k]
    BY <1>2, <2>1
  <2> HIDE DEF m
  <2>3. a[m] \in Loops(R)
    BY <2>1, LoopTypes
  <2>4. a[m + 1] = IncludeRune(s, a[m], m + 1)
    BY <2>1 DEF Loop
  <2>5. Turn(R, s, a[m], m + 1, a[m + 1])
    BY <2>1, <2>3, <2>4, IncludeFields
  <2>6. a[m].mode \in {"error", "panic"}
    BY <2>2
  <2>7. a[m + 1] = a[k]
    BY <2>2, <2>5, <2>6 DEF Turn
  <2>q. QED  BY <2>1, <2>7
<1> HIDE DEF A
<1>3. \A n \in Nat : n \in A
  BY <1>1, <1>2, AllNumbers
<1>4. N - k \in Nat /\ k + (N - k) = N /\ N <= N
  BY <1>0
<1>5. N - k \in A
  BY <1>3, <1>4
<1>q. QED  BY <1>4, <1>5 DEF A

\* Within a directive, before its first brace.
Reading(s, i, st, t, n) ==
  t.mode = "body" /\ t.wb = SubSeq(s, i + 1, n) /\ Same(t, st)

LEMMA BodyIsRead ==
  ASSUME NEW R, NEW s \in Seq(R), NEW a, Loop(s, a), NEW i \in 1..Len(s),
         a[i - 1].mode = "text", a[i - 1].wb = << >>, Opens(s, i)
  PROVE  \A n \in Nat : i <= n /\ n + 1 < EndOf(s, i) /\ n <= Len(s) =>
                          Reading(s, i, a[i - 1], a[n], n)
<1> DEFINE N == Len(s)
           st == a[i - 1]
           b == EndOf(s, i) - 1
           A == {k \in Nat : i + k < b /\ i + k <= N => Reading(s, i, st, a[i + k], i + k)}
<1>0. N \in Nat /\ i \in Nat /\ i >= 1 /\ i - 1 \in Nat /\ i - 1 <= N
  BY LenProperties
<1>b. b \in Nat /\ b <= N + 1 /\ EndOf(s, i) = b + 1
  BY <1>0, BraceIs
<1>c. \A j \in Nat : i <= j /\ j <= N /\ s[j] = "}" => b <= j
  BY <1>0, BraceIs
<1>s. st \in Loops(R)
  BY <1>0, LoopTypes
<1>o. s[i] = "open"
  BY DEF Opens
<1> HIDE DEF b
<1>1. 0 \in A
  <2>1. a[i] = IncludeRune(s, st, i)
    BY DEF Loop
  <2>2. a[i].mode = "body" /\ a[i].wb = << >> /\ Same(a[i], st)
    <3> HIDE DEF st
    <3>1. st.mode = "text" /\ st.wb = << >>
      BY DEF st
    <3>2. Turn(R, s, st, i, a[i])
      BY <1>s, <2>1, IncludeFields
    <3>q. QED  BY <3>1, <3>2 DEF Turn
  <2>3. SubSeq(s, i + 1, i) = << >>
    <3>1. i + 1 \in Int /\ i \in Int /\ i < i + 1
      BY <1>0
    <3>q. QED  BY <3>1, SubSeqEmpty
  <2>4. Reading(s, i, st, a[i], i)
    BY <2>2, <2>3 DEF Reading
  <2>5. i + 0 = i
    BY <1>0
  <2>q. QED  BY <2>4, <2>5
<1>2. ASSUME NEW k \in Nat, k \in A PROVE k + 1 \in A
  <2> SUFFICES ASSUME i + (k + 1) < b, i + (k + 1) <= N
               PROVE  Reading(s, i, st, a[i + (k + 1)], i + (k + 1))
    OBVIOUS
  <2> DEFINE m == i + k
  <2>1. /\ m + 1 \in 1..N /\ (m + 1) - 1 = m /\ m <= N /\ m \in Nat /\ i + (k + 1) = m + 1
        /\ m < b /\ i <= m + 1 /\ m + 1 <= N /\ m + 1 \in Nat /\ ~(b <= m + 1)
        /\ i + 1 \in 1..N /\ m + 1 \in (i + 1)..N
    BY <1>0, <1>b
  <2>2. Reading(s, i, st, a[m], m)
    BY <1>2, <2>1
  <2> HIDE DEF m, st
  <2>3. a[m] \in Loops(R)
    BY <2>1, LoopTypes
  <2>4. a[m + 1] = IncludeRune(s, a[m], m + 1)
    BY <2>1 DEF Loop
  <2>5. s[m + 1] # "}"
    BY <1>c, <2>1
  <2> DEFINE old == a[m]
             new == a[m + 1]
  <2>6. old.mode = "body" /\ old.wb = SubSeq(s, i + 1, m) /\ Same(old, st)
    BY <2>2 DEF Reading
  <2>7. old \in Loops(R) /\ new = IncludeRune(s, old, m + 1)
    BY <2>3, <2>4
  <2> HIDE DEF old, new
  <2>8. new.mode = "body" /\ new.wb = Append(old.wb, s[m + 1]) /\ Same(new, old)
    <3>1. Turn(R, s, old, m + 1, new)
      BY <2>1, <2>7, IncludeFields
    <3>q. QED  BY <2>5, <2>6, <3>1 DEF Turn
  <2>9. SubSeq(s, i + 1, m + 1) = Append(old.wb, s[m + 1])
    <3> DEFINE u == SubSeq(s, i + 1, m)
               c == s[m + 1]
    <3>1. SubSeq(s, i + 1, m + 1) = u \o <<c>>
      BY <2>1, SubSeqRecursiveSecond
    <3>2. old.wb = u /\ old.wb \in Seq(R) /\ c \in R
      BY <2>1, <2>6, <2>7, ElementOfSeq DEF Loops
    <3> HIDE DEF u, c
    <3>3. Append(u, c) = u \o <<c>>
      BY <3>2, AppendIsConcat
    <3>4. SubSeq(s, i + 1, m + 1) = Append(old.wb, c)
      BY <3>1, <3>2, <3>3
    <3>q. QED  BY <3>4 DEF c
  <2>10. Same(new, st)
    BY <2>6, <2>8 DEF Same
  <2>11. Reading(s, i, st, new, m + 1)
    BY <2>8, <2>9, <2>10 DEF Reading
  <2>q. QED  BY <2>1, <2>11 DEF new
<1> HIDE DEF A, st
<1>3. \A k \in Nat : k \in A
  BY <1>1, <1>2, AllNumbers
<1>4. ASSUME NEW n \in Nat, i <= n, n + 1 < EndOf(s, i), n <= N
      PROVE  Reading(s, i, st, a[n], n)
  <2>1. n - i \in Nat /\ i + (n - i) = n /\ n < b
    BY <1>0, <1>4, <1>b
  <2>2. n - i \in A
    BY <1>3, <2>1
  <2>q. QED  BY <1>4, <2>1, <2>2 DEF A
<1>q. QED  BY <1>4 DEF st

\* What is meant with what has been written.
Rest(st, m) == IF m.wrong = "nothing" THEN (st.stackb \o m.defined) \o (st.fb \o m.kept)
               ELSE <<m.wrong>>

LEMMA RestOfRune ==
  ASSUME NEW R, NEW st \in Loops(R), NEW next \in Loops(R), NEW x \in Pieces(R),
         NEW m \in Ends(R), NEW later \in Ends(R),
         next.fb = Append(st.fb, x), next.stackb = st.stackb,
         m.defined = later.defined, m.kept = <<x>> \o later.kept, m.wrong = later.wrong
  PROVE  Rest(next, later) = Rest(st, m)
<1> DEFINE X == Pieces(R)
           f == st.fb
           k == later.kept
           y == <<x>>
<1>1. f \in Seq(X) /\ k \in Seq(X) /\ y \in Seq(X)
  BY DEF Loops, Ends
<1>2. Append(f, x) = f \o <<x>>
  BY <1>1, AppendIsConcat
<1>3. (f \o y) \o k = f \o (y \o k)
  <2> HIDE DEF X, f, k, y
  <2>q. QED  BY <1>1, ConcatAssociative
<1>4. next.fb \o later.kept = st.fb \o m.kept
  BY <1>2, <1>3
<1>q. QED  BY <1>4 DEF Rest

LEMMA RestOfDefinition ==
  ASSUME NEW R, NEW st \in Loops(R), NEW next \in Loops(R), NEW add \in Seq(Pieces(R)),
         NEW m \in Ends(R), NEW later \in Ends(R),
         next.fb = st.fb, next.stackb = st.stackb \o add,
         m.defined = add \o later.defined, m.kept = later.kept, m.wrong = later.wrong
  PROVE  Rest(next, later) = Rest(st, m)
<1> DEFINE X == Pieces(R)
           d == st.stackb
           k == later.defined
<1>1. d \in Seq(X) /\ k \in Seq(X)
  BY DEF Loops, Ends
<1>2. (d \o add) \o k = d \o (add \o k)
  <2> HIDE DEF X, d, k
  <2>1. add \in Seq(X)
    BY DEF X
  <2>q. QED  BY <1>1, <2>1, ConcatAssociative
<1>3. next.stackb \o later.defined = st.stackb \o m.defined
  BY <1>2
<1>q. QED  BY <1>3 DEF Rest

\* The loops and the meaning of one text; and that they agree from position i on.
Includings(R, s, a, M) ==
  /\ s \in Seq(R) /\ Loop(s, a)
  /\ \A i \in 1..Len(s) + 1 : M[i] = ReadFrom(s, i, M)

Agree(R, s, a, M, i) ==
  /\ M[i] \in Ends(R)
  /\ a[i - 1].mode = "text" /\ a[i - 1].wb = << >> =>
       IncludeEnd(a[Len(s)]) = Rest(a[i - 1], M[i])

LEMMA StopIs ==
  ASSUME NEW R, NEW w \in {"nothing", "error", "panic"}
  PROVE  /\ Stop(w) \in Ends(R) /\ Stop(w).wrong = w
         /\ Stop(w).defined = << >> /\ Stop(w).kept = << >>
<1>1. << >> \in Seq(Pieces(R))
  BY EmptySeq
<1>q. QED  BY <1>1 DEF Stop, Ends

LEMMA AgreeAtEnd ==
  ASSUME NEW R, NEW s, NEW a, NEW M, Includings(R, s, a, M)
  PROVE  Agree(R, s, a, M, Len(s) + 1)
<1> DEFINE N == Len(s)
           st == a[N]
           m == M[N + 1]
<1>0. N \in Nat /\ s \in Seq(R) /\ Loop(s, a) /\ N + 1 \in 1..N + 1 /\ N + 1 > N
      /\ (N + 1) - 1 = N /\ N <= N
  BY LenProperties DEF Includings
<1>1. m = Stop("nothing")
  BY <1>0 DEF Includings, ReadFrom
<1>2. m \in Ends(R) /\ m.wrong = "nothing" /\ m.defined = << >> /\ m.kept = << >>
  BY <1>1, StopIs
<1>3. st \in Loops(R)
  BY <1>0, LoopTypes
<1> HIDE DEF st, m
<1>4. st.stackb \o << >> = st.stackb /\ st.fb \o << >> = st.fb
  <2>1. st.stackb \in Seq(Pieces(R)) /\ st.fb \in Seq(Pieces(R))
    BY <1>3 DEF Loops
  <2>q. QED  BY <2>1, ConcatEmptySeq
<1>5. Rest(st, m) = st.stackb \o st.fb
  BY <1>2, <1>4 DEF Rest
<1>6. st.mode = "text" => IncludeEnd(st) = Rest(st, m)
  BY <1>5 DEF IncludeEnd
<1>q. QED  BY <1>0, <1>2, <1>6 DEF Agree, st, m

LEMMA AgreeAtRune ==
  ASSUME NEW R, NEW s, NEW a, NEW M, Includings(R, s, a, M), NEW i \in 1..Len(s),
         ~Opens(s, i), Agree(R, s, a, M, i + 1)
  PROVE  Agree(R, s, a, M, i)
<1> DEFINE N == Len(s)
           st == a[i - 1]
           next == a[i]
           m == M[i]
           later == M[i + 1]
           c == s[i]
<1>0. N \in Nat /\ i \in Nat /\ i <= N /\ ~(i > N) /\ i - 1 \in Nat /\ i - 1 <= N
      /\ (i + 1) - 1 = i /\ i \in 1..N + 1 /\ s \in Seq(R) /\ Loop(s, a)
  BY LenProperties DEF Includings
<1>1. st \in Loops(R) /\ next \in Loops(R)
  BY <1>0, LoopTypes
<1>2. later \in Ends(R)
  BY DEF Agree
<1>3. c \in R /\ c \in Pieces(R)
  BY <1>0, ElementOfSeq DEF Pieces
<1>4. Turn(R, s, st, i, next)
  <2>1. next = IncludeRune(s, st, i)
    BY DEF Includings, Loop
  <2> HIDE DEF st, next
  <2>q. QED  BY <1>0, <1>1, <2>1, IncludeFields
<1>5. m = [later EXCEPT !.kept = <<c>> \o @]
  BY <1>0 DEF Includings, ReadFrom
<1>6. /\ m \in Ends(R) /\ m.defined = later.defined /\ m.wrong = later.wrong
      /\ m.kept = <<c>> \o later.kept
  <2> DEFINE k == <<c>> \o later.kept
  <2>1. k \in Seq(Pieces(R))
    <3> DEFINE y == <<c>>
               l == later.kept
               X == Pieces(R)
    <3>1. y \in Seq(X) /\ l \in Seq(X)
      BY <1>2, <1>3 DEF Ends
    <3> HIDE DEF y, l, X
    <3>2. y \o l \in Seq(X)
      BY <3>1, ConcatProperties
    <3>q. QED  BY <3>2 DEF y, l, X
  <2>2. m = [later EXCEPT !.kept = k]
    BY <1>5
  <2> HIDE DEF m, later, k
  <2>3. /\ m \in Ends(R) /\ m.defined = later.defined /\ m.wrong = later.wrong
        /\ m.kept = k
    BY <1>2, <2>1, <2>2 DEF Ends
  <2>q. QED  BY <2>3 DEF k
<1>8. next.mode = "text" /\ next.wb = << >> => IncludeEnd(a[N]) = Rest(next, later)
  BY <1>0 DEF Agree
<1> HIDE DEF st, next, m, later, c
<1>9. ASSUME st.mode = "text", st.wb = << >> PROVE IncludeEnd(a[N]) = Rest(st, m)
  <2>1. /\ next.mode = "text" /\ next.wb = << >> /\ next.fb = Append(st.fb, c)
        /\ next.stackb = st.stackb
    BY <1>4, <1>9 DEF Turn, c
  <2>2. Rest(next, later) = Rest(st, m)
    BY <1>1, <1>2, <1>3, <1>6, <2>1, RestOfRune
  <2>q. QED  BY <1>8, <2>1, <2>2
<1>q. QED  BY <1>6, <1>9 DEF Agree, st, m

\* The loop at the first brace of a directive.
LEMMA BraceReached ==
  ASSUME NEW R, NEW s \in Seq(R), NEW a, Loop(s, a), NEW i \in 1..Len(s),
         a[i - 1].mode = "text", a[i - 1].wb = << >>, Opens(s, i),
         NEW b \in Nat, EndOf(s, i) = b + 1, b <= Len(s)
  PROVE  /\ a[b].mode = "brace" /\ a[b].wb = SubSeq(s, i + 1, b - 1)
         /\ Same(a[b], a[i - 1]) /\ i + 1 <= b /\ a[b] \in Loops(R)
<1> DEFINE N == Len(s)
           st == a[i - 1]
           old == a[b - 1]
           new == a[b]
<1>0. N \in Nat /\ i \in Nat /\ i >= 1
  BY LenProperties
<1>1. (b + 1) - 1 = b
  OBVIOUS
<1>2. i <= b /\ s[b] = "}"
  BY <1>0, <1>1, BraceIs
<1>3. b # i
  BY <1>2 DEF Opens
<1>4. i <= b
  BY <1>2
<1>5. /\ i + 1 <= b /\ b - 1 \in Nat /\ i <= b - 1 /\ (b - 1) + 1 < b + 1 /\ b - 1 <= N
      /\ b \in 1..N
  BY <1>0, <1>3, <1>4
<1>6. Reading(s, i, st, old, b - 1)
  BY <1>5, BodyIsRead
<1>7. old \in Loops(R) /\ new \in Loops(R)
  BY <1>5, LoopTypes
<1>8. Turn(R, s, old, b, new)
  <2>1. new = IncludeRune(s, old, b)
    BY <1>5 DEF Loop
  <2> HIDE DEF old, new
  <2>q. QED  BY <1>5, <1>7, <2>1, IncludeFields
<1> HIDE DEF st, old, new
<1>9. new.mode = "brace" /\ new.wb = old.wb /\ Same(new, old)
  BY <1>2, <1>6, <1>8 DEF Turn, Reading
<1>10. new.wb = SubSeq(s, i + 1, b - 1) /\ Same(new, st)
  BY <1>6, <1>9 DEF Reading, Same
<1>q. QED  BY <1>5, <1>7, <1>9, <1>10 DEF new, st

\* A directive that is not closed is an error.
LEMMA UnclosedFails ==
  ASSUME NEW R, NEW s \in Seq(R), NEW a, Loop(s, a), NEW i \in 1..Len(s),
         a[i - 1].mode = "text", a[i - 1].wb = << >>, Opens(s, i), ~Closed(s, i)
  PROVE  IncludeEnd(a[Len(s)]) = <<"error">>
<1> DEFINE N == Len(s)
           b == EndOf(s, i) - 1
<1>0. N \in Nat /\ i \in Nat /\ i >= 1 /\ i <= N /\ N <= N
  BY LenProperties
<1>1. b \in Nat /\ b <= N + 1 /\ EndOf(s, i) = b + 1
  BY <1>0, BraceIs
<1> HIDE DEF b
<1>2. CASE b = N + 1
  <2>1. N + 1 < EndOf(s, i)
    BY <1>0, <1>1, <1>2
  <2>2. Reading(s, i, a[i - 1], a[N], N)
    BY <1>0, <2>1, BodyIsRead
  <2>q. QED  BY <2>2 DEF Reading, IncludeEnd
<1>3. CASE b <= N
  <2>1. a[b].mode = "brace" /\ a[b] \in Loops(R)
    BY <1>1, <1>3, BraceReached
  <2>2. CASE b = N
    BY <2>1, <2>2 DEF IncludeEnd
  <2>3. CASE b # N
    <3>1. b + 1 \in 1..N /\ b + 1 <= N /\ b + 1 \in Nat /\ (b + 1) - 1 = b
      BY <1>0, <1>1, <1>3, <2>3
    <3>2. s[b + 1] # "}"
      BY <1>1, <3>1 DEF Closed
    <3> DEFINE old == a[b]
               new == a[b + 1]
    <3>3. Turn(R, s, old, b + 1, new)
      <4>1. new = IncludeRune(s, old, b + 1)
        BY <3>1 DEF Loop
      <4>2. old \in Loops(R)
        BY <2>1
      <4> HIDE DEF old, new
      <4>q. QED  BY <3>1, <4>1, <4>2, IncludeFields
    <3>4. old.mode = "brace"
      BY <2>1
    <3> HIDE DEF old, new
    <3>5. new.mode = "error"
      BY <3>2, <3>3, <3>4 DEF Turn
    <3>6. a[N] = a[b + 1] /\ a[b + 1].mode = "error"
      BY <3>1, <3>5, StaysWrong DEF new
    <3>q. QED  BY <3>6 DEF IncludeEnd
  <2>q. QED  BY <2>2, <2>3
<1>q. QED  BY <1>0, <1>1, <1>2, <1>3

\* What is meant by a directive that is closed.
LEMMA ClosedMeans ==
  ASSUME NEW R, NEW s, NEW a, NEW M, Includings(R, s, a, M), NEW i \in 1..Len(s),
         Opens(s, i), Closed(s, i), M[EndOf(s, i) + 1] \in Ends(R)
  PROVE  LET word == Word(s, i)
             m == M[i]
             later == M[EndOf(s, i) + 1]
             add == <<<<"define", NameOf(word)>>, PathOf(word), "end">>
         IN  /\ word = << >> => m = Stop("panic")
             /\ word # << >> /\ PathOf(word) = << >> => m = Stop("error")
             /\ word # << >> /\ PathOf(word) # << >> /\ NameOf(word) = << >> =>
                  /\ m.defined = later.defined /\ m.kept = <<PathOf(word)>> \o later.kept
                  /\ m.wrong = later.wrong
                  /\ PathOf(word) \in Pieces(R) => m \in Ends(R)
             /\ word # << >> /\ PathOf(word) # << >> /\ NameOf(word) # << >> =>
                  /\ m.defined = add \o later.defined /\ m.kept = later.kept
                  /\ m.wrong = later.wrong
                  /\ add \in Seq(Pieces(R)) => m \in Ends(R)
<1> DEFINE word == Word(s, i)
           path == PathOf(word)
           name == NameOf(word)
           m == M[i]
           later == M[EndOf(s, i) + 1]
           add == <<<<"define", name>>, path, "end">>
           keep == <<path>> \o later.kept
           define == add \o later.defined
<1>0. Len(s) \in Nat /\ i \in 1..Len(s) + 1 /\ ~(i > Len(s))
  BY LenProperties DEF Includings
<1>1. m = ReadFrom(s, i, M)
  BY <1>0 DEF Includings
<1>2. m = IF word = << >> THEN Stop("panic")
          ELSE IF path = << >> THEN Stop("error")
          ELSE IF name = << >> THEN [later EXCEPT !.kept = <<path>> \o @]
          ELSE [later EXCEPT !.defined = add \o @]
  BY <1>0, <1>1 DEF ReadFrom
<1>3. later \in Ends(R)
  OBVIOUS
<1> HIDE DEF word, path, name, m, later, add
<1>4. word # << >> /\ path # << >> /\ name = << >> => m = [later EXCEPT !.kept = keep]
  BY <1>2
<1>5. word # << >> /\ path # << >> /\ name # << >> => m = [later EXCEPT !.defined = define]
  BY <1>2
<1>6. path \in Pieces(R) => keep \in Seq(Pieces(R))
  <2> DEFINE y == <<path>>
             l == later.kept
             X == Pieces(R)
  <2>1. path \in X => y \in Seq(X) /\ l \in Seq(X)
    BY <1>3 DEF Ends
  <2> HIDE DEF y, l, X
  <2>2. path \in X => y \o l \in Seq(X)
    BY <2>1, ConcatProperties
  <2>q. QED  BY <2>2 DEF y, l, X
<1>7. add \in Seq(Pieces(R)) => define \in Seq(Pieces(R))
  <2> DEFINE l == later.defined
             X == Pieces(R)
  <2>1. l \in Seq(X)
    BY <1>3 DEF Ends
  <2> HIDE DEF l, X
  <2>2. add \in Seq(X) => add \o l \in Seq(X)
    BY <2>1, ConcatProperties
  <2>q. QED  BY <2>2 DEF l, X
<1> HIDE DEF keep, define
<1>8. /\ [later EXCEPT !.kept = keep].defined = later.defined
      /\ [later EXCEPT !.kept = keep].kept = keep
      /\ [later EXCEPT !.kept = keep].wrong = later.wrong
      /\ keep \in Seq(Pieces(R)) => [later EXCEPT !.kept = keep] \in Ends(R)
  BY <1>3 DEF Ends
<1>9. /\ [later EXCEPT !.defined = define].defined = define
      /\ [later EXCEPT !.defined = define].kept = later.kept
      /\ [later EXCEPT !.defined = define].wrong = later.wrong
      /\ define \in Seq(Pieces(R)) => [later EXCEPT !.defined = define] \in Ends(R)
  BY <1>3 DEF Ends
<1>10. word # << >> /\ path # << >> /\ name = << >> =>
         /\ m.defined = later.defined /\ m.kept = keep /\ m.wrong = later.wrong
         /\ path \in Pieces(R) => m \in Ends(R)
  BY <1>4, <1>6, <1>8
<1>11. word # << >> /\ path # << >> /\ name # << >> =>
         /\ m.defined = define /\ m.kept = later.kept /\ m.wrong = later.wrong
         /\ add \in Seq(Pieces(R)) => m \in Ends(R)
  BY <1>5, <1>7, <1>9
<1>12. word = << >> => m = Stop("panic")
  BY <1>2
<1>13. word # << >> /\ path = << >> => m = Stop("error")
  BY <1>2
<1>q. QED
  BY <1>10, <1>11, <1>12, <1>13, Zenon DEF word, path, name, m, later, add, keep, define

LEMMA AgreeAtDirective ==
  ASSUME NEW R, NEW s, NEW a, NEW M, Includings(R, s, a, M), NEW i \in 1..Len(s),
         Opens(s, i), \A j \in 1..Len(s) + 1 : i < j => Agree(R, s, a, M, j)
  PROVE  Agree(R, s, a, M, i)
<1> DEFINE N == Len(s)
           b == EndOf(s, i) - 1
           st == a[i - 1]
           m == M[i]
           started == st.mode = "text" /\ st.wb = << >>
<1>0. /\ N \in Nat /\ i \in Nat /\ i >= 1 /\ i <= N /\ ~(i > N) /\ i - 1 \in Nat /\ i - 1 <= N
      /\ i \in 1..N + 1 /\ s \in Seq(R) /\ Loop(s, a)
  BY LenProperties DEF Includings
<1>1. b \in Nat /\ b <= N + 1 /\ EndOf(s, i) = b + 1
  BY <1>0, BraceIs
<1>2. st \in Loops(R)
  BY <1>0, LoopTypes
<1>b. b <= N => i <= b
  BY <1>0, BraceIs
<1> HIDE DEF b
<1>3. CASE ~Closed(s, i)
  <2>1. m = Stop("error")
    BY <1>0, <1>3 DEF Includings, ReadFrom
  <2>2. m \in Ends(R) /\ m.wrong = "error"
    BY <2>1, StopIs
  <2>3. started => IncludeEnd(a[N]) = <<"error">>
    BY <1>0, <1>3, UnclosedFails
  <2> HIDE DEF st, m
  <2>4. Rest(st, m) = <<"error">>
    BY <2>2 DEF Rest
  <2>q. QED  BY <2>2, <2>3, <2>4 DEF Agree, m, st
<1>4. CASE Closed(s, i)
  <2> DEFINE e == b + 1
             old == a[b]
             next == a[e]
             later == M[e + 1]
             v == SubSeq(s, i + 1, b - 1)
             word == Trim(v)
             path == PathOf(word)
             name == NameOf(word)
             add == <<<<"define", name>>, path, "end">>
  <2>1. e <= N /\ s[e] = "}"
    BY <1>1, <1>4 DEF Closed
  <2>2. e <= N
    BY <2>1
  <2>3. /\ b <= N /\ e \in 1..N /\ e - 1 = b /\ e + 1 \in 1..N + 1 /\ (e + 1) - 1 = e
        /\ e \in Nat /\ (b + 1) - 2 = b - 1
    BY <1>0, <1>1, <2>2
  <2>5. i < e + 1
    BY <1>0, <1>1, <1>b, <2>3
  <2>6. v \in Seq(R)
    <3>1. i + 1 \in Int /\ b - 1 \in Int /\ \A j \in i + 1..b - 1 : j \in 1..N
      BY <1>0, <1>1, <2>3
    <3>2. \A j \in i + 1..b - 1 : s[j] \in R
      BY <1>0, <3>1, ElementOfSeq
    <3>q. QED  BY <3>1, <3>2, SubSeqProperties
  <2>7. Word(s, i) = word
    BY <1>1, <2>3 DEF Word
  <2>8. path \in Pieces(R) /\ add \in Seq(Pieces(R))
    <3> DEFINE X == Pieces(R)
               d == <<"define", name>>
    <3>1. path \in X /\ d \in X /\ "end" \in X
      BY <2>6 DEF Pieces
    <3> HIDE DEF X, d, path
    <3>2. <<d, path, "end">> \in Seq(X)
      BY <3>1
    <3>q. QED  BY <3>1, <3>2 DEF X, d, path
  <2>9. Agree(R, s, a, M, e + 1)
    BY <2>3, <2>5
  <2>10. later \in Ends(R)
    BY <2>9 DEF Agree
  <2>11. next.mode = "text" /\ next.wb = << >> => IncludeEnd(a[N]) = Rest(next, later)
    BY <2>3, <2>9 DEF Agree
  <2>12. /\ word = << >> => m = Stop("panic")
         /\ word # << >> /\ path = << >> => m = Stop("error")
         /\ word # << >> /\ path # << >> /\ name = << >> =>
              /\ m.defined = later.defined /\ m.kept = <<path>> \o later.kept
              /\ m.wrong = later.wrong
              /\ m \in Ends(R)
         /\ word # << >> /\ path # << >> /\ name # << >> =>
              /\ m.defined = add \o later.defined /\ m.kept = later.kept
              /\ m.wrong = later.wrong
              /\ m \in Ends(R)
    <3>1. EndOf(s, i) + 1 = e + 1
      BY <1>1
    <3>2. M[EndOf(s, i) + 1] \in Ends(R)
      BY <2>10, <3>1
    <3> HIDE DEF word, path, name, add, m
    <3>3. Word(s, i) = word /\ PathOf(word) = path /\ NameOf(word) = name
          /\ add = <<<<"define", NameOf(word)>>, PathOf(word), "end">>
      BY <2>7 DEF path, name, add
    <3>4. m = M[i]
      BY DEF m
    <3>q. QED  BY <1>4, <2>8, <3>1, <3>2, <3>3, <3>4, ClosedMeans
  <2>13. started => /\ old.mode = "brace" /\ old.wb = v /\ Same(old, st) /\ old \in Loops(R)
    BY <1>0, <1>1, <2>3, BraceReached
  <2>14. started => next = Partial(old, word)
    <3> SUFFICES ASSUME started PROVE next = Partial(old, Trim(old.wb))
      BY <2>13
    <3>1. next = IncludeRune(s, old, e)
      BY <1>0, <2>3 DEF Loop
    <3>2. old \in Loops(R) /\ old.mode = "brace"
      BY <2>13
    <3> HIDE DEF old, next, e, word, v, started
    <3>3. Turn(R, s, old, e, next)
      BY <1>0, <2>3, <3>1, <3>2, IncludeFields
    <3>q. QED  BY <2>1, <3>2, <3>3 DEF Turn
  <2>15. next \in Loops(R)
    BY <1>0, <2>3, LoopTypes
  <2> DEFINE Effect ==
        /\ word = << >> => next.mode = "panic"
        /\ word # << >> /\ path = << >> => next.mode = "error"
        /\ word # << >> /\ path # << >> /\ name = << >> =>
             /\ next.mode = "text" /\ next.wb = << >>
             /\ next.fb = Append(st.fb, path) /\ next.stackb = st.stackb
        /\ word # << >> /\ path # << >> /\ name # << >> =>
             /\ next.mode = "text" /\ next.wb = << >>
             /\ next.fb = st.fb /\ next.stackb = st.stackb \o add
  <2>16. started => Effect
    <3> SUFFICES ASSUME started PROVE Effect
      OBVIOUS
    <3>1. old \in Loops(R) /\ next = Partial(old, word) /\ old.fb = st.fb
          /\ old.stackb = st.stackb
      BY <2>13, <2>14 DEF Same
    <3> HIDE DEF old, next, started, st
    <3>2. /\ word = << >> => next.mode = "panic"
          /\ word # << >> /\ path = << >> => next.mode = "error"
          /\ word # << >> /\ path # << >> /\ name = << >> =>
               /\ next.mode = "text" /\ next.wb = << >>
               /\ next.fb = Append(old.fb, path) /\ next.stackb = old.stackb
          /\ word # << >> /\ path # << >> /\ name # << >> =>
               /\ next.mode = "text" /\ next.wb = << >>
               /\ next.fb = old.fb /\ next.stackb = old.stackb \o add
      <4> HIDE DEF v
      <4>q. QED  BY <2>6, <3>1, PartialIs
    <3>q. QED  BY <3>1, <3>2
  <2>17. started /\ next.mode \in {"error", "panic"} => IncludeEnd(a[N]) = <<next.mode>>
    <3> SUFFICES ASSUME next.mode \in {"error", "panic"} PROVE IncludeEnd(a[N]) = <<next.mode>>
      OBVIOUS
    <3>1. a[N] = next
      BY <1>0, <2>2, <2>3, StaysWrong
    <3> HIDE DEF next
    <3>q. QED  BY <3>1 DEF IncludeEnd
  <2> HIDE DEF st, m, next, later, word, path, name, add, v, old, e
  <2>18. m \in Ends(R)
    BY <2>12, StopIs
  <2>19. started => IncludeEnd(a[N]) = Rest(st, m)
    <3> SUFFICES ASSUME started PROVE IncludeEnd(a[N]) = Rest(st, m)
      OBVIOUS
    <3>0. Effect
      BY <2>16
    <3> HIDE DEF started
    <3>1. CASE word = << >>
      <4>1. next.mode = "panic" /\ m = Stop("panic")
        BY <2>12, <3>0, <3>1
      <4>2. Rest(st, m) = <<"panic">>
        BY <4>1, StopIs DEF Rest
      <4>q. QED  BY <2>17, <4>1, <4>2
    <3>2. CASE word # << >> /\ path = << >>
      <4>1. next.mode = "error" /\ m = Stop("error")
        BY <2>12, <3>0, <3>2
      <4>2. Rest(st, m) = <<"error">>
        BY <4>1, StopIs DEF Rest
      <4>q. QED  BY <2>17, <4>1, <4>2
    <3>3. CASE word # << >> /\ path # << >> /\ name = << >>
      <4>1. /\ next.mode = "text" /\ next.wb = << >> /\ next.fb = Append(st.fb, path)
            /\ next.stackb = st.stackb
        BY <3>0, <3>3
      <4>2. m.defined = later.defined /\ m.kept = <<path>> \o later.kept /\ m.wrong = later.wrong
        BY <2>12, <3>3
      <4>3. Rest(next, later) = Rest(st, m)
        BY <1>2, <2>8, <2>10, <2>15, <2>18, <4>1, <4>2, RestOfRune DEF st
      <4>q. QED  BY <2>11, <4>1, <4>3
    <3>4. CASE word # << >> /\ path # << >> /\ name # << >>
      <4>1. /\ next.mode = "text" /\ next.wb = << >> /\ next.fb = st.fb
            /\ next.stackb = st.stackb \o add
        BY <3>0, <3>4
      <4>2. m.defined = add \o later.defined /\ m.kept = later.kept /\ m.wrong = later.wrong
        BY <2>12, <3>4
      <4>3. Rest(next, later) = Rest(st, m)
        BY <1>2, <2>8, <2>10, <2>15, <2>18, <4>1, <4>2, RestOfDefinition DEF st
      <4>q. QED  BY <2>11, <4>1, <4>3
    <3>q. QED  BY <3>1, <3>2, <3>3, <3>4
  <2>q. QED  BY <2>18, <2>19 DEF Agree, st, m
<1>q. QED  BY <1>3, <1>4

LEMMA AgreeEverywhere ==
  ASSUME NEW R, NEW s, NEW a, NEW M, Includings(R, s, a, M)
  PROVE  Agree(R, s, a, M, 1)
<1> DEFINE N == Len(s)
           S == {n \in Nat : \A i \in 1..N + 1 : i + n >= N + 1 => Agree(R, s, a, M, i)}
<1>0. N \in Nat
  BY LenProperties DEF Includings
<1>1. 0 \in S
  <2>1. \A i \in 1..N + 1 : i + 0 >= N + 1 => i = N + 1
    BY <1>0
  <2>q. QED  BY <2>1, AgreeAtEnd
<1>2. ASSUME NEW n \in Nat, n \in S PROVE n + 1 \in S
  <2> SUFFICES ASSUME NEW i \in 1..N + 1, i + (n + 1) >= N + 1 PROVE Agree(R, s, a, M, i)
    OBVIOUS
  <2>1. CASE i = N + 1
    BY <2>1, AgreeAtEnd
  <2>2. CASE i # N + 1
    <3>1. i \in 1..N /\ i + 1 \in 1..N + 1 /\ i < i + 1
      BY <1>0, <2>2
    <3>2. ASSUME NEW j \in 1..N + 1, i < j PROVE Agree(R, s, a, M, j)
      <4>1. j + n >= N + 1
        BY <1>0, <3>2
      <4>q. QED  BY <1>2, <4>1
    <3>3. Agree(R, s, a, M, i + 1)
      BY <3>1, <3>2
    <3>q. QED  BY <3>1, <3>2, <3>3, AgreeAtRune, AgreeAtDirective
  <2>q. QED  BY <2>1, <2>2
<1> HIDE DEF S
<1>3. N \in S
  BY <1>0, <1>1, <1>2, AllNumbers
<1>4. 1 \in 1..N + 1 /\ 1 + N >= N + 1
  BY <1>0
<1>q. QED  BY <1>3, <1>4 DEF S

\* Of a text of any runes parseTemplateIncludeDeps (templateutils.go:20-119) writes the
\* definitions of the partials with a name, less the quote that closes it, and then the
\* text, with the other partials in the place of their directives; it fails at the first
\* directive that is not closed or has no path, and panics at the first one without a word.
THEOREM IncludesAreExact ==
  ASSUME NEW R, NEW s \in Seq(R)
  PROVE  parseTemplateIncludeDeps(s) = IncludedUnquoted(s)
<1>1. PICK a : /\ parseTemplateIncludeDeps(s) = IncludeEnd(a[Len(s)])
               /\ a[0] = IncludeStart
               /\ \A n \in 1..Len(s) : a[n] = IncludeRune(s, a[n - 1], n)
  BY IncludeTurnsAre
<1>2. PICK M : /\ IncludedUnquoted(s) = Whole(M[1])
               /\ \A i \in 1..Len(s) + 1 : M[i] = ReadFrom(s, i, M)
  BY IncludedIs
<1>3. Agree(R, s, a, M, 1)
  <2>1. Includings(R, s, a, M)
    BY <1>1, <1>2 DEF Includings, Loop
  <2>q. QED  BY <2>1, AgreeEverywhere
<1> DEFINE m == M[1]
           X == Pieces(R)
<1>4. a[1 - 1] = IncludeStart
  BY <1>1
<1>5. m \in Ends(R) /\ IncludeEnd(a[Len(s)]) = Rest(IncludeStart, m)
  BY <1>3, <1>4 DEF Agree, IncludeStart
<1> HIDE DEF m, X
<1>6. << >> \o m.defined = m.defined /\ << >> \o m.kept = m.kept
  <2>1. m.defined \in Seq(X) /\ m.kept \in Seq(X)
    BY <1>5 DEF Ends, X
  <2>q. QED  BY <2>1, ConcatEmptySeq
<1>7. Rest(IncludeStart, m) = Whole(m)
  <2>1. IncludeStart.stackb = << >> /\ IncludeStart.fb = << >>
    BY DEF IncludeStart
  <2>q. QED  BY <1>6, <2>1 DEF Rest, Whole
<1>q. QED  BY <1>1, <1>2, <1>5, <1>7 DEF m

\* What can be meant, with or without closing quotes; that two such meanings differ in
\* their first definition, if they have one.
Fragments(R) ==
  R \cup {"end"} \cup {Place(v) : v \in Seq(R)}
    \cup {<<"define", <<"quote">> \o Name(v)>> : v \in Seq(R)}
    \cup {<<"define", <<"quote">> \o Name(v) \o <<"quote">>>> : v \in Seq(R)}

Meant(R) == [defined : Seq(Fragments(R)), kept : Seq(Fragments(R)),
             wrong : {"nothing", "error", "panic"}]

Apart(R, p, q) ==
  /\ p \in Meant(R) /\ q \in Meant(R)
  /\ p.wrong = q.wrong /\ p.kept = q.kept
  /\ \/ p.defined = << >> /\ q.defined = << >>
     \/ p.defined # << >> /\ q.defined # << >> /\ p.defined[1] # q.defined[1]

LEMMA StopsApart ==
  ASSUME NEW R, NEW w \in {"nothing", "error", "panic"}
  PROVE  Apart(R, Stop(w), Stop(w))
<1>1. << >> \in Seq(Fragments(R))
  BY EmptySeq
<1>q. QED  BY <1>1 DEF Stop, Apart, Meant

\* One piece more in both texts.
LEMMA KeptApart ==
  ASSUME NEW R, NEW p, NEW q, Apart(R, p, q), NEW x \in Fragments(R)
  PROVE  Apart(R, [p EXCEPT !.kept = <<x>> \o @], [q EXCEPT !.kept = <<x>> \o @])
<1> DEFINE X == Fragments(R)
           y == <<x>>
           l == p.kept
           k == y \o l
<1>1. p \in Meant(R) /\ q \in Meant(R) /\ q.kept = l /\ p.wrong = q.wrong
  BY DEF Apart
<1>2. k \in Seq(X)
  <2>1. y \in Seq(X) /\ l \in Seq(X)
    BY <1>1 DEF Meant
  <2> HIDE DEF y, l, X
  <2>q. QED  BY <2>1, ConcatProperties
<1>3. /\ [p EXCEPT !.kept = <<x>> \o @] = [p EXCEPT !.kept = k]
      /\ [q EXCEPT !.kept = <<x>> \o @] = [q EXCEPT !.kept = k]
  BY <1>1
<1> HIDE DEF k, X, y, l
<1>4. /\ [p EXCEPT !.kept = k] \in Meant(R) /\ [q EXCEPT !.kept = k] \in Meant(R)
      /\ [p EXCEPT !.kept = k].kept = k /\ [q EXCEPT !.kept = k].kept = k
      /\ [p EXCEPT !.kept = k].wrong = p.wrong /\ [q EXCEPT !.kept = k].wrong = q.wrong
      /\ [p EXCEPT !.kept = k].defined = p.defined
      /\ [q EXCEPT !.kept = k].defined = q.defined
  BY <1>1, <1>2 DEF Meant, X
<1>q. QED  BY <1>3, <1>4 DEF Apart

\* A definition more in each.
LEMMA DefinedApart ==
  ASSUME NEW R, NEW p, NEW q, Apart(R, p, q),
         NEW d \in Seq(Fragments(R)), NEW e \in Seq(Fragments(R)),
         d # << >>, e # << >>, d[1] # e[1]
  PROVE  Apart(R, [p EXCEPT !.defined = d \o @], [q EXCEPT !.defined = e \o @])
<1> DEFINE X == Fragments(R)
           l == d \o p.defined
           m == e \o q.defined
<1>1. p \in Meant(R) /\ q \in Meant(R) /\ p.kept = q.kept /\ p.wrong = q.wrong
  BY DEF Apart
<1>2. /\ l \in Seq(X) /\ m \in Seq(X) /\ l # << >> /\ m # << >>
      /\ l[1] = d[1] /\ m[1] = e[1]
  <2>1. p.defined \in Seq(X) /\ q.defined \in Seq(X)
    BY <1>1 DEF Meant
  <2> DEFINE u == p.defined
             v == q.defined
  <2> HIDE DEF X, u, v
  <2>2. u \in Seq(X) /\ v \in Seq(X) /\ d \in Seq(X) /\ e \in Seq(X)
    BY <2>1 DEF u, v, X
  <2>3. /\ d \o u \in Seq(X) /\ e \o v \in Seq(X) /\ Len(d) >= 1 /\ Len(e) >= 1
        /\ d \o u # << >> /\ e \o v # << >>
        /\ (d \o u)[1] = d[1] /\ (e \o v)[1] = e[1]
    BY <2>2
  <2>q. QED  BY <2>3 DEF u, v
<1>3. /\ [p EXCEPT !.defined = d \o @] = [p EXCEPT !.defined = l]
      /\ [q EXCEPT !.defined = e \o @] = [q EXCEPT !.defined = m]
  OBVIOUS
<1> HIDE DEF l, m, X
<1>4. /\ [p EXCEPT !.defined = l] \in Meant(R) /\ [q EXCEPT !.defined = m] \in Meant(R)
      /\ [p EXCEPT !.defined = l].kept = p.kept /\ [q EXCEPT !.defined = m].kept = q.kept
      /\ [p EXCEPT !.defined = l].wrong = p.wrong /\ [q EXCEPT !.defined = m].wrong = q.wrong
      /\ [p EXCEPT !.defined = l].defined = l /\ [q EXCEPT !.defined = m].defined = m
  BY <1>1, <1>2 DEF Meant, X
<1>5. l[1] # m[1]
  BY <1>2
<1>q. QED  BY <1>1, <1>2, <1>3, <1>4, <1>5 DEF Apart

LEMMA ApartFrom ==
  ASSUME NEW R, NEW s \in Seq(R), NEW i \in 1 .. Len(s) + 1, NEW g, NEW h,
         \A j \in 1 .. Len(s) + 1 : i < j => Apart(R, g[j], h[j])
  PROVE  Apart(R, IncludedFrom(s, i, << >>, g), IncludedFrom(s, i, <<"quote">>, h))
<1> DEFINE p == IncludedFrom(s, i, << >>, g)
           q == IncludedFrom(s, i, <<"quote">>, h)
           N == Len(s)
           e == EndOf(s, i)
           w == Word(s, i)
<1>0. N \in Nat /\ i \in Nat /\ i >= 1
  BY LenProperties
<1>1. CASE i > N
  <2>1. p = Stop("nothing") /\ q = Stop("nothing")
    BY <1>1 DEF IncludedFrom
  <2>q. QED  BY <2>1, StopsApart
<1>2. CASE ~(i > N) /\ ~Directive(s, i)
  <2>1. /\ p = [g[i + 1] EXCEPT !.kept = <<s[i]>> \o @]
        /\ q = [h[i + 1] EXCEPT !.kept = <<s[i]>> \o @]
    BY <1>2 DEF IncludedFrom
  <2>2. s[i] \in R /\ s[i] \in Fragments(R)
    <3>1. i \in 1 .. N
      BY <1>0, <1>2
    <3>q. QED  BY <3>1, ElementOfSeq DEF Fragments
  <2>3. Apart(R, g[i + 1], h[i + 1])
    <3>1. i + 1 \in 1 .. N + 1 /\ i < i + 1
      BY <1>0, <1>2
    <3>q. QED  BY <3>1
  <2> HIDE DEF p, q
  <2>q. QED  BY <2>1, <2>2, <2>3, KeptApart DEF p, q
<1>3. CASE ~(i > N) /\ Directive(s, i) /\ ~Closed(s, i)
  <2>1. p = Stop("error") /\ q = Stop("error")
    BY <1>3 DEF IncludedFrom
  <2>q. QED  BY <2>1, StopsApart
<1>4. CASE ~(i > N) /\ Directive(s, i) /\ Closed(s, i)
  <2>1. i \in 1 .. N /\ w \in Seq(R)
    <3>1. i \in 1 .. N
      BY <1>0, <1>4
    <3>q. QED  BY <1>4, <3>1, WordTypes
  <2>2. Apart(R, g[e + 1], h[e + 1])
    <3>1. e - 1 \in Nat /\ e = (e - 1) + 1 /\ (e - 1 <= N => i <= e - 1)
      BY <1>0, BraceIs
    <3>2. e <= N
      BY <1>4 DEF Closed
    <3> HIDE DEF e
    <3>3. e + 1 \in 1 .. N + 1 /\ i < e + 1
      BY <1>0, <3>1, <3>2
    <3>q. QED  BY <3>3
  <2> DEFINE d == Definition(w, << >>)
             f == Definition(w, <<"quote">>)
  <2>3. /\ p = IF w = << >> THEN Stop("panic")
                ELSE IF Place(w) = << >> THEN Stop("error")
                ELSE IF Named(w) THEN [g[e + 1] EXCEPT !.defined = d \o @]
                ELSE [g[e + 1] EXCEPT !.kept = <<Place(w)>> \o @]
        /\ q = IF w = << >> THEN Stop("panic")
                ELSE IF Place(w) = << >> THEN Stop("error")
                ELSE IF Named(w) THEN [h[e + 1] EXCEPT !.defined = f \o @]
                ELSE [h[e + 1] EXCEPT !.kept = <<Place(w)>> \o @]
    BY <1>4 DEF IncludedFrom
  <2> HIDE DEF p, q, w, e, d, f
  <2>4. CASE w = << >> \/ Place(w) = << >>
    <3>1. (p = Stop("panic") /\ q = Stop("panic")) \/ (p = Stop("error") /\ q = Stop("error"))
      BY <2>3, <2>4
    <3>q. QED  BY <3>1, StopsApart DEF p, q
  <2>5. CASE w # << >> /\ Place(w) # << >> /\ ~Named(w)
    <3>1. /\ p = [g[e + 1] EXCEPT !.kept = <<Place(w)>> \o @]
          /\ q = [h[e + 1] EXCEPT !.kept = <<Place(w)>> \o @]
      BY <2>3, <2>5
    <3>2. Place(w) \in Fragments(R)
      BY <2>1 DEF Fragments
    <3>3. Apart(R, [g[e + 1] EXCEPT !.kept = <<Place(w)>> \o @],
                   [h[e + 1] EXCEPT !.kept = <<Place(w)>> \o @])
      BY <2>2, <3>2, KeptApart
    <3>4. Apart(R, p, q)
      BY <3>1, <3>3
    <3>q. QED  BY <3>4 DEF p, q
  <2>6. CASE w # << >> /\ Place(w) # << >> /\ Named(w)
    <3> DEFINE n == <<"quote">> \o Name(w)
               c == <<"quote">> \o Name(w) \o <<"quote">>
    <3>1. /\ p = [g[e + 1] EXCEPT !.defined = d \o @]
          /\ q = [h[e + 1] EXCEPT !.defined = f \o @]
      BY <2>3, <2>6
    <3>2. Name(w) \in Seq(R) /\ "quote" \in R
      BY <2>1, <2>6, WordIs
    <3>3. n \o << >> = n /\ n # c
      <4> DEFINE v == Name(w)
      <4> HIDE DEF v
      <4>1. v \in Seq(R)
        BY <3>2 DEF v
      <4>2. /\ <<"quote">> \o v \in Seq(R)
            /\ Len(<<"quote">> \o v) = 1 + Len(v)
            /\ Len((<<"quote">> \o v) \o <<"quote">>) = (1 + Len(v)) + 1
            /\ (<<"quote">> \o v) \o << >> = <<"quote">> \o v
        BY <3>2, <4>1
      <4>3. Len(v) \in Nat
        BY <4>1, LenProperties
      <4>4. <<"quote">> \o v # (<<"quote">> \o v) \o <<"quote">>
        BY <4>2, <4>3
      <4>q. QED  BY <4>2, <4>4 DEF v
    <3>4. d = <<<<"define", n>>, Place(w), "end">> /\ f = <<<<"define", c>>, Place(w), "end">>
      BY <3>3 DEF d, f, Definition
    <3>5. /\ <<"define", n>> \in Fragments(R) /\ <<"define", c>> \in Fragments(R)
          /\ Place(w) \in Fragments(R) /\ "end" \in Fragments(R)
      BY <2>1 DEF Fragments
    <3> HIDE DEF n, c
    <3>6. <<"define", n>> # <<"define", c>>
      BY <3>3
    <3>7. d \in Seq(Fragments(R)) /\ f \in Seq(Fragments(R)) /\ d # << >> /\ f # << >>
          /\ d[1] # f[1]
      <4> DEFINE x == <<"define", n>>
                 y == <<"define", c>>
                 z == Place(w)
                 X == Fragments(R)
      <4>1. x \in X /\ y \in X /\ z \in X /\ "end" \in X /\ x # y
        BY <3>5, <3>6
      <4>2. d = <<x, z, "end">> /\ f = <<y, z, "end">>
        BY <3>4
      <4> HIDE DEF x, y, z, X
      <4>3. d \in Seq(X) /\ f \in Seq(X) /\ d # << >> /\ f # << >> /\ d[1] # f[1]
        BY <4>1, <4>2
      <4>q. QED  BY <4>3 DEF X
    <3>8. Apart(R, [g[e + 1] EXCEPT !.defined = d \o @],
                   [h[e + 1] EXCEPT !.defined = f \o @])
      BY <2>2, <3>7, DefinedApart
    <3>9. Apart(R, p, q)
      BY <3>1, <3>8
    <3>q. QED  BY <3>9 DEF p, q
  <2>q. QED  BY <2>4, <2>5, <2>6
<1>q. QED  BY <1>0, <1>1, <1>2, <1>3, <1>4

\* The two meanings of a text.
LEMMA PartsApart ==
  ASSUME NEW R, NEW s \in Seq(R)
  PROVE  Apart(R, IncludedParts(s, << >>), IncludedParts(s, <<"quote">>))
<1>1. PICK L : /\ IncludedParts(s, << >>) = L[1]
               /\ \A i \in 1 .. Len(s) + 1 : L[i] = IncludedFrom(s, i, << >>, L)
  BY PartsAre
<1>2. PICK M : /\ IncludedParts(s, <<"quote">>) = M[1]
               /\ \A i \in 1 .. Len(s) + 1 : M[i] = IncludedFrom(s, i, <<"quote">>, M)
  BY PartsAre
<1> DEFINE N == Len(s)
           S == {n \in Nat : \A i \in 1 .. N + 1 : i + n >= N + 1 => Apart(R, L[i], M[i])}
<1>3. N \in Nat
  BY LenProperties
<1>4. ASSUME NEW i \in 1 .. N + 1, \A j \in 1 .. N + 1 : i < j => Apart(R, L[j], M[j])
      PROVE  Apart(R, L[i], M[i])
  <2>1. Apart(R, IncludedFrom(s, i, << >>, L), IncludedFrom(s, i, <<"quote">>, M))
    BY <1>4, ApartFrom
  <2>q. QED  BY <1>1, <1>2, <2>1
<1>5. 0 \in S
  <2>1. \A i, j \in 1 .. N + 1 : i + 0 >= N + 1 => ~(i < j)
    BY <1>3
  <2>q. QED  BY <1>4, <2>1
<1>6. ASSUME NEW n \in Nat, n \in S PROVE n + 1 \in S
  <2> SUFFICES ASSUME NEW i \in 1 .. N + 1, i + (n + 1) >= N + 1 PROVE Apart(R, L[i], M[i])
    OBVIOUS
  <2>1. ASSUME NEW j \in 1 .. N + 1, i < j PROVE Apart(R, L[j], M[j])
    <3>1. j + n >= N + 1
      BY <1>3, <2>1
    <3>q. QED  BY <1>6, <3>1
  <2>q. QED  BY <1>4, <2>1
<1> HIDE DEF S
<1>7. N \in S
  BY <1>3, <1>5, <1>6, AllNumbers
<1>8. 1 \in 1 .. N + 1 /\ 1 + N >= N + 1
  BY <1>3
<1>q. QED  BY <1>1, <1>2, <1>7, <1>8 DEF S

\* What is documented is written if, and only if, no name is given: the quote that should
\* close the first name (templateutils.go:58, 93) is missing from the first definition.
THEOREM NamesAreNotClosed ==
  ASSUME NEW R, NEW s \in Seq(R)
  PROVE  IncludedUnquoted(s) = Included(s) <=> ~Defines(s)
<1> DEFINE p == IncludedParts(s, << >>)
           q == IncludedParts(s, <<"quote">>)
<1>1. Apart(R, p, q)
  BY PartsApart
<1>2. /\ IncludedUnquoted(s) = Whole(p) /\ Included(s) = Whole(q)
      /\ Defines(s) <=> q.wrong = "nothing" /\ q.defined # << >>
  BY DEF IncludedUnquoted, Included, Defines
<1> HIDE DEF p, q
<1>3. CASE Defines(s)
  <2>1. /\ p.wrong = "nothing" /\ q.wrong = "nothing" /\ p.defined # << >>
        /\ q.defined # << >> /\ p.defined[1] # q.defined[1]
    BY <1>1, <1>2, <1>3 DEF Apart
  <2>2. (p.defined \o p.kept)[1] = p.defined[1] /\ (q.defined \o q.kept)[1] = q.defined[1]
    <3> DEFINE X == Fragments(R)
               u == p.defined
               v == q.defined
               k == p.kept
               l == q.kept
    <3>1. /\ u \in Seq(X) /\ v \in Seq(X) /\ k \in Seq(X) /\ l \in Seq(X)
          /\ u # << >> /\ v # << >>
      BY <1>1, <2>1 DEF Apart, Meant
    <3> HIDE DEF X, u, v, k, l
    <3>2. (u \o k)[1] = u[1] /\ (v \o l)[1] = v[1]
      BY <3>1
    <3>q. QED  BY <3>2 DEF u, v, k, l
  <2>3. Whole(p) = p.defined \o p.kept /\ Whole(q) = q.defined \o q.kept
    BY <2>1 DEF Whole
  <2>q. QED  BY <1>2, <1>3, <2>1, <2>2, <2>3
<1>4. CASE ~Defines(s)
  BY <1>1, <1>2, <1>4 DEF Apart, Whole
<1>q. QED  BY <1>3, <1>4

-----------------------------------------------------------------------------
\* The runes of a text, by its kind.
TextInv == /\ kind = "template" => text \in Seq({"%", "x", "y"})
           /\ kind = "jade" => text \in Seq({"{", "}", "'", "x"})
           /\ kind = "include" => text \in Seq({"open", "}", "quote", "_", "x"})

LEMMA TextStart == TextInit => TextInv
<1> SUFFICES ASSUME TextInit PROVE TextInv
  OBVIOUS
<1>1. << >> \in Seq({"%", "x", "y"}) /\ << >> \in Seq({"{", "}", "'", "x"})
  BY EmptySeq
<1>2. kind = "template" \/ kind = "jade" => text = << >>
  BY DEF TextInit
<1>3. << >> \in Seq({"open", "}", "quote", "_", "x"})
  BY EmptySeq
<1>4. <<"open", "x", "}", "}">> \in Seq({"open", "}", "quote", "_", "x"})
  OBVIOUS
<1>5. <<"open", "quote", "x", "quote", "_", "x", "}", "}">>
        \in Seq({"open", "}", "quote", "_", "x"})
  OBVIOUS
<1>6. FirstPartials \subseteq Seq({"open", "}", "quote", "_", "x"})
  BY <1>3, <1>4, <1>5 DEF FirstPartials
<1>7. kind = "include" => text \in Seq({"open", "}", "quote", "_", "x"})
  BY <1>6 DEF TextInit
<1>q. QED  BY <1>1, <1>2, <1>7 DEF TextInv

LEMMA TextStep == TextInv /\ [TextNext]_textVars => TextInv'
<1> SUFFICES ASSUME TextInv, [TextNext]_textVars PROVE TextInv'
  OBVIOUS
<1>1. CASE UNCHANGED textVars
  BY <1>1 DEF TextInv, textVars
<1>2. ASSUME NEW r \in Alphabet(kind), text' = Append(text, r), kind' = kind PROVE TextInv'
  <2>0. ASSUME NEW R, r \in R, text \in Seq(R) PROVE text' \in Seq(R)
    BY <1>2, <2>0, AppendProperties
  <2>1. CASE kind = "template"
    <3>1. r \in {"%", "x", "y"}
      BY <1>2, <2>1 DEF Alphabet
    <3>q. QED  BY <1>2, <2>0, <2>1, <3>1 DEF TextInv
  <2>2. CASE kind = "jade"
    <3>1. r \in {"{", "}", "'", "x"}
      BY <1>2, <2>2 DEF Alphabet
    <3>q. QED  BY <1>2, <2>0, <2>2, <3>1 DEF TextInv
  <2>3. CASE kind = "include"
    <3>1. r \in {"open", "}", "quote", "_", "x"}
      BY <1>2, <2>3 DEF Alphabet
    <3>q. QED  BY <1>2, <2>0, <2>3, <3>1 DEF TextInv
  <2>4. CASE kind # "template" /\ kind # "jade" /\ kind # "include"
    BY <1>2, <2>4 DEF TextInv
  <2>q. QED  BY <2>1, <2>2, <2>3, <2>4
<1>q. QED  BY <1>1, <1>2 DEF TextNext

\* Translations take the place of their keys and quotes of actions are doubled, no rune
\* is lost, added or moved, within the limits Localized names (i18n.go:13-89,
\* jadefix.go:9-65): for texts of any length, whatever bounds are set.
THEOREM TextsKept == TextSpec => []TemplatesKeepTheirText
<1>1. TextInv => TemplatesKeepTheirText
  <2> SUFFICES ASSUME TextInv PROVE TemplatesKeepTheirText
    OBVIOUS
  <2>1. ASSUME kind = "template", NEW provider \in Providers \ {"none"}
        PROVE  Localized(provider)
    <3> DEFINE R == {"%", "x", "y"}
    <3>1. "panic" \notin R /\ text \in Seq(R) /\ provider # "none"
      BY <2>1 DEF TextInv
    <3> HIDE DEF R
    <3>q. QED  BY <3>1, LocalizedRight
  <2>2. ASSUME kind = "jade" PROVE JadeFixed
    BY <2>2, JadeIsFixed DEF TextInv
  <2>q. QED  BY <2>1, <2>2 DEF TemplatesKeepTheirText
<1>q. QED  BY <1>1, TextStart, TextStep, PTL DEF TextSpec

\* A template becomes its named partials, as definitions, and its text with the other
\* partials in their place, or an error or a panic at the first directive that is wrong
\* (templateutils.go:20-119), but what is documented only when no partial has a name:
\* for texts of any length, whatever bounds are set.
THEOREM IncludesRead == TextSpec => []IncludesAreRead
<1>1. TextInv => IncludesAreRead
  <2> SUFFICES ASSUME TextInv, kind = "include"
               PROVE  /\ parseTemplateIncludeDeps(text) = IncludedUnquoted(text)
                      /\ parseTemplateIncludeDeps(text) = Included(text) <=> ~Defines(text)
    BY DEF IncludesAreRead
  <2> DEFINE R == {"open", "}", "quote", "_", "x"}
  <2>1. text \in Seq(R)
    BY DEF TextInv
  <2> HIDE DEF R
  <2>q. QED  BY <2>1, IncludesAreExact, NamesAreNotClosed
<1>q. QED  BY <1>1, TextStart, TextStep, PTL DEF TextSpec
=============================================================================
