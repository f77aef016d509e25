--------------------------- MODULE LexiconsProofs ---------------------------
(* Theorems about Lexicons, for every value of its constants: any lexicon   *)
(* files, extending each other in any way.                                  *)
EXTENDS Lexicons, FiniteSetTheorems, NaturalsInduction, WellFoundedInduction, TLAPS

USE FileAssumption, LoaderAssumption, DirectoryAssumption

\* The file of an id that was found is one of the directory's.
LEMMA FileOfDiscovered ==
    ASSUME directory \in Directories \ {NoDirectory}, NEW l \in Discovered
    PROVE  FileOf(l) \in DOMAIN directory /\ l \in LexiconIds
  <1> DEFINE S == {f \in DOMAIN directory : IdOf[f] = l}
  <1>1. S \in (SUBSET Files) \ {{}} /\ S \subseteq DOMAIN directory
    BY DEF Discovered
  <1>2. \E f \in S : \A g \in S : g <= f
    BY <1>1
  <1>3. \E f \in S : \A g \in S : f >= g
    BY <1>1, <1>2
  <1>4. Max(S) \in S
    BY <1>3 DEF Max
  <1>5. l \in LexiconIds
    BY <1>1 DEF Discovered
  <1> QED BY <1>1, <1>4, <1>5 DEF FileOf

-----------------------------------------------------------------------------
(* The inductive invariant: what each stage of the loader has established.  *)

HooksKnown(contents) ==
    \A l \in DOMAIN contents : HookOf(contents[l]) \in DOMAIN Hooks \cup {None}

LoadInv ==
    /\ TypeOK /\ directory \in Directories
    /\ HooksKnown(raw) /\ HooksKnown(resolved)
    /\ stage = "read" => DOMAIN raw = {}
    /\ stage \in {"read", "order"} => DOMAIN resolved = {}
    /\ stage \in {"read", "order", "resolve", "build"} => DOMAIN lexicons = {}
    /\ stage \in {"build", "sub_dirs", "loaded", "ready"} =>
          DOMAIN resolved = DOMAIN raw /\ BatchErrors = {} /\ Imports("raises") = {}
    /\ stage \in {"sub_dirs", "loaded", "ready"} =>
          lexicons = [l \in DOMAIN resolved |-> Built(resolved[l])]
    /\ stage \in {"loaded", "ready"} => SubDirErrors = {}

\* A hook is inherited, or the file's own.
LEMMA MergedHook ==
    ASSUME HooksKnown(raw), HooksKnown(resolved), NEW l \in DOMAIN raw
    PROVE  HookOf(Merged(l)) \in DOMAIN Hooks \cup {None}
  <1> DEFINE key == <<"derive_hook">>
  <1>1. HookOf(raw[l]) \in DOMAIN Hooks \cup {None}
    BY DEF HooksKnown
  <1>2. key \in DOMAIN Whole(l) => Whole(l)[key] \in DOMAIN Hooks \cup {None}
    <2>1. CASE Base(l) \in DOMAIN resolved
      <3>1. HookOf(resolved[Base(l)]) \in DOMAIN Hooks \cup {None}
        BY <2>1 DEF HooksKnown
      <3> QED BY <1>1, <2>1, <3>1 DEF Whole, DeepMerge, HookOf, Get
    <2>2. CASE Base(l) \notin DOMAIN resolved
      BY <1>1, <2>2 DEF Whole, HookOf, Get
    <2> QED BY <2>1, <2>2
  <1>3. key \in DOMAIN Merged(l) => key \in DOMAIN Whole(l) /\ Merged(l)[key] = Whole(l)[key]
    BY DEF Merged
  <1> QED BY <1>2, <1>3 DEF HookOf, Get

LEMMA ReadStep ==
    ASSUME LoadInv, ReadFiles
    PROVE  LoadInv'
  <1>1. /\ stage = "read" /\ UNCHANGED <<directory, resolved, lexicons>>
        /\ DOMAIN resolved = {} /\ DOMAIN lexicons = {}
    BY DEF ReadFiles, LoadInv
  <1>2. CASE stage' = "rejected" /\ raw' = raw
    <2>1. \A e \in errors' : e[1] \in LexiconIds \cup {None}
      <3>1. CASE directory \notin {NoDirectory, Nothing}
        <4>1. errors' = {<<l, <<"file", None>>>> : l \in Unread}
          BY <1>2, <3>1 DEF ReadFiles, Reject
        <4>2. \A l \in Unread : l \in LexiconIds
          BY <3>1, FileOfDiscovered DEF Unread, LoadInv
        <4> QED BY <4>1, <4>2
      <3>2. CASE directory \in {NoDirectory, Nothing}
        BY <1>2, <3>2 DEF ReadFiles, Reject
      <3> QED BY <3>1, <3>2
    <2> QED BY <1>1, <1>2, <2>1 DEF LoadInv, TypeOK, HooksKnown, Ended
  <1>3. CASE /\ directory # NoDirectory /\ Unread = {}
             /\ raw' = [l \in Discovered |-> directory[FileOf(l)]]
             /\ stage' = "order" /\ UNCHANGED errors
    <2>1. \A l \in Discovered : /\ l \in LexiconIds
                                /\ HookOf(directory[FileOf(l)]) \in DOMAIN Hooks \cup {None}
      BY <1>3, FileOfDiscovered DEF Unread, LoadInv
    <2>2. HooksKnown(raw') /\ HooksKnown(resolved')
      BY <1>1, <1>3, <2>1 DEF HooksKnown
    <2> QED BY <1>1, <1>3, <2>1, <2>2 DEF LoadInv, TypeOK, HooksKnown, Ended
  <1> QED BY <1>2, <1>3 DEF ReadFiles, Reject

LEMMA OrderStep ==
    ASSUME LoadInv, Order
    PROVE  LoadInv'
  <1>1. /\ stage = "order" /\ UNCHANGED <<directory, raw, resolved, lexicons>>
        /\ stage' \in {"rejected", "resolve"}
    BY DEF Order, Reject
  <1>2. \A e \in errors' : e[1] \in LexiconIds \cup {None}
    <2>1. UnknownBase \subseteq LexiconIds /\ TooDeep \subseteq LexiconIds
      BY DEF UnknownBase, TooDeep, LoadInv, TypeOK
    <2> QED BY <2>1 DEF Order, Reject
  <1> QED BY <1>1, <1>2 DEF LoadInv, TypeOK, HooksKnown, Ended

LEMMA ResolveStep ==
    ASSUME LoadInv, NEW l \in LexiconIds, Resolve(l)
    PROVE  LoadInv'
  <1>1. /\ stage = "resolve" /\ l \in DOMAIN raw /\ l \notin DOMAIN resolved
        /\ UNCHANGED <<directory, stage, raw, lexicons, errors>>
    BY DEF Resolve
  <1>2. /\ DOMAIN resolved' = DOMAIN resolved \cup {l} /\ resolved'[l] = Merged(l)
        /\ \A m \in DOMAIN resolved : resolved'[m] = resolved[m]
    BY <1>1 DEF Resolve
  <1>3. <<"extends">> \notin DOMAIN Merged(l)
    BY DEF Merged
  <1>4. HookOf(Merged(l)) \in DOMAIN Hooks \cup {None}
    BY <1>1, MergedHook DEF LoadInv
  <1> QED BY <1>1, <1>2, <1>3, <1>4 DEF LoadInv, TypeOK, HooksKnown, Ended

LEMMA ValidateStep ==
    ASSUME LoadInv, Validate
    PROVE  LoadInv'
  <1>1. /\ stage = "resolve" /\ DOMAIN resolved = DOMAIN raw
        /\ UNCHANGED <<directory, raw, resolved, lexicons>>
    BY DEF Validate
  <1>2. CASE stage' \in {"raised", "rejected"}
    <2>1. \A e \in errors' : e[1] \in LexiconIds \cup {None}
      <3>1. \A e \in BatchErrors : e[1] \in LexiconIds
        BY DEF BatchErrors, Imports, LoadInv, TypeOK
      <3> QED BY <1>2, <3>1 DEF Validate, Raise, Reject, LoadInv, TypeOK
    <2> QED BY <1>1, <1>2, <2>1 DEF LoadInv, TypeOK, HooksKnown, Ended
  <1>3. CASE stage' = "build"
    <2>1. UNCHANGED errors /\ BatchErrors = {} /\ Imports("raises") = {}
      BY <1>3 DEF Validate, Raise, Reject
    <2>2. BatchErrors' = {} /\ Imports("raises")' = {}
      BY <1>1, <2>1 DEF BatchErrors, Imports
    <2> QED BY <1>1, <1>3, <2>1, <2>2 DEF LoadInv, TypeOK, HooksKnown, Ended
  <1> QED BY <1>2, <1>3 DEF Validate, Raise, Reject

\* From here on resolved does not change.
LEMMA BuildStep ==
    ASSUME LoadInv, Build
    PROVE  LoadInv'
  <1>1. stage = "build" /\ UNCHANGED <<directory, raw, resolved>>
    BY DEF Build
  <1>2. BatchErrors' = BatchErrors /\ Imports("raises")' = Imports("raises")
    BY <1>1 DEF BatchErrors, Imports
  <1>3. CASE stage' = "raised" /\ errors' = {} /\ lexicons' = lexicons
    BY <1>1, <1>3 DEF LoadInv, TypeOK, HooksKnown, Ended
  <1>4. CASE /\ stage' = "sub_dirs" /\ UNCHANGED errors
             /\ lexicons' = [l \in DOMAIN resolved |-> Built(resolved[l])]
    BY <1>1, <1>2, <1>4 DEF LoadInv, TypeOK, HooksKnown, Ended
  <1> QED BY <1>3, <1>4 DEF Build, Raise

LEMMA CheckSteps ==
    ASSUME LoadInv, CheckSubDirs \/ CheckRoots
    PROVE  LoadInv'
  <1>1. /\ stage \in {"sub_dirs", "loaded"} /\ UNCHANGED <<directory, raw, resolved, lexicons>>
        /\ stage' \in {"loaded", "ready", "rejected"}
        /\ stage' # "rejected" => UNCHANGED errors /\ SubDirErrors = {}
    BY DEF CheckSubDirs, CheckRoots, Reject, LoadInv
  <1>2. /\ BatchErrors' = BatchErrors /\ Imports("raises")' = Imports("raises")
        /\ SubDirErrors' = SubDirErrors
    BY <1>1 DEF BatchErrors, Imports, SubDirErrors, SubLexicons
  <1>3. \A e \in errors' : e[1] \in LexiconIds \cup {None}
    <2>1. \A e \in SubDirErrors : e[1] \in LexiconIds
      BY DEF SubDirErrors, LoadInv, TypeOK
    <2> QED BY <2>1 DEF CheckSubDirs, CheckRoots, Reject, LoadInv, TypeOK
  <1> QED BY <1>1, <1>2, <1>3 DEF LoadInv, TypeOK, HooksKnown, Ended

LEMMA Inductive == LoadInv /\ [Next]_vars => LoadInv'
  <1> SUFFICES ASSUME LoadInv, [Next]_vars PROVE LoadInv'
    OBVIOUS
  <1>1. CASE UNCHANGED vars
    <2>1. UNCHANGED <<directory, stage, raw, resolved, lexicons, errors>>
      BY <1>1 DEF vars
    <2>2. /\ BatchErrors' = BatchErrors /\ Imports("raises")' = Imports("raises")
          /\ SubDirErrors' = SubDirErrors
      BY <2>1 DEF BatchErrors, Imports, SubDirErrors, SubLexicons
    <2> QED BY <2>1, <2>2 DEF LoadInv, TypeOK, HooksKnown
  <1> QED BY <1>1, ReadStep, OrderStep, ResolveStep, ValidateStep, BuildStep, CheckSteps
          DEF Next

LEMMA Initial == Init => LoadInv
  BY DEF Init, Nothing, LoadInv, TypeOK, HooksKnown, Ended

-----------------------------------------------------------------------------

\* However the lexicons extend each other, what is resolved or built was read,
\* and the errors name lexicons.
THEOREM TypeCorrect == Spec => []TypeOK
  <1>1. LoadInv => TypeOK
    BY DEF LoadInv
  <1> QED BY <1>1, Initial, Inductive, PTL DEF Spec

\* A content has no errors when every status it names is one of its own.
LEMMA ValidData ==
    ASSUME NEW data
    PROVE  LET known == StatusesOf(data)
               from == Names(data, "transitions")
           IN  InvalidIn(data) = {} <=>
                 /\ known # {}
                 /\ from \cup UNION {data[<<"transitions", f>>] : f \in from} \subseteq known
                 /\ {data[<<"dir_map", d>>] : d \in Names(data, "dir_map")} \subseteq known
                 /\ ListOf(data, "actionable_statuses") \subseteq known
                 /\ {SetOn(data, f) : f \in Names(data, "metadata_fields")} \subseteq known \cup {None}
  <1> DEFINE known == StatusesOf(data)
             from == Names(data, "transitions")
             named == from \cup UNION {data[<<"transitions", f>>] : f \in from}
             mapped == {data[<<"dir_map", d>>] : d \in Names(data, "dir_map")}
             acted == ListOf(data, "actionable_statuses")
             set == {SetOn(data, f) : f \in Names(data, "metadata_fields")}
             e1 == IF known = {} THEN {<<"statuses", None>>} ELSE {}
             e2 == {<<"transitions", s>> : s \in named \ known}
             e3 == {<<"dir_map", s>> : s \in mapped \ known}
             e4 == {<<"actionable_statuses", s>> : s \in acted \ known}
             e5 == {<<"set_on", s>> : s \in set \ (known \cup {None})}
  <1>1. InvalidIn(data) = e1 \cup e2 \cup e3 \cup e4 \cup e5
    BY DEF InvalidIn
  <1>2. InvalidIn(data) = {} <=> e1 = {} /\ e2 = {} /\ e3 = {} /\ e4 = {} /\ e5 = {}
    <2> HIDE DEF e1, e2, e3, e4, e5
    <2> QED BY <1>1
  <1> HIDE DEF known, named, mapped, acted, set
  <1>3. e1 = {} <=> known # {}
    OBVIOUS
  <1>4. e2 = {} <=> named \subseteq known
    <2>1. \A s \in named \ known : <<"transitions", s>> \in e2
      OBVIOUS
    <2>2. e2 # {} => \E s : s \in named \ known
      OBVIOUS
    <2> HIDE DEF e2
    <2> QED BY <2>1, <2>2
  <1>5. e3 = {} <=> mapped \subseteq known
    <2>1. \A s \in mapped \ known : <<"dir_map", s>> \in e3
      OBVIOUS
    <2>2. e3 # {} => \E s : s \in mapped \ known
      OBVIOUS
    <2> HIDE DEF e3
    <2> QED BY <2>1, <2>2
  <1>6. e4 = {} <=> acted \subseteq known
    <2>1. \A s \in acted \ known : <<"actionable_statuses", s>> \in e4
      OBVIOUS
    <2>2. e4 # {} => \E s : s \in acted \ known
      OBVIOUS
    <2> HIDE DEF e4
    <2> QED BY <2>1, <2>2
  <1>7. e5 = {} <=> set \subseteq known \cup {None}
    <2>1. \A s \in set \ (known \cup {None}) : <<"set_on", s>> \in e5
      OBVIOUS
    <2>2. e5 # {} => \E s : s \in set \ (known \cup {None})
      OBVIOUS
    <2> HIDE DEF e5
    <2> QED BY <2>1, <2>2
  <1>8. InvalidIn(data) = {} <=> /\ known # {} /\ named \subseteq known /\ mapped \subseteq known
                                 /\ acted \subseteq known /\ set \subseteq known \cup {None}
    <2> HIDE DEF e1, e2, e3, e4, e5
    <2> QED BY <1>2, <1>3, <1>4, <1>5, <1>6, <1>7
  <1> QED BY <1>8 DEF known, named, mapped, acted, set

\* What Built makes of a content without errors.
LEMMA BuiltIsSound ==
    ASSUME NEW data, InvalidIn(data) = {}
    PROVE  LET lex == Built(data) IN
             /\ lex.statuses # {}
             /\ DOMAIN lex.transitions \subseteq lex.statuses
             /\ \A s \in DOMAIN lex.transitions : lex.transitions[s] \subseteq lex.statuses
             /\ Range(lex.dir_map) \subseteq lex.statuses
             /\ lex.actionable_statuses \subseteq lex.statuses
             /\ Range(lex.set_on) \subseteq lex.statuses \cup {None}
  <1> DEFINE known == StatusesOf(data)
             from == Names(data, "transitions")
             named == from \cup UNION {data[<<"transitions", f>>] : f \in from}
             mapped == {data[<<"dir_map", d>>] : d \in Names(data, "dir_map")}
             acted == ListOf(data, "actionable_statuses")
             set == {SetOn(data, f) : f \in Names(data, "metadata_fields")}
  <1>1. /\ known # {} /\ named \subseteq known /\ mapped \subseteq known
        /\ acted \subseteq known /\ set \subseteq known \cup {None}
    BY ValidData
  <1>2. /\ Built(data).statuses = known
        /\ DOMAIN Built(data).transitions = from
        /\ \A s \in from : Built(data).transitions[s] = data[<<"transitions", s>>]
        /\ Range(Built(data).dir_map) = mapped
        /\ Built(data).actionable_statuses = acted
        /\ Range(Built(data).set_on) = set
    BY DEF Built, Range
  <1>3. \A s \in from : data[<<"transitions", s>>] \subseteq named
    OBVIOUS
  <1> HIDE DEF known, mapped, acted, set
  <1> QED BY <1>1, <1>2, <1>3

\* A lexicon that is loaded names only statuses of its own, its hook was
\* imported, and its subsidiary lexicons are loaded and have none.
THEOREM OnlySoundIsLoaded == Spec => []LoadedIsSound
  <1>1. ASSUME LoadInv PROVE LoadedIsSound
    <2> SUFFICES ASSUME stage \in {"loaded", "ready"}, NEW l \in DOMAIN lexicons
                 PROVE  LET lex == lexicons[l] IN
                        /\ lex.statuses # {}
                        /\ DOMAIN lex.transitions \subseteq lex.statuses
                        /\ \A s \in DOMAIN lex.transitions : lex.transitions[s] \subseteq lex.statuses
                        /\ Range(lex.dir_map) \subseteq lex.statuses
                        /\ lex.actionable_statuses \subseteq lex.statuses
                        /\ Range(lex.set_on) \subseteq lex.statuses \cup {None}
                        /\ lex.derive_hook = None \/ Hooks[lex.derive_hook] = "imported"
                        /\ \A m \in Range(lex.sub_dirs) :
                              m \in DOMAIN lexicons /\ DOMAIN lexicons[m].sub_dirs = {}
      BY DEF LoadedIsSound
    <2>1. /\ l \in DOMAIN resolved /\ lexicons[l] = Built(resolved[l])
          /\ BatchErrors = {} /\ Imports("raises") = {} /\ SubDirErrors = {}
          /\ HookOf(resolved[l]) \in DOMAIN Hooks \cup {None}
      BY <1>1 DEF LoadInv, HooksKnown
    <2> DEFINE faults == {{<<k, e>> : e \in InvalidIn(resolved[k])} : k \in DOMAIN resolved}
               unhooked == {<<k, <<"derive_hook", None>>>> : k \in Imports("missing")}
    <2>0. UNION faults = {} /\ unhooked = {}
      <3>1. BatchErrors = (UNION faults) \cup unhooked
        BY DEF BatchErrors
      <3> HIDE DEF faults, unhooked
      <3> QED BY <2>1, <3>1
    <2>2. InvalidIn(resolved[l]) = {}
      <3>1. {<<l, e>> : e \in InvalidIn(resolved[l])} \in faults
        BY <2>1
      <3>2. {<<l, e>> : e \in InvalidIn(resolved[l])} = {}
        <4> HIDE DEF faults
        <4> QED BY <2>0, <3>1
      <3>3. \A e \in InvalidIn(resolved[l]) : <<l, e>> \in {<<l, x>> : x \in InvalidIn(resolved[l])}
        OBVIOUS
      <3> QED BY <3>2, <3>3
    <2>3. lexicons[l].derive_hook = HookOf(resolved[l])
      BY <2>1 DEF Built
    <2>4. HookOf(resolved[l]) = None \/ Hooks[HookOf(resolved[l])] = "imported"
      <3> SUFFICES ASSUME HookOf(resolved[l]) # None
                   PROVE  Hooks[HookOf(resolved[l])] = "imported"
        OBVIOUS
      <3>1. Hooks[HookOf(resolved[l])] \in {"imported", "missing", "raises"}
        BY <2>1
      <3>2. l \notin Imports("missing")
        <4>1. \A k \in Imports("missing") : <<k, <<"derive_hook", None>>>> \in unhooked
          OBVIOUS
        <4> QED BY <2>0, <4>1
      <3>3. l \notin Imports("raises")
        BY <2>1
      <3> QED BY <2>1, <3>1, <3>2, <3>3 DEF Imports
    <2>5. ASSUME NEW m \in SubLexicons(l)
          PROVE  m \in DOMAIN lexicons /\ DOMAIN lexicons[m].sub_dirs = {}
      <3> DEFINE bad(k) == {x \in SubLexicons(k) : x \notin DOMAIN lexicons \/ SubLexicons(x) # {}}
                 ill(k) == {<<k, <<"sub_dirs", s>>>> : s \in bad(k)}
                 ills == {ill(k) : k \in DOMAIN lexicons}
      <3>1. m \in DOMAIN lexicons /\ SubLexicons(m) = {}
        <4>1. SubDirErrors = UNION ills
          BY DEF SubDirErrors
        <4>2. ill(l) \in ills
          OBVIOUS
        <4>3. ill(l) = {}
          <5> HIDE DEF ills, ill
          <5> QED BY <2>1, <4>1, <4>2
        <4>4. bad(l) = {}
          <5>1. \A s \in bad(l) : <<l, <<"sub_dirs", s>>>> \in ill(l)
            OBVIOUS
          <5> QED BY <4>3, <5>1
        <4> QED BY <2>5, <4>4
      <3> HIDE DEF bad, ill, ills
      <3>2. Range(lexicons[m].sub_dirs) = {}
        BY <3>1 DEF SubLexicons
      <3>3. \A d \in DOMAIN lexicons[m].sub_dirs : lexicons[m].sub_dirs[d] \in Range(lexicons[m].sub_dirs)
        BY DEF Range
      <3> QED BY <3>1, <3>2, <3>3
    <2> HIDE DEF LoadInv
    <2> QED BY <2>1, <2>2, <2>3, <2>4, <2>5, BuiltIsSound DEF SubLexicons
  <1> QED BY <1>1, Initial, Inductive, PTL DEF Spec

-----------------------------------------------------------------------------
(* The lines of inheritance                                                 *)

LEMMA LeastElement ==
    ASSUME NEW S \in SUBSET Nat, S # {}
    PROVE  \E n \in S : \A m \in S : n <= m
  <1> DEFINE R == {ss \in Nat \X Nat : ss[1] < ss[2]}
  <1>1. IsWellFoundedOn(R, Nat)
    BY NatLessThanWellFounded DEF OpToRel
  <1>2. \A m, n \in S : <<m, n>> \in R <=> m < n
    OBVIOUS
  <1> HIDE DEF R
  <1>3. PICK n \in S : \A m \in S : ~ (<<m, n>> \in R)
    BY <1>1, WFMin
  <1>4. \A m \in S : ~ (m < n)
    BY <1>2, <1>3
  <1> QED BY <1>4

\* Induction up to N, for a set in place of a predicate.
LEMMA UpTo ==
    ASSUME NEW N \in Nat, NEW S, 0 \in S, \A n \in S \cap (0..N) : n < N => n + 1 \in S
    PROVE  0..N \subseteq S
  <1> SUFFICES ASSUME (0..N) \ S # {} PROVE FALSE
    OBVIOUS
  <1>1. PICK n \in (0..N) \ S : \A m \in (0..N) \ S : n <= m
    <2> DEFINE T == (0..N) \ S
    <2>1. T \in SUBSET Nat /\ T # {}
      OBVIOUS
    <2> HIDE DEF T
    <2>2. \E n \in T : \A m \in T : n <= m
      BY <2>1, LeastElement
    <2> QED BY <2>2 DEF T
  <1>2. n # 0 /\ n - 1 \in 0..N /\ n - 1 < N
    BY <1>1
  <1>3. n - 1 \in S
    BY <1>1, <1>2
  <1>4. (n - 1) + 1 = n
    BY <1>1
  <1> QED BY <1>1, <1>2, <1>3, <1>4

Steps == Cardinality(DOMAIN raw)

LEMMA LineUnfolds ==
    ASSUME Steps \in Nat, NEW l
    PROVE  /\ DOMAIN Line(l) = 0..Steps
           /\ Line(l)[0] = l
           /\ \A n \in 0..Steps : n < Steps =>
                 Line(l)[n + 1] = IF Line(l)[n] = None THEN None ELSE Base(Line(l)[n])
  <1> DEFINE N == Steps
             up[n \in 0..N] == IF n = 0 THEN l ELSE IF up[n-1] = None THEN None ELSE Base(up[n-1])
             Fits(f, k) == /\ f = [n \in 0..k |-> f[n]]
                           /\ \A n \in 0..k : f[n] = IF n = 0 THEN l ELSE
                                  IF f[n-1] = None THEN None ELSE Base(f[n-1])
             S == {k \in Nat : \E f : Fits(f, k)}
  <1>1. Line(l) = up
    BY DEF Line, Steps
  <1>2. 0 \in S
    <2>1. Fits([n \in 0..0 |-> l], 0)
      OBVIOUS
    <2> QED BY <2>1
  <1>3. ASSUME NEW k \in S PROVE k + 1 \in S
    <2>1. PICK f : Fits(f, k)
      BY <1>3
    <2> DEFINE last == IF f[k] = None THEN None ELSE Base(f[k])
               g == [n \in 0..(k + 1) |-> IF n <= k THEN f[n] ELSE last]
    <2>2. \A n \in 0..k : g[n] = f[n] /\ n <= k
      BY <1>3
    <2>3. g[k + 1] = last
      BY <1>3
    <2>4. g = [n \in 0..(k + 1) |-> g[n]]
      OBVIOUS
    <2> HIDE DEF g
    <2>5. ASSUME NEW n \in 0..(k + 1)
          PROVE  g[n] = IF n = 0 THEN l ELSE IF g[n-1] = None THEN None ELSE Base(g[n-1])
      <3>1. CASE n = k + 1
        <4>1. n # 0 /\ n - 1 = k /\ k \in 0..k
          BY <1>3, <3>1
        <4> QED BY <2>2, <2>3, <3>1, <4>1
      <3>2. CASE n = 0
        <4>1. 0 \in 0..k
          BY <1>3
        <4> QED BY <2>1, <2>2, <3>2, <4>1
      <3>3. CASE n # 0 /\ n # k + 1
        <4>1. n \in 0..k /\ n - 1 \in 0..k
          BY <1>3, <3>3
        <4> QED BY <2>1, <2>2, <3>3, <4>1
      <3> QED BY <3>1, <3>2, <3>3
    <2>6. Fits(g, k + 1)
      BY <2>4, <2>5
    <2>7. k + 1 \in Nat
      BY <1>3
    <2> HIDE DEF Fits
    <2> QED BY <2>6, <2>7
  <1>4. N \in S
    <2> HIDE DEF S
    <2>1. 0..N \subseteq S
      BY <1>2, <1>3, UpTo
    <2> QED BY <2>1
  <1>5. PICK f : Fits(f, N)
    BY <1>4
  <1>6. f = [n \in 0..N |-> IF n = 0 THEN l ELSE IF f[n-1] = None THEN None ELSE Base(f[n-1])]
    BY <1>5
  <1>7. up = [n \in 0..N |-> IF n = 0 THEN l ELSE
                                IF up[n-1] = None THEN None ELSE Base(up[n-1])]
    BY <1>6
  <1> HIDE DEF up, N
  <1>8. \A n \in 0..N : up[n] = IF n = 0 THEN l ELSE
                                   IF up[n-1] = None THEN None ELSE Base(up[n-1])
    BY <1>7
  <1>9. DOMAIN up = 0..N
    BY <1>7
  <1>10. 0 \in 0..N
    BY DEF N
  <1>11. up[0] = l
    BY <1>8, <1>10
  <1>12. ASSUME NEW n \in 0..N, n < N
         PROVE  up[n + 1] = IF up[n] = None THEN None ELSE Base(up[n])
    <2>1. n + 1 \in 0..N /\ n + 1 # 0 /\ (n + 1) - 1 = n
      BY <1>12 DEF N
    <2> QED BY <1>8, <2>1
  <1> QED BY <1>1, <1>9, <1>11, <1>12 DEF N

\* Of files that have been read and have known bases.
LinesKnown == /\ IsFiniteSet(DOMAIN raw) /\ DOMAIN raw \subseteq LexiconIds
              /\ UnknownBase = {}

LEMMA StepsType ==
    ASSUME LinesKnown
    PROVE  Steps \in Nat /\ None \notin DOMAIN raw
  BY FS_CardinalityType DEF LinesKnown, Steps

\* A line runs through lexicons up to its top, and there it ends.
LEMMA LineType ==
    ASSUME LinesKnown, NEW l \in DOMAIN raw, NEW n \in 0..Steps
    PROVE  Line(l)[n] \in DOMAIN raw \cup {None}
  <1> DEFINE S == {k \in 0..Steps : Line(l)[k] \in DOMAIN raw \cup {None}}
  <1>1. Steps \in Nat
    BY StepsType
  <1>2. 0 \in S
    BY <1>1, LineUnfolds
  <1>3. ASSUME NEW k \in S \cap (0..Steps), k < Steps PROVE k + 1 \in S
    <2>1. k + 1 \in 0..Steps
      BY <1>1, <1>3
    <2>2. Line(l)[k + 1] = IF Line(l)[k] = None THEN None ELSE Base(Line(l)[k])
      BY <1>1, <1>3, LineUnfolds
    <2>3. \A m \in DOMAIN raw : Base(m) \in DOMAIN raw \cup {None}
      BY DEF LinesKnown, UnknownBase
    <2> QED BY <1>3, <2>1, <2>2, <2>3
  <1> HIDE DEF S
  <1>4. 0..Steps \subseteq S
    BY <1>1, <1>2, <1>3, UpTo
  <1> QED BY <1>4 DEF S

LEMMA LineEnds ==
    ASSUME LinesKnown, NEW l \in DOMAIN raw, NEW n \in 0..Steps, Line(l)[n] = None,
           NEW m \in 0..Steps, n <= m
    PROVE  Line(l)[m] = None
  <1> DEFINE S == {k \in 0..Steps : n <= k => Line(l)[k] = None}
  <1>1. Steps \in Nat
    BY StepsType
  <1>2. 0 \in S
    BY <1>1
  <1>3. ASSUME NEW k \in S \cap (0..Steps), k < Steps PROVE k + 1 \in S
    <2>1. k + 1 \in 0..Steps
      BY <1>1, <1>3
    <2>2. Line(l)[k + 1] = IF Line(l)[k] = None THEN None ELSE Base(Line(l)[k])
      BY <1>1, <1>3, LineUnfolds
    <2>3. n <= k + 1 => n <= k \/ n = k + 1
      BY <1>1, <1>3
    <2> QED BY <1>3, <2>1, <2>2, <2>3
  <1> HIDE DEF S
  <1>4. 0..Steps \subseteq S
    BY <1>1, <1>2, <1>3, UpTo
  <1> QED BY <1>4 DEF S

\* Above its first step, the line of a lexicon is its base's.
LEMMA LineOfBase ==
    ASSUME LinesKnown, NEW l \in DOMAIN raw, Base(l) # None,
           NEW n \in 0..Steps, n < Steps
    PROVE  Line(l)[n + 1] = Line(Base(l))[n]
  <1> DEFINE b == Base(l)
             S == {k \in 0..Steps : k < Steps => Line(l)[k + 1] = Line(b)[k]}
  <1>1. Steps \in Nat /\ None \notin DOMAIN raw
    BY StepsType
  <1>2. 0 \in S
    <2>1. 0 < Steps => Line(l)[0 + 1] = IF Line(l)[0] = None THEN None ELSE Base(Line(l)[0])
      BY <1>1, LineUnfolds
    <2>2. Line(l)[0] = l /\ Line(b)[0] = b
      BY <1>1, LineUnfolds
    <2> QED BY <1>1, <2>1, <2>2
  <1>3. ASSUME NEW k \in S \cap (0..Steps), k < Steps PROVE k + 1 \in S
    <2> SUFFICES ASSUME k + 1 < Steps PROVE Line(l)[(k + 1) + 1] = Line(b)[k + 1]
      BY <1>1, <1>3
    <2>1. k + 1 \in 0..Steps
      BY <1>1, <1>3
    <2>2. Line(l)[(k + 1) + 1] =
            IF Line(l)[k + 1] = None THEN None ELSE Base(Line(l)[k + 1])
      BY <1>1, <2>1, LineUnfolds
    <2>3. Line(b)[k + 1] = IF Line(b)[k] = None THEN None ELSE Base(Line(b)[k])
      BY <1>1, <1>3, LineUnfolds
    <2>4. Line(l)[k + 1] = Line(b)[k]
      BY <1>3
    <2> QED BY <2>2, <2>3, <2>4
  <1> HIDE DEF S
  <1>4. 0..Steps \subseteq S
    BY <1>1, <1>2, <1>3, UpTo
  <1> QED BY <1>4 DEF S

LEMMA LineOfTop ==
    ASSUME LinesKnown, NEW l \in DOMAIN raw, Base(l) = None, NEW n \in 0..Steps, n # 0
    PROVE  Line(l)[n] = None
  <1>1. Steps \in Nat /\ None \notin DOMAIN raw
    BY StepsType
  <1>2. 1 \in 0..Steps /\ 0 < Steps /\ 0 + 1 = 1 /\ 1 <= n
    BY <1>1
  <1>3. Line(l)[0 + 1] = IF Line(l)[0] = None THEN None ELSE Base(Line(l)[0])
    BY <1>1, <1>2, LineUnfolds
  <1>4. Line(l)[0] = l
    BY <1>1, LineUnfolds
  <1>5. Line(l)[1] = None
    BY <1>1, <1>2, <1>3, <1>4
  <1> QED BY <1>2, <1>5, LineEnds

-----------------------------------------------------------------------------
(* What the nearest lexicon says                                            *)

LEMMA MinType ==
    ASSUME NEW S \in SUBSET Nat, S # {}
    PROVE  Min(S) \in S /\ \A m \in S : Min(S) <= m
  <1>1. \E n \in S : \A m \in S : n <= m
    BY LeastElement
  <1> QED BY <1>1 DEF Min

\* The places in l's line that have a key.
Having(l, key) == {n \in InLine(l) : key \in DOMAIN raw[Line(l)[n]]}

LEMMA InLineType ==
    ASSUME LinesKnown, NEW l \in DOMAIN raw
    PROVE  /\ InLine(l) = {n \in 0..Steps : Line(l)[n] # None}
           /\ 0 \in InLine(l) /\ Line(l)[0] = l
           /\ \A n \in InLine(l) : Line(l)[n] \in DOMAIN raw
           /\ \A key : Having(l, key) \in SUBSET Nat
           /\ \A key : key \in KeysOfLine(l) <=> Having(l, key) # {} /\ key # <<"extends">>
  <1>1. Steps \in Nat /\ None \notin DOMAIN raw
    BY StepsType
  <1>2. DOMAIN Line(l) = 0..Steps /\ Line(l)[0] = l
    BY <1>1, LineUnfolds
  <1>3. InLine(l) = {n \in 0..Steps : Line(l)[n] # None}
    BY <1>2 DEF InLine
  <1>4. 0 \in InLine(l)
    BY <1>1, <1>2, <1>3
  <1>5. \A n \in InLine(l) : Line(l)[n] \in DOMAIN raw
    BY <1>3, LineType
  <1>6. \A key : Having(l, key) \in SUBSET Nat
    BY <1>1, <1>3 DEF Having
  <1>7. \A key : key \in KeysOfLine(l) <=> Having(l, key) # {} /\ key # <<"extends">>
    <2> TAKE key
    <2>1. key \in KeysOfLine(l) <=>
            (\E n \in InLine(l) : key \in DOMAIN raw[Line(l)[n]]) /\ key # <<"extends">>
      <3> DEFINE K(n) == DOMAIN raw[Line(l)[n]]
                 x == <<"extends">>
                 U == UNION {K(n) : n \in InLine(l)}
      <3>1. KeysOfLine(l) = U \ {x}
        BY DEF KeysOfLine
      <3>2. (\E n \in InLine(l) : key \in DOMAIN raw[Line(l)[n]]) /\ key # <<"extends">>
              <=> (\E n \in InLine(l) : key \in K(n)) /\ key # x
        OBVIOUS
      <3> HIDE DEF K, x
      <3>3. ASSUME key \in U PROVE \E n \in InLine(l) : key \in K(n)
        <4>1. PICK s \in {K(n) : n \in InLine(l)} : key \in s
          BY <3>3
        <4>2. PICK n \in InLine(l) : s = K(n)
          BY <4>1
        <4> QED BY <4>1, <4>2
      <3>4. ASSUME NEW n \in InLine(l), key \in K(n) PROVE key \in U
        <4>1. K(n) \in {K(m) : m \in InLine(l)}
          OBVIOUS
        <4> QED BY <4>1, <3>4
      <3> HIDE DEF U
      <3>5. key \in KeysOfLine(l) <=> key \in U /\ key # x
        BY <3>1
      <3> QED BY <3>2, <3>3, <3>4, <3>5
    <2>2. Having(l, key) # {} <=> \E n \in InLine(l) : key \in DOMAIN raw[Line(l)[n]]
      BY DEF Having
    <2> QED BY <2>1, <2>2
  <1> QED BY <1>2, <1>3, <1>4, <1>5, <1>6, <1>7

LEMMA NearestOfTop ==
    ASSUME LinesKnown, NEW l \in DOMAIN raw, Base(l) = None
    PROVE  Nearest(l) = [key \in DOMAIN raw[l] \ {<<"extends">>} |-> raw[l][key]]
  <1>1. InLine(l) = {0} /\ Line(l)[0] = l
    BY InLineType, LineOfTop
  <1>2. \A key : Having(l, key) = IF key \in DOMAIN raw[l] THEN {0} ELSE {}
    BY <1>1 DEF Having
  <1>3. KeysOfLine(l) = DOMAIN raw[l] \ {<<"extends">>}
    BY <1>2, InLineType
  <1>4. Min({0}) = 0
    <2>1. {0} \in SUBSET Nat /\ {0} # {}
      OBVIOUS
    <2>2. Min({0}) \in {0}
      BY <2>1, MinType
    <2> QED BY <2>2
  <1>5. \A key \in KeysOfLine(l) : raw[Line(l)[Min(Having(l, key))]][key] = raw[l][key]
    BY <1>1, <1>2, <1>3, <1>4
  <1>6. Nearest(l) = [key \in KeysOfLine(l) |-> raw[Line(l)[Min(Having(l, key))]][key]]
    BY DEF Nearest, Having
  <1> QED BY <1>3, <1>5, <1>6

\* Beyond what it says itself, a lexicon has what its base has.
LEMMA NearestOfChild ==
    ASSUME LinesKnown, NEW l \in DOMAIN raw, NEW b \in DOMAIN raw, Base(l) = b,
           b \notin Circular
    PROVE  Nearest(l) = [key \in (DOMAIN raw[l] \cup KeysOfLine(b)) \ {<<"extends">>} |->
                            IF key \in DOMAIN raw[l] THEN raw[l][key] ELSE Nearest(b)[key]]
  <1>1. Steps \in Nat /\ None \notin DOMAIN raw /\ b # None
    BY StepsType
  <1>2. Line(b)[Steps] = None
    BY DEF Circular, Steps
  <1>3. /\ InLine(l) = {n \in 0..Steps : Line(l)[n] # None}
        /\ InLine(b) = {n \in 0..Steps : Line(b)[n] # None}
        /\ 0 \in InLine(l) /\ Line(l)[0] = l
    BY InLineType
  <1>4. ASSUME NEW n \in InLine(b)
        PROVE  n + 1 \in InLine(l) /\ Line(l)[n + 1] = Line(b)[n]
    <2>1. n \in 0..Steps /\ n # Steps /\ Line(b)[n] # None
      BY <1>2, <1>3, <1>4
    <2>2. n < Steps /\ n + 1 \in 0..Steps
      BY <1>1, <2>1
    <2>3. Line(l)[n + 1] = Line(b)[n]
      BY <1>1, <2>1, <2>2, LineOfBase
    <2> QED BY <1>3, <2>1, <2>2, <2>3
  <1>5. ASSUME NEW n \in InLine(l), n # 0
        PROVE  n - 1 \in InLine(b) /\ Line(l)[n] = Line(b)[n - 1]
    <2>1. n \in 0..Steps /\ Line(l)[n] # None
      BY <1>3, <1>5
    <2>2. n - 1 \in 0..Steps /\ n - 1 < Steps /\ (n - 1) + 1 = n
      BY <1>1, <1>5, <2>1
    <2>3. Line(l)[(n - 1) + 1] = Line(b)[n - 1]
      BY <1>1, <2>2, LineOfBase
    <2> QED BY <1>3, <2>1, <2>2, <2>3
  <1>6. \A key : Having(l, key) \in SUBSET Nat /\ Having(b, key) \in SUBSET Nat
    BY InLineType
  <1>7. ASSUME NEW key, key \in DOMAIN raw[l]
        PROVE  0 \in Having(l, key) /\ Min(Having(l, key)) = 0
    <2>1. 0 \in Having(l, key)
      BY <1>3, <1>7 DEF Having
    <2>2. Min(Having(l, key)) \in Nat /\ Min(Having(l, key)) <= 0
      BY <1>6, <2>1, MinType
    <2> QED BY <2>1, <2>2
  <1>8. ASSUME NEW key, key \notin DOMAIN raw[l]
        PROVE  /\ \A n \in Having(b, key) : n + 1 \in Having(l, key)
               /\ \A n \in Having(l, key) : n # 0 /\ n - 1 \in Having(b, key)
    <2>1. \A n \in Having(b, key) : n + 1 \in Having(l, key)
      BY <1>4 DEF Having
    <2>2. \A n \in Having(l, key) : n # 0
      BY <1>3, <1>8 DEF Having
    <2>3. \A n \in Having(l, key) : n - 1 \in Having(b, key)
      BY <1>5, <2>2 DEF Having
    <2> QED BY <2>1, <2>2, <2>3
  <1>9. ASSUME NEW key, key \notin DOMAIN raw[l], Having(b, key) # {}
        PROVE  Line(l)[Min(Having(l, key))] = Line(b)[Min(Having(b, key))]
    <2> DEFINE m == Min(Having(b, key))
               n == Min(Having(l, key))
    <2>1. m \in Having(b, key) /\ \A k \in Having(b, key) : m <= k
      BY <1>6, <1>9, MinType
    <2>2. m + 1 \in Having(l, key)
      BY <1>8, <1>9, <2>1
    <2>3. n \in Having(l, key) /\ \A k \in Having(l, key) : n <= k
      BY <1>6, <2>2, MinType
    <2>4. n <= m + 1 /\ m <= n - 1 /\ m \in Nat /\ n \in Nat
      BY <1>6, <1>8, <1>9, <2>1, <2>2, <2>3
    <2> HIDE DEF m, n
    <2>5. n = m + 1
      BY <2>4
    <2>6. Line(l)[m + 1] = Line(b)[m]
      BY <1>4, <2>1 DEF Having
    <2> QED BY <2>5, <2>6 DEF m, n
  <1>10. KeysOfLine(l) = (DOMAIN raw[l] \cup KeysOfLine(b)) \ {<<"extends">>}
    <2>1. ASSUME NEW key
          PROVE  Having(l, key) # {} <=> key \in DOMAIN raw[l] \/ Having(b, key) # {}
      BY <1>7, <1>8
    <2>2. \A key : /\ key \in KeysOfLine(l) <=> Having(l, key) # {} /\ key # <<"extends">>
                   /\ key \in KeysOfLine(b) <=> Having(b, key) # {} /\ key # <<"extends">>
      BY InLineType
    <2> QED BY <2>1, <2>2
  <1>11. ASSUME NEW key \in KeysOfLine(l)
         PROVE  raw[Line(l)[Min(Having(l, key))]][key]
                   = IF key \in DOMAIN raw[l] THEN raw[l][key] ELSE Nearest(b)[key]
    <2>1. CASE key \in DOMAIN raw[l]
      BY <1>3, <1>7, <2>1
    <2>2. CASE key \notin DOMAIN raw[l]
      <3>1. key \in KeysOfLine(b)
        BY <1>10, <1>11, <2>2
      <3>2. Having(b, key) # {}
        BY <3>1, InLineType
      <3>3. Nearest(b)[key] = raw[Line(b)[Min(Having(b, key))]][key]
        BY <3>1 DEF Nearest, Having
      <3> QED BY <1>9, <2>2, <3>2, <3>3
    <2> QED BY <2>1, <2>2
  <1>12. Nearest(l) = [key \in KeysOfLine(l) |-> raw[Line(l)[Min(Having(l, key))]][key]]
    BY DEF Nearest, Having
  <1> QED BY <1>10, <1>11, <1>12

\* Merging a lexicon into its base, resolved, gives what its line says.
LEMMA MergedIsNearest ==
    ASSUME LinesKnown, NEW l \in DOMAIN raw, Ready(l), DOMAIN resolved \subseteq DOMAIN raw,
           Base(l) \in DOMAIN resolved => /\ Base(l) \notin Circular
                                          /\ resolved[Base(l)] = Nearest(Base(l))
    PROVE  Merged(l) = Nearest(l)
  <1> DEFINE x == <<"extends">>
  <1>1. None \notin DOMAIN raw
    BY StepsType
  <1>2. CASE Base(l) = None
    <2>1. Whole(l) = raw[l]
      BY <1>1, <1>2 DEF Whole
    <2> QED BY <1>2, <2>1, NearestOfTop DEF Merged
  <1>3. CASE Base(l) \in DOMAIN resolved
    <2> DEFINE b == Base(l)
    <2>1. b \in DOMAIN raw /\ b \notin Circular /\ resolved[b] = Nearest(b)
      BY <1>3
    <2>2. DOMAIN resolved[b] = KeysOfLine(b)
      BY <2>1 DEF Nearest
    <2>3. Whole(l) = [key \in KeysOfLine(b) \cup DOMAIN raw[l] |->
                         IF key \in DOMAIN raw[l] THEN raw[l][key] ELSE Nearest(b)[key]]
      BY <1>3, <2>1, <2>2 DEF Whole, DeepMerge
    <2>4. Nearest(l) = [key \in (DOMAIN raw[l] \cup KeysOfLine(b)) \ {x} |->
                           IF key \in DOMAIN raw[l] THEN raw[l][key] ELSE Nearest(b)[key]]
      BY <2>1, NearestOfChild
    <2>5. Merged(l) = [key \in DOMAIN Whole(l) \ {x} |-> Whole(l)[key]]
      BY DEF Merged
    <2> HIDE DEF b, x
    <2> QED BY <2>3, <2>4, <2>5
  <1> QED BY <1>2, <1>3 DEF Ready

-----------------------------------------------------------------------------
(* Every lexicon inherits from the nearest                                  *)

InheritInv ==
    /\ LoadInv /\ IsFiniteSet(DOMAIN raw) /\ InheritsNearest
    /\ stage \notin {"read", "order", "rejected"} \/ DOMAIN resolved # {} =>
          UnknownBase = {} /\ Circular = {}

LEMMA DirectoryIsFinite ==
    ASSUME directory \in Directories \ {NoDirectory}
    PROVE  IsFiniteSet(Discovered)
  <1> DEFINE D == DOMAIN directory
  <1>1. D \subseteq Files
    OBVIOUS
  <1>2. Discovered = {IdOf[f] : f \in D}
    BY DEF Discovered
  <1>3. IsFiniteSet(D)
    <2>1. CASE D = {}
      BY <2>1, FS_EmptySet
    <2>2. CASE D # {}
      <3>1. D \in (SUBSET Files) \ {{}}
        BY <1>1, <2>2
      <3>2. PICK f \in D : \A g \in D : g <= f
        BY <3>1
      <3>3. f \in Nat /\ D \subseteq 0..f
        <4>1. f \in Nat /\ \A g \in D : g \in Nat /\ g <= f
          BY <1>1, <3>2
        <4>2. \A g \in D : g \in 0..f
          BY <4>1
        <4> QED BY <4>1, <4>2
      <3>4. IsFiniteSet(0..f)
        BY <3>3, FS_Interval
      <3> QED BY <3>3, <3>4, FS_Subset
    <2> QED BY <2>1, <2>2
  <1> HIDE DEF D
  <1>4. [f \in D |-> IdOf[f]] \in Surjection(D, Discovered)
    BY <1>2 DEF Surjection
  <1> QED BY <1>3, <1>4, FS_Surjection

\* What a line says is in the files.
LEMMA NearestOfFiles ==
    ASSUME raw' = raw
    PROVE  /\ UnknownBase' = UnknownBase /\ Circular' = Circular
           /\ \A l : Nearest(l)' = Nearest(l)
  <1>1. \A l : Base(l)' = Base(l)
    BY DEF Base, Get
  <1>2. \A l : Line(l)' = Line(l)
    BY <1>1 DEF Line
  <1>3. \A l : InLine(l)' = InLine(l) /\ KeysOfLine(l)' = KeysOfLine(l)
    BY <1>2 DEF InLine, KeysOfLine
  <1>4. UnknownBase' = UnknownBase /\ Circular' = Circular
    BY <1>1, <1>2 DEF UnknownBase, Circular
  <1>5. \A l : Nearest(l)' = Nearest(l)
    BY <1>2, <1>3 DEF Nearest
  <1> QED BY <1>4, <1>5

LEMMA InheritResolve ==
    ASSUME InheritInv, NEW l \in LexiconIds, Resolve(l), LoadInv'
    PROVE  InheritInv'
  <1>1. /\ stage = "resolve" /\ l \in DOMAIN raw \ DOMAIN resolved /\ Ready(l)
        /\ stage' = stage /\ raw' = raw
        /\ resolved' = [m \in DOMAIN resolved \cup {l} |->
                            IF m = l THEN Merged(l) ELSE resolved[m]]
    BY DEF Resolve
  <1>2. LinesKnown /\ Circular = {} /\ DOMAIN resolved \subseteq DOMAIN raw
    BY <1>1 DEF InheritInv, LoadInv, TypeOK, LinesKnown
  <1>3. Merged(l) = Nearest(l)
    <2>1. Base(l) \in DOMAIN resolved => /\ Base(l) \notin Circular
                                         /\ resolved[Base(l)] = Nearest(Base(l))
      BY <1>2 DEF InheritInv, InheritsNearest
    <2> QED BY <1>1, <1>2, <2>1, MergedIsNearest
  <1>4. \A m \in DOMAIN resolved' : resolved'[m] = Nearest(m)
    BY <1>1, <1>3 DEF InheritInv, InheritsNearest
  <1>5. InheritsNearest'
    BY <1>1, <1>4, NearestOfFiles DEF InheritsNearest
  <1> QED BY <1>1, <1>2, <1>5, NearestOfFiles DEF InheritInv

LEMMA InheritInductive == InheritInv /\ [Next]_vars => InheritInv'
  <1> SUFFICES ASSUME InheritInv, [Next]_vars PROVE InheritInv'
    OBVIOUS
  <1>1. LoadInv'
    BY Inductive DEF InheritInv
  <1>2. CASE raw' = raw /\ resolved' = resolved
    <2>1. InheritsNearest' /\ IsFiniteSet(DOMAIN raw')
      BY <1>2, NearestOfFiles DEF InheritInv, InheritsNearest
    <2>2. stage' \notin {"read", "order", "rejected"} \/ DOMAIN resolved # {} =>
             UnknownBase = {} /\ Circular = {}
      <3>1. stage = "order" =>
             stage' \in {"order", "rejected"} \/ (UnknownBase = {} /\ Circular = {})
        <4>1. CASE Order
          BY <4>1 DEF Order, Reject
        <4>2. CASE ~Order
          BY <4>2 DEF Next, ReadFiles, Resolve, Validate, Build, CheckSubDirs, CheckRoots, vars
        <4> QED BY <4>1, <4>2
      <3>2. stage = "read" => stage' \in {"read", "order", "rejected"}
        BY DEF Next, ReadFiles, Order, Resolve, Validate, Build, CheckSubDirs, CheckRoots,
               Reject, vars
      <3>3. stage = "rejected" => stage' = "rejected"
        BY DEF Next, ReadFiles, Order, Resolve, Validate, Build, CheckSubDirs, CheckRoots,
               Reject, vars
      <3> QED BY <3>1, <3>2, <3>3 DEF InheritInv
    <2> QED BY <1>1, <1>2, <2>1, <2>2, NearestOfFiles DEF InheritInv
  <1>3. CASE ReadFiles
    <2>1. stage = "read" /\ resolved' = resolved /\ DOMAIN resolved = {}
      BY <1>3 DEF ReadFiles, InheritInv, LoadInv
    <2>2. CASE /\ raw' = [l \in Discovered |-> directory[FileOf(l)]] /\ stage' = "order"
               /\ directory # NoDirectory
      <3>1. IsFiniteSet(DOMAIN raw')
        BY <2>2, DirectoryIsFinite DEF InheritInv, LoadInv
      <3> QED BY <1>1, <2>1, <2>2, <3>1 DEF InheritInv, InheritsNearest
    <2>3. CASE raw' = raw
      BY <1>2, <2>1, <2>3
    <2> QED BY <1>3, <2>2, <2>3 DEF ReadFiles
  <1>4. ASSUME NEW l \in LexiconIds, Resolve(l) PROVE InheritInv'
    BY <1>1, <1>4, InheritResolve
  <1>5. CASE Order \/ Validate \/ Build \/ CheckSubDirs \/ CheckRoots \/ UNCHANGED vars
    <2>1. raw' = raw /\ resolved' = resolved
      BY <1>5 DEF Order, Validate, Build, CheckSubDirs, CheckRoots, vars
    <2> QED BY <1>2, <2>1
  <1> QED BY <1>3, <1>4, <1>5 DEF Next

\* In whichever order the lexicons are resolved, a child has every key from
\* the nearest ancestor that gives it.
THEOREM InheritsNearestHolds == Spec => []InheritsNearest
  <1>1. Init => InheritInv
    <2> SUFFICES ASSUME Init PROVE InheritInv
      OBVIOUS
    <2>1. DOMAIN raw = {} /\ DOMAIN resolved = {} /\ stage = "read"
      BY DEF Init, Nothing
    <2> QED BY <2>1, Initial, FS_EmptySet DEF InheritInv, InheritsNearest
  <1>2. InheritInv => InheritsNearest
    BY DEF InheritInv
  <1> QED BY <1>1, <1>2, InheritInductive, PTL DEF Spec

-----------------------------------------------------------------------------
(* What is wrong with what a lexicon says                                   *)

\* The names in an object are those of its keys.
LEMMA NamesOf ==
    ASSUME NEW data, Shaped(data), NEW object \in {"transitions", "dir_map", "sub_dirs"}, NEW name
    PROVE  name \in Names(data, object) <=> <<object, name>> \in DOMAIN data
  <1>1. ASSUME name \in Names(data, object) PROVE <<object, name>> \in DOMAIN data
    <2>1. PICK key \in DOMAIN data : key[1] = object /\ name = key[2]
      BY <1>1 DEF Names
    <2>2. key = <<key[1], key[2]>>
      BY <2>1 DEF Shaped
    <2> QED BY <2>1, <2>2
  <1>2. ASSUME <<object, name>> \in DOMAIN data PROVE name \in Names(data, object)
    <2> DEFINE key == <<object, name>>
    <2>1. key[1] = object /\ key[2] = name
      OBVIOUS
    <2> HIDE DEF key
    <2> QED BY <1>2, <2>1 DEF Names, key
  <1> QED BY <1>1, <1>2

LEMMA ClosedIsValid ==
    ASSUME NEW data, Shaped(data)
    PROVE  InvalidIn(data) = {} <=> Closed(data)
  <1> DEFINE known == StatusesOf(data)
             from == Names(data, "transitions")
             targets == UNION {data[<<"transitions", f>>] : f \in from}
             named == from \cup targets
             mapped == {data[<<"dir_map", d>>] : d \in Names(data, "dir_map")}
             acted == ListOf(data, "actionable_statuses")
             set == {SetOn(data, f) : f \in Names(data, "metadata_fields")}
             field(f) == <<"metadata_fields", f, "set_on">>
  <1>1. InvalidIn(data) = {} <=> /\ known # {} /\ named \subseteq known /\ mapped \subseteq known
                                 /\ acted \subseteq known /\ set \subseteq known \cup {None}
    BY ValidData
  <1>2. named \subseteq known <=>
          \A key \in DOMAIN data : key[1] = "transitions" => key[2] \in known /\ data[key] \subseteq known
    <2>1. ASSUME named \subseteq known, NEW key \in DOMAIN data, key[1] = "transitions"
          PROVE  key[2] \in known /\ data[key] \subseteq known
      <3>1. key = <<"transitions", key[2]>> /\ key[2] \in from
        BY <2>1 DEF Shaped, Names
      <3>2. data[key] \in {data[<<"transitions", f>>] : f \in from}
        BY <3>1
      <3>3. data[key] \subseteq targets
        BY <3>2
      <3> HIDE DEF from, targets
      <3> QED BY <2>1, <3>1, <3>3
    <2>2. ASSUME \A key \in DOMAIN data :
                    key[1] = "transitions" => key[2] \in known /\ data[key] \subseteq known
          PROVE  named \subseteq known
      <3>1. ASSUME NEW f \in from PROVE f \in known /\ data[<<"transitions", f>>] \subseteq known
        <4> DEFINE key == <<"transitions", f>>
        <4>1. key \in DOMAIN data /\ key[1] = "transitions" /\ key[2] = f
          BY NamesOf
        <4> HIDE DEF key
        <4>2. f \in known /\ data[key] \subseteq known
          BY <2>2, <4>1
        <4> QED BY <4>2 DEF key
      <3>2. targets \subseteq known
        <4> SUFFICES ASSUME NEW s \in targets PROVE s \in known
          OBVIOUS
        <4>1. PICK t \in {data[<<"transitions", f>>] : f \in from} : s \in t
          OBVIOUS
        <4>2. PICK f \in from : t = data[<<"transitions", f>>]
          BY <4>1
        <4> QED BY <3>1, <4>1, <4>2
      <3> QED BY <3>1, <3>2
    <2> QED BY <2>1, <2>2
  <1>3. mapped \subseteq known <=>
          \A key \in DOMAIN data : key[1] = "dir_map" => data[key] \in known
    <2>1. ASSUME mapped \subseteq known, NEW key \in DOMAIN data, key[1] = "dir_map"
          PROVE  data[key] \in known
      <3>1. key = <<"dir_map", key[2]>> /\ key[2] \in Names(data, "dir_map")
        BY <2>1 DEF Shaped, Names
      <3>2. data[key] \in mapped
        BY <3>1
      <3> QED BY <2>1, <3>2
    <2>2. ASSUME \A key \in DOMAIN data : key[1] = "dir_map" => data[key] \in known
          PROVE  mapped \subseteq known
      <3> SUFFICES ASSUME NEW d \in Names(data, "dir_map") PROVE data[<<"dir_map", d>>] \in known
        OBVIOUS
      <3> DEFINE key == <<"dir_map", d>>
      <3>1. key \in DOMAIN data /\ key[1] = "dir_map"
        BY NamesOf
      <3> HIDE DEF key
      <3>2. data[key] \in known
        BY <2>2, <3>1
      <3> QED BY <3>2 DEF key
    <2> QED BY <2>1, <2>2
  <1>4. acted \subseteq known <=>
          \A key \in DOMAIN data : key[1] = "actionable_statuses" => data[key] \subseteq known
    <2> DEFINE list == <<"actionable_statuses">>
    <2>1. list[1] = "actionable_statuses"
      OBVIOUS
    <2>2. \A key \in DOMAIN data : key[1] = "actionable_statuses" => key = list
      BY DEF Shaped
    <2>3. acted = IF list \in DOMAIN data THEN data[list] ELSE {}
      BY DEF ListOf, Get
    <2> HIDE DEF list
    <2> QED BY <2>1, <2>2, <2>3
  <1>5. set \subseteq known \cup {None} <=>
          \A key \in DOMAIN data : key[1] = "metadata_fields" /\ key[3] = "set_on"
                                      => data[key] \in known \cup {None}
    <2>1. ASSUME set \subseteq known \cup {None}, NEW key \in DOMAIN data,
                 key[1] = "metadata_fields", key[3] = "set_on"
          PROVE  data[key] \in known \cup {None}
      <3>1. key = field(key[2]) /\ key[2] \in Names(data, "metadata_fields")
        BY <2>1 DEF Shaped, Names
      <3>2. SetOn(data, key[2]) = data[key]
        BY <3>1 DEF SetOn, Get
      <3>3. SetOn(data, key[2]) \in set
        BY <3>1
      <3> QED BY <2>1, <3>2, <3>3
    <2>2. ASSUME \A key \in DOMAIN data : key[1] = "metadata_fields" /\ key[3] = "set_on"
                                             => data[key] \in known \cup {None}
          PROVE  set \subseteq known \cup {None}
      <3> SUFFICES ASSUME NEW f \in Names(data, "metadata_fields")
                   PROVE  SetOn(data, f) \in known \cup {None}
        OBVIOUS
      <3> DEFINE key == field(f)
      <3>1. key[1] = "metadata_fields" /\ key[3] = "set_on"
        OBVIOUS
      <3>2. SetOn(data, f) = IF key \in DOMAIN data THEN data[key] ELSE None
        BY DEF SetOn, Get
      <3> HIDE DEF key
      <3> QED BY <2>2, <3>1, <3>2
    <2> QED BY <2>1, <2>2
  <1>6. Closed(data) <=>
          /\ known # {}
          /\ \A key \in DOMAIN data :
               key[1] = "transitions" => key[2] \in known /\ data[key] \subseteq known
          /\ \A key \in DOMAIN data : key[1] = "dir_map" => data[key] \in known
          /\ \A key \in DOMAIN data : key[1] = "actionable_statuses" => data[key] \subseteq known
          /\ \A key \in DOMAIN data : key[1] = "metadata_fields" /\ key[3] = "set_on"
                                        => data[key] \in known \cup {None}
    BY DEF Closed
  <1> HIDE DEF known, named, mapped, acted, set
  <1> QED BY <1>1, <1>2, <1>3, <1>4, <1>5, <1>6

-----------------------------------------------------------------------------
(* Cycles, and how deep a lexicon lies                                      *)

\* A line without an end comes back to where it was, and that is a cycle.
LEMMA CircularIsCycle ==
    ASSUME LinesKnown
    PROVE  Circular # {} <=> Cycles # {}
  <1>1. Steps \in Nat /\ None \notin DOMAIN raw /\ IsFiniteSet(DOMAIN raw)
    BY StepsType DEF LinesKnown
  <1>2. ASSUME NEW S \in Cycles, NEW l \in S PROVE l \in Circular
    <2> DEFINE T == {k \in 0..Steps : Line(l)[k] \in S}
    <2>1. S \subseteq DOMAIN raw /\ \A m \in S : Base(m) \in S
      BY DEF Cycles
    <2>2. 0 \in T
      BY <1>1, LineUnfolds
    <2>3. ASSUME NEW k \in T \cap (0..Steps), k < Steps PROVE k + 1 \in T
      <3>1. k + 1 \in 0..Steps /\ Line(l)[k] \in S
        BY <1>1, <2>3
      <3>2. Line(l)[k + 1] = IF Line(l)[k] = None THEN None ELSE Base(Line(l)[k])
        BY <1>1, <2>3, LineUnfolds
      <3> QED BY <1>1, <2>1, <3>1, <3>2
    <2> HIDE DEF T
    <2>4. 0..Steps \subseteq T
      BY <1>1, <2>2, <2>3, UpTo
    <2>5. Line(l)[Steps] \in S
      BY <1>1, <2>4 DEF T
    <2> QED BY <1>1, <2>1, <2>5 DEF Circular, Steps
  <1>3. ASSUME NEW l \in Circular PROVE Cycles # {}
    <2>1. l \in DOMAIN raw /\ Line(l)[Steps] # None
      BY DEF Circular, Steps
    <2>2. \A n \in 0..Steps : Line(l)[n] \in DOMAIN raw
      <3> TAKE n \in 0..Steps
      <3>1. Steps \in 0..Steps /\ n <= Steps
        BY <1>1
      <3>2. Line(l)[n] # None
        BY <2>1, <3>1, LineEnds
      <3> QED BY <2>1, <3>2, LineType
    <2> DEFINE f == [n \in 0..Steps |-> Line(l)[n]]
    <2>3. \E x, y \in 0..Steps : x # y /\ f[x] = f[y]
      <3>1. f \in [0..Steps -> DOMAIN raw]
        BY <2>2
      <3>2. IsFiniteSet(0..Steps) /\ Cardinality(0..Steps) = Steps + 1
        BY <1>1, FS_Interval
      <3>3. Cardinality(DOMAIN raw) < Cardinality(0..Steps)
        BY <1>1, <3>2 DEF Steps
      <3> HIDE DEF f
      <3> QED BY <1>1, <3>1, <3>2, <3>3, FS_PigeonHole
    <2>4. PICK i, j \in 0..Steps : i < j /\ Line(l)[i] = Line(l)[j]
      <3>1. PICK x, y \in 0..Steps : x # y /\ Line(l)[x] = Line(l)[y]
        BY <2>3
      <3>2. x < y \/ y < x
        BY <1>1, <3>1
      <3> QED BY <3>1, <3>2
    <2> DEFINE S == {Line(l)[n] : n \in i..(j - 1)}
    <2>5. \A n \in i..(j - 1) : n \in 0..Steps /\ n < Steps /\ (n + 1 \in i..(j - 1) \/ n + 1 = j)
      BY <1>1, <2>4
    <2>6. i \in i..(j - 1)
      BY <1>1, <2>4
    <2>7. S \subseteq DOMAIN raw /\ Line(l)[i] \in S
      BY <2>2, <2>5, <2>6
    <2>8. ASSUME NEW m \in S PROVE Base(m) \in S
      <3>1. PICK n \in i..(j - 1) : m = Line(l)[n]
        BY <2>8
      <3>2. Line(l)[n + 1] = IF Line(l)[n] = None THEN None ELSE Base(Line(l)[n])
        BY <1>1, <2>5, LineUnfolds
      <3>3. Base(m) = Line(l)[n + 1]
        BY <1>1, <2>7, <3>1, <3>2
      <3>4. CASE n + 1 \in i..(j - 1)
        BY <3>3, <3>4
      <3>5. CASE n + 1 = j
        BY <2>4, <2>7, <3>3, <3>5
      <3> QED BY <2>5, <3>4, <3>5
    <2> HIDE DEF S
    <2>9. S \in Cycles
      BY <2>7, <2>8 DEF Cycles
    <2> QED BY <2>9
  <1>4. ASSUME Cycles # {} PROVE Circular # {}
    <2>1. PICK S \in Cycles : TRUE
      BY <1>4
    <2>2. PICK l \in S : TRUE
      BY <2>1 DEF Cycles
    <2> QED BY <1>2, <2>1, <2>2
  <1> QED BY <1>3, <1>4

\* A line with an end is never twice at the same lexicon.
LEMMA LineNeverRepeats ==
    ASSUME LinesKnown, Circular = {}, NEW l \in DOMAIN raw,
           NEW i \in 0..Steps, NEW j \in 0..Steps, i < j, Line(l)[i] = Line(l)[j]
    PROVE  Line(l)[j] = None
  <1> SUFFICES ASSUME Line(l)[j] # None PROVE FALSE
    OBVIOUS
  <1>1. Steps \in Nat /\ Line(l)[Steps] = None
    BY StepsType DEF Circular, Steps
  <1> DEFINE T == {k \in 0..Steps : j + k <= Steps => Line(l)[i + k] = Line(l)[j + k]}
  <1>2. 0..Steps \subseteq T
    <2>1. 0 \in T
      <3>1. 0 \in 0..Steps /\ i + 0 = i /\ j + 0 = j
        BY <1>1
      <3> QED BY <3>1
    <2>2. ASSUME NEW k \in T \cap (0..Steps), k < Steps PROVE k + 1 \in T
      <3> SUFFICES ASSUME j + (k + 1) <= Steps PROVE Line(l)[i + (k + 1)] = Line(l)[j + (k + 1)]
        BY <1>1, <2>2
      <3>1. /\ i + k \in 0..Steps /\ i + k < Steps /\ i + (k + 1) = (i + k) + 1
            /\ j + k \in 0..Steps /\ j + k < Steps /\ j + (k + 1) = (j + k) + 1
        BY <1>1, <2>2
      <3>2. /\ Line(l)[(i + k) + 1] = IF Line(l)[i + k] = None THEN None ELSE Base(Line(l)[i + k])
            /\ Line(l)[(j + k) + 1] = IF Line(l)[j + k] = None THEN None ELSE Base(Line(l)[j + k])
        BY <1>1, <3>1, LineUnfolds
      <3>3. j + k <= Steps
        BY <1>1, <3>1
      <3>4. Line(l)[i + k] = Line(l)[j + k]
        BY <2>2, <3>3
      <3> QED BY <3>1, <3>2, <3>4
    <2> HIDE DEF T
    <2> QED BY <1>1, <2>1, <2>2, UpTo
  <1> DEFINE ends == {n \in 0..Steps : Line(l)[n] = None}
  <1>3. PICK top \in ends : \A n \in ends : top <= n
    <2>1. ends \in SUBSET Nat /\ Steps \in ends
      BY <1>1
    <2> HIDE DEF ends
    <2> QED BY <2>1, LeastElement
  <1>4. j < top /\ top <= Steps
    <2>1. ~(top <= j)
      <3> SUFFICES ASSUME top <= j PROVE FALSE
        OBVIOUS
      <3> QED BY <1>3, LineEnds
    <2> QED BY <1>1, <1>3, <2>1
  <1> DEFINE k == top - j
  <1>5. k \in 0..Steps /\ j + k = top /\ j + k <= Steps /\ i + k \in 0..Steps /\ i + k < top
    BY <1>1, <1>3, <1>4
  <1> HIDE DEF k
  <1>6. Line(l)[i + k] = Line(l)[top]
    BY <1>2, <1>5
  <1>7. i + k \in ends
    BY <1>3, <1>5, <1>6
  <1>8. top <= i + k
    BY <1>3, <1>7
  <1> QED BY <1>1, <1>3, <1>5, <1>8

\* The steps of a line with an end are the lexicons above its first.
LEMMA DepthIsAbove ==
    ASSUME LinesKnown, Circular = {}, NEW l \in DOMAIN raw
    PROVE  Depth(l) = Cardinality(Above(l))
  <1> DEFINE up == {n \in 0..Steps : n # 0 /\ Line(l)[n] # None}
             line == {Line(l)[n] : n \in up}
  <1>1. /\ Steps \in Nat /\ None \notin DOMAIN raw /\ Line(l)[0] = l
        /\ DOMAIN Line(l) = 0..Steps /\ Line(l)[Steps] = None
    BY StepsType, LineUnfolds DEF Circular, Steps
  <1>2. Depth(l) = Cardinality(up)
    <2>1. {n \in DOMAIN Line(l) \ {0} : Line(l)[n] # None} = up
      BY <1>1
    <2> QED BY <2>1 DEF Depth
  <1>3. line \subseteq DOMAIN raw
    BY LineType
  <1>4. ASSUME NEW x \in line \cup {l} PROVE Base(x) \in line \cup {None}
    <2>1. PICK n \in 0..Steps : Line(l)[n] = x /\ x \in DOMAIN raw
      BY <1>1, <1>3
    <2>2. x # None
      BY <1>1, <2>1
    <2>3. n < Steps /\ n + 1 \in 0..Steps /\ n + 1 # 0
      <3>1. n # Steps
        BY <1>1, <2>1, <2>2
      <3> QED BY <1>1, <3>1
    <2>4. Line(l)[n + 1] = IF Line(l)[n] = None THEN None ELSE Base(Line(l)[n])
      BY <1>1, <2>3, LineUnfolds
    <2>5. Line(l)[n + 1] = Base(x)
      BY <2>1, <2>2, <2>4
    <2> QED BY <2>3, <2>5
  <1>5. ASSUME NEW m \in Above(l) PROVE m \in line
    <2> HIDE DEF line
    <2> QED BY <1>3, <1>4 DEF Above
  <1>6. ASSUME NEW m \in line PROVE m \in Above(l)
    <2> SUFFICES ASSUME NEW S \in SUBSET DOMAIN raw,
                        \A x \in S \cup {l} : Base(x) \in S \cup {None}
                 PROVE  m \in S
      BY <1>3 DEF Above
    <2> DEFINE T == {k \in 0..Steps : k # 0 => Line(l)[k] \in S \cup {None}}
    <2>1. 0 \in T
      BY <1>1
    <2>2. ASSUME NEW k \in T \cap (0..Steps), k < Steps PROVE k + 1 \in T
      <3>1. k + 1 \in 0..Steps
        BY <1>1, <2>2
      <3>2. Line(l)[k + 1] = IF Line(l)[k] = None THEN None ELSE Base(Line(l)[k])
        BY <1>1, <2>2, LineUnfolds
      <3>3. Line(l)[k] \in S \cup {l, None}
        BY <1>1, <2>2
      <3> QED BY <3>1, <3>2, <3>3
    <2> HIDE DEF T
    <2>3. 0..Steps \subseteq T
      BY <1>1, <2>1, <2>2, UpTo
    <2>4. PICK n \in up : m = Line(l)[n]
      OBVIOUS
    <2>5. n \in T
      BY <2>3
    <2> QED BY <2>4, <2>5 DEF T
  <1>7. line = Above(l)
    <2> HIDE DEF line
    <2> QED BY <1>5, <1>6
  <1> DEFINE f == [n \in up |-> Line(l)[n]]
  <1>8. f \in Surjection(up, line)
    BY DEF Surjection
  <1>9. f \in Injection(up, line)
    <2>1. ASSUME NEW i \in up, NEW j \in up, Line(l)[i] = Line(l)[j] PROVE i = j
      <3>1. ~(i < j)
        <4> SUFFICES ASSUME i < j PROVE FALSE
          OBVIOUS
        <4> QED BY <2>1, LineNeverRepeats
      <3>2. ~(j < i)
        <4> SUFFICES ASSUME j < i PROVE FALSE
          OBVIOUS
        <4> QED BY <2>1, LineNeverRepeats
      <3> QED BY <1>1, <3>1, <3>2
    <2>2. f \in [up -> line]
      OBVIOUS
    <2>3. \A i, j \in up : f[i] = f[j] => i = j
      BY <2>1
    <2> HIDE DEF f, up, line
    <2> QED BY <2>2, <2>3 DEF Injection, IsInjective
  <1>10. IsFiniteSet(up)
    <2>1. IsFiniteSet(0..Steps)
      BY <1>1, FS_Interval
    <2> QED BY <2>1, FS_Subset
  <1>11. Cardinality(line) = Cardinality(up)
    <2> HIDE DEF f, up, line
    <2> QED BY <1>8, <1>9, <1>10, FS_Surjection
  <1> HIDE DEF up, line
  <1> QED BY <1>2, <1>7, <1>11

-----------------------------------------------------------------------------
(* The verdict                                                              *)

Hooked(outcome) == {l \in DOMAIN raw : HookIs(Nearest(l), outcome)}
Incomplete == {l \in DOMAIN raw : HasUntyped(Nearest(l))}

\* How the loading ends, stage by stage, and the lexicons the errors name: only
\* those with a fault of the first kind found, and all of them.
Verdict ==
    IF directory \in {NoDirectory, Nothing} THEN <<"rejected", {None}>>
    ELSE IF Unread # {} THEN <<"rejected", Unread>>
    ELSE IF UnknownBase # {} THEN <<"rejected", UnknownBase>>
    ELSE IF Cycles # {} THEN <<"rejected", {None}>>
    ELSE IF Hooked("raises") # {} THEN <<"raised", {}>>
    ELSE IF AtFault # {} THEN <<"rejected", AtFault>>
    ELSE IF Incomplete # {} THEN <<"raised", {}>>
    ELSE IF Misnested # {} THEN <<"rejected", Misnested>>
    ELSE IF ~(RootLexicons \subseteq DOMAIN raw) THEN <<"rejected", {None}>>
    ELSE <<"ready", {}>>
EndsAsStaged == stage \in Ended => <<stage, Named(errors)>> = Verdict

\* What each stage has found not to be wrong, and the errors it has collected.
CauseInv ==
    /\ InheritInv /\ EndsAsStaged /\ \A l \in DOMAIN raw : Shaped(raw[l])
    /\ stage \in {"order", "resolve", "build", "sub_dirs", "loaded"} => Legible
    /\ stage \in {"resolve", "build", "sub_dirs", "loaded"} => Connected
    /\ stage = "resolve" => errors = {<<l, <<"depth", None>>>> : l \in TooDeep}
    /\ stage \in {"build", "sub_dirs", "loaded"} => errors = {} /\ Hooked("raises") = {} /\ AtFault = {}
    /\ stage \in {"sub_dirs", "loaded"} => Incomplete = {}
    /\ stage = "loaded" => Misnested = {}

\* The verdict, by the first kind of fault there is.
LEMMA VerdictIs ==
    /\ directory \in {NoDirectory, Nothing} => Verdict = <<"rejected", {None}>>
    /\ directory \notin {NoDirectory, Nothing} /\ Unread # {} => Verdict = <<"rejected", Unread>>
    /\ Legible /\ UnknownBase # {} => Verdict = <<"rejected", UnknownBase>>
    /\ Legible /\ UnknownBase = {} /\ Cycles # {} => Verdict = <<"rejected", {None}>>
    /\ Connected /\ Hooked("raises") # {} => Verdict = <<"raised", {}>>
    /\ Connected /\ Hooked("raises") = {} /\ AtFault # {} => Verdict = <<"rejected", AtFault>>
    /\ Connected /\ Hooked("raises") = {} /\ AtFault = {} /\ Incomplete # {} => Verdict = <<"raised", {}>>
    /\ Connected /\ Hooked("raises") = {} /\ AtFault = {} /\ Incomplete = {} =>
          /\ Misnested # {} => Verdict = <<"rejected", Misnested>>
          /\ Misnested = {} /\ ~(RootLexicons \subseteq DOMAIN raw) => Verdict = <<"rejected", {None}>>
          /\ Misnested = {} /\ RootLexicons \subseteq DOMAIN raw => Verdict = <<"ready", {}>>
  BY DEF Verdict, Legible, Connected

\* It is a verdict on the files.
LEMMA VerdictOfFiles ==
    ASSUME raw' = raw, directory' = directory
    PROVE  /\ Verdict' = Verdict /\ Legible' = Legible /\ Connected' = Connected /\ TooDeep' = TooDeep
           /\ Hooked("raises")' = Hooked("raises") /\ AtFault' = AtFault
           /\ Incomplete' = Incomplete /\ Misnested' = Misnested
  <1>1. /\ UnknownBase' = UnknownBase
        /\ \A l : Nearest(l)' = Nearest(l)
        /\ \A l : Base(l)' = Base(l)
        /\ \A l : Depth(l)' = Depth(l)
    <2>1. \A l : Base(l)' = Base(l)
      BY DEF Base, Get
    <2>2. \A l : Line(l)' = Line(l)
      BY <2>1 DEF Line
    <2>3. \A l : Depth(l)' = Depth(l)
      BY <2>2 DEF Depth
    <2> QED BY <2>1, <2>3, NearestOfFiles
  <1>2. Cycles' = Cycles /\ \A l : Above(l)' = Above(l)
    BY <1>1 DEF Cycles, Above
  <1>3. Unread' = Unread
    BY DEF Unread, Discovered, FileOf
  <1>4. TooDeep' = TooDeep
    BY <1>1 DEF TooDeep
  <1>5. Legible' = Legible
    BY <1>3 DEF Legible
  <1>6. Connected' = Connected
    BY <1>1, <1>2, <1>5 DEF Connected
  <1>7. Hooked("raises")' = Hooked("raises") /\ Incomplete' = Incomplete
    BY <1>1 DEF Hooked, Incomplete, HookIs, HookOf, Get, HasUntyped, Names
  <1>8. AtFault' = AtFault
    BY <1>1, <1>2 DEF AtFault
  <1>9. Misnested' = Misnested
    BY <1>1 DEF Misnested
  <1>10. Verdict' = Verdict
    BY <1>1, <1>2, <1>3, <1>7, <1>8, <1>9 DEF Verdict
  <1> QED BY <1>4, <1>5, <1>6, <1>7, <1>8, <1>9, <1>10

\* What a line says lies where its files have it.
LEMMA NearestShaped ==
    ASSUME LinesKnown, \A l \in DOMAIN raw : Shaped(raw[l]), NEW l \in DOMAIN raw
    PROVE  Shaped(Nearest(l))
  <1>1. ASSUME NEW key \in DOMAIN Nearest(l)
        PROVE  \E m \in DOMAIN raw : key \in DOMAIN raw[m]
    <2>1. key \in KeysOfLine(l)
      BY DEF Nearest
    <2>2. PICK n : n \in Having(l, key)
      BY <2>1, InLineType
    <2>3. n \in InLine(l) /\ key \in DOMAIN raw[Line(l)[n]]
      BY <2>2 DEF Having
    <2>4. Line(l)[n] \in DOMAIN raw
      BY <2>3, InLineType
    <2> QED BY <2>3, <2>4
  <1> QED BY <1>1 DEF Shaped

\* Of all the lexicons resolved, the faults the loader finds are those of what
\* they inherit and say.
LEMMA ResolvedFaults ==
    ASSUME CauseInv, Connected, DOMAIN resolved = DOMAIN raw
    PROVE  /\ \A outcome : Imports(outcome) = Hooked(outcome)
           /\ Untyped = Incomplete
           /\ TooDeep \cup {l \in DOMAIN raw : InvalidIn(resolved[l]) # {}} \cup Imports("missing")
                = AtFault
  <1>1. LinesKnown /\ \A l \in DOMAIN raw : resolved[l] = Nearest(l)
    BY DEF CauseInv, InheritInv, InheritsNearest, LoadInv, TypeOK, LinesKnown, Connected
  <1>2. Circular = {}
    BY <1>1, CircularIsCycle DEF Connected
  <1>3. \A outcome : Imports(outcome) = Hooked(outcome)
    BY <1>1 DEF Imports, Hooked, HookIs
  <1>4. Untyped = Incomplete
    BY <1>1 DEF Untyped, Incomplete, HasUntyped, Typed
  <1>5. ASSUME NEW l \in DOMAIN raw
        PROVE  /\ l \in TooDeep <=> Cardinality(Above(l)) > MaxDepth
               /\ InvalidIn(resolved[l]) # {} <=> ~Closed(Nearest(l))
               /\ l \in Imports("missing") <=> HookIs(Nearest(l), "missing")
    <2>1. l \in TooDeep <=> Cardinality(Above(l)) > MaxDepth
      <3>1. Depth(l) = Cardinality(Above(l))
        BY <1>1, <1>2, DepthIsAbove
      <3> QED BY <3>1 DEF TooDeep
    <2>2. InvalidIn(resolved[l]) # {} <=> ~Closed(Nearest(l))
      <3>1. \A m \in DOMAIN raw : Shaped(raw[m])
        BY DEF CauseInv
      <3>2. Shaped(Nearest(l))
        BY <1>1, <3>1, NearestShaped
      <3> QED BY <1>1, <3>2, ClosedIsValid
    <2>3. l \in Imports("missing") <=> HookIs(Nearest(l), "missing")
      BY <1>3 DEF Hooked
    <2> QED BY <2>1, <2>2, <2>3
  <1>6. TooDeep \subseteq DOMAIN raw /\ Imports("missing") \subseteq DOMAIN raw
    BY DEF TooDeep, Imports
  <1>7. AtFault = {l \in DOMAIN raw : \/ l \in TooDeep
                                      \/ InvalidIn(resolved[l]) # {}
                                      \/ l \in Imports("missing")}
    BY <1>5 DEF AtFault
  <1>8. TooDeep \cup {l \in DOMAIN raw : InvalidIn(resolved[l]) # {}} \cup Imports("missing")
          = AtFault
    BY <1>6, <1>7
  <1> QED BY <1>3, <1>4, <1>8

\* The lexicons the errors of a batch name.
LEMMA NamedByBatch ==
    ASSUME errors = {<<l, <<"depth", None>>>> : l \in TooDeep}, DOMAIN resolved = DOMAIN raw
    PROVE  Named(errors \cup BatchErrors)
             = TooDeep \cup {l \in DOMAIN raw : InvalidIn(resolved[l]) # {}} \cup Imports("missing")
  <1> DEFINE invalid == {l \in DOMAIN raw : InvalidIn(resolved[l]) # {}}
             fault(l) == {<<l, e>> : e \in InvalidIn(resolved[l])}
             faults == {fault(l) : l \in DOMAIN resolved}
             unhooked == {<<l, <<"derive_hook", None>>>> : l \in Imports("missing")}
  <1>1. BatchErrors = (UNION faults) \cup unhooked
    BY DEF BatchErrors
  <1>2. Named(errors) = TooDeep
    <2>1. \A e \in errors : e[1] \in TooDeep
      OBVIOUS
    <2>2. \A l \in TooDeep : <<l, <<"depth", None>>>> \in errors /\ <<l, <<"depth", None>>>>[1] = l
      OBVIOUS
    <2> QED BY <2>1, <2>2 DEF Named
  <1>3. Named(unhooked) = Imports("missing")
    <2>1. \A e \in unhooked : e[1] \in Imports("missing")
      OBVIOUS
    <2>2. \A l \in Imports("missing") : /\ <<l, <<"derive_hook", None>>>> \in unhooked
                                        /\ <<l, <<"derive_hook", None>>>>[1] = l
      OBVIOUS
    <2> HIDE DEF unhooked
    <2> QED BY <2>1, <2>2 DEF Named
  <1>4. Named(UNION faults) = invalid
    <2>1. ASSUME NEW e \in UNION faults PROVE e[1] \in invalid
      <3>1. PICK s \in faults : e \in s
        BY <2>1
      <3>2. PICK l \in DOMAIN resolved : s = fault(l)
        BY <3>1
      <3>3. PICK x \in InvalidIn(resolved[l]) : e = <<l, x>>
        BY <3>1, <3>2
      <3> QED BY <3>2, <3>3
    <2>2. ASSUME NEW l \in invalid PROVE \E e \in UNION faults : e[1] = l
      <3>1. PICK x : x \in InvalidIn(resolved[l])
        BY <2>2
      <3>2. fault(l) \in faults
        BY <2>2
      <3>3. <<l, x>> \in fault(l) /\ <<l, x>>[1] = l
        BY <3>1
      <3>4. <<l, x>> \in UNION faults
        <4> HIDE DEF fault, faults
        <4> QED BY <3>2, <3>3
      <3> QED BY <3>3, <3>4
    <2> HIDE DEF faults, invalid
    <2> QED BY <2>1, <2>2 DEF Named
  <1> HIDE DEF faults, invalid, unhooked
  <1>5. Named(errors \cup BatchErrors) = Named(errors) \cup Named(UNION faults) \cup Named(unhooked)
    BY <1>1 DEF Named
  <1> QED BY <1>2, <1>3, <1>4, <1>5 DEF invalid

\* And those the errors of the subsidiary lexicons name.
LEMMA NamedBySubDirs ==
    ASSUME CauseInv, stage = "sub_dirs"
    PROVE  Named(SubDirErrors) = Misnested
  <1>1. /\ DOMAIN resolved = DOMAIN raw /\ lexicons = [l \in DOMAIN resolved |-> Built(resolved[l])]
        /\ \A l \in DOMAIN raw : resolved[l] = Nearest(l)
    BY DEF CauseInv, InheritInv, InheritsNearest, LoadInv
  <1>2. \A l \in DOMAIN raw : SubLexicons(l) = SubsOf(Nearest(l))
    <2> TAKE l \in DOMAIN raw
    <2>1. lexicons[l].sub_dirs = [d \in Names(Nearest(l), "sub_dirs") |-> Nearest(l)[<<"sub_dirs", d>>]]
      BY <1>1 DEF Built
    <2> QED BY <2>1 DEF SubLexicons, SubsOf, Range
  <1> DEFINE bad(l) == {s \in SubLexicons(l) : s \notin DOMAIN lexicons \/ SubLexicons(s) # {}}
             ill(l) == {<<l, <<"sub_dirs", s>>>> : s \in bad(l)}
             ills == {ill(l) : l \in DOMAIN lexicons}
  <1>3. SubDirErrors = UNION ills
    BY DEF SubDirErrors
  <1>4. DOMAIN lexicons = DOMAIN raw
    BY <1>1
  <1>5. \A l \in DOMAIN raw : l \in Misnested <=> bad(l) # {}
    <2> TAKE l \in DOMAIN raw
    <2>1. \A s \in SubLexicons(l) : (s \notin DOMAIN lexicons \/ SubLexicons(s) # {}) <=>
                                    (s \notin DOMAIN raw \/ SubsOf(Nearest(s)) # {})
      BY <1>2, <1>4
    <2>2. l \in Misnested <=> \E s \in SubLexicons(l) : s \notin DOMAIN raw \/ SubsOf(Nearest(s)) # {}
      BY <1>2 DEF Misnested
    <2> QED BY <2>1, <2>2
  <1>6. Misnested \subseteq DOMAIN raw
    BY DEF Misnested
  <1>7. ASSUME NEW e \in SubDirErrors PROVE e[1] \in Misnested
    <2>1. PICK t \in ills : e \in t
      BY <1>3
    <2>2. PICK l \in DOMAIN lexicons : t = ill(l)
      BY <2>1
    <2>3. PICK s \in bad(l) : e = <<l, <<"sub_dirs", s>>>>
      BY <2>1, <2>2
    <2>4. e[1] = l
      BY <2>3
    <2> HIDE DEF bad
    <2> QED BY <1>4, <1>5, <2>2, <2>3, <2>4
  <1>8. ASSUME NEW l \in Misnested PROVE \E e \in SubDirErrors : e[1] = l
    <2>1. PICK s : s \in bad(l)
      BY <1>5, <1>6
    <2>2. ill(l) \in ills
      BY <1>4, <1>6
    <2>3. <<l, <<"sub_dirs", s>>>> \in ill(l) /\ <<l, <<"sub_dirs", s>>>>[1] = l
      BY <2>1
    <2>4. <<l, <<"sub_dirs", s>>>> \in SubDirErrors
      <3> HIDE DEF ill, ills
      <3> QED BY <1>3, <2>2, <2>3
    <2> QED BY <2>3, <2>4
  <1> QED BY <1>7, <1>8 DEF Named

\* Ending with the verdict.
LEMMA EndStep ==
    ASSUME CauseInv, [Next]_vars, raw' = raw, directory' = directory,
           stage' \in Ended, <<stage', Named(errors')>> = Verdict
    PROVE  CauseInv'
  <1>1. InheritInv'
    BY InheritInductive DEF CauseInv
  <1>2. EndsAsStaged'
    BY VerdictOfFiles DEF EndsAsStaged, Named
  <1>3. stage' \notin {"order", "resolve", "build", "sub_dirs", "loaded"}
    BY DEF Ended
  <1> QED BY <1>1, <1>2, <1>3 DEF CauseInv, Shaped

\* Going on: an earlier stage's findings stay.
LEMMA ReadCause ==
    ASSUME CauseInv, ReadFiles, InheritInv'
    PROVE  CauseInv'
  <1>1. [Next]_vars /\ stage = "read" /\ directory' = directory
    BY DEF Next, ReadFiles
  <1>2. CASE directory \in {NoDirectory, Nothing}
    <2>1. raw' = raw /\ stage' = "rejected" /\ \E x : errors' = {<<None, x>>}
      BY <1>2 DEF ReadFiles, Reject
    <2>2. Named(errors') = {None}
      BY <2>1 DEF Named
    <2>3. Verdict = <<"rejected", {None}>>
      BY <1>2, VerdictIs
    <2> QED BY <1>1, <2>1, <2>2, <2>3, EndStep DEF Ended
  <1>3. CASE directory \notin {NoDirectory, Nothing} /\ Unread # {}
    <2>1. raw' = raw /\ stage' = "rejected" /\ errors' = {<<l, <<"file", None>>>> : l \in Unread}
      BY <1>3 DEF ReadFiles, Reject
    <2>2. \A l \in Unread : <<l, <<"file", None>>>> \in errors' /\ <<l, <<"file", None>>>>[1] = l
      BY <2>1
    <2>3. \A e \in errors' : e[1] \in Unread
      BY <2>1
    <2>4. Named(errors') = Unread
      BY <2>2, <2>3 DEF Named
    <2>5. Verdict = <<"rejected", Unread>>
      BY <1>3, VerdictIs
    <2> QED BY <1>1, <2>1, <2>4, <2>5, EndStep DEF Ended
  <1>4. CASE Legible
    <2>1. raw' = [l \in Discovered |-> directory[FileOf(l)]] /\ stage' = "order"
      BY <1>4 DEF ReadFiles, Legible
    <2>2. directory \in Directories \ {NoDirectory}
      BY <1>4 DEF CauseInv, InheritInv, LoadInv, Legible
    <2>3. \A l \in DOMAIN raw' : Shaped(raw'[l])
      <3> TAKE l \in DOMAIN raw'
      <3>1. l \in Discovered /\ raw'[l] = directory[FileOf(l)]
        BY <2>1
      <3>2. FileOf(l) \in DOMAIN directory
        BY <2>2, <3>1, FileOfDiscovered
      <3>3. directory[FileOf(l)] # Unreadable
        BY <1>4, <3>1 DEF Legible, Unread
      <3> QED BY <2>2, <3>1, <3>2, <3>3
    <2>4. Legible'
      BY <1>1, <1>4 DEF Legible, Unread, Discovered, FileOf
    <2>5. (\A l \in DOMAIN raw : Shaped(raw[l]))'
      BY <2>3 DEF Shaped
    <2>6. EndsAsStaged'
      BY <2>1 DEF EndsAsStaged, Ended
    <2> QED BY <2>1, <2>4, <2>5, <2>6 DEF CauseInv
  <1> QED BY <1>2, <1>3, <1>4 DEF Legible

LEMMA OrderCause ==
    ASSUME CauseInv, Order, InheritInv'
    PROVE  CauseInv'
  <1>1. /\ [Next]_vars /\ stage = "order" /\ raw' = raw /\ directory' = directory /\ Legible
        /\ IsFiniteSet(DOMAIN raw) /\ DOMAIN raw \subseteq LexiconIds
    BY DEF Next, Order, CauseInv, InheritInv, LoadInv, TypeOK
  <1>2. CASE UnknownBase # {}
    <2>1. stage' = "rejected" /\ errors' = {<<l, <<"extends", Base(l)>>>> : l \in UnknownBase}
      BY <1>2 DEF Order, Reject
    <2>2. \A l \in UnknownBase : /\ <<l, <<"extends", Base(l)>>>> \in errors'
                                 /\ <<l, <<"extends", Base(l)>>>>[1] = l
      BY <2>1
    <2>3. \A e \in errors' : e[1] \in UnknownBase
      BY <2>1
    <2>4. Named(errors') = UnknownBase
      BY <2>2, <2>3 DEF Named
    <2>5. Verdict = <<"rejected", UnknownBase>>
      BY <1>1, <1>2, VerdictIs
    <2> QED BY <1>1, <2>1, <2>4, <2>5, EndStep DEF Ended
  <1>3. CASE UnknownBase = {} /\ Circular # {}
    <2>1. stage' = "rejected" /\ \E x : errors' = {<<None, x>>}
      BY <1>3 DEF Order, Reject
    <2>2. Named(errors') = {None}
      BY <2>1 DEF Named
    <2>3. Cycles # {}
      BY <1>1, <1>3, CircularIsCycle DEF LinesKnown
    <2>4. Verdict = <<"rejected", {None}>>
      BY <1>1, <1>3, <2>3, VerdictIs
    <2> QED BY <1>1, <2>1, <2>2, <2>4, EndStep DEF Ended
  <1>4. CASE UnknownBase = {} /\ Circular = {}
    <2>1. stage' = "resolve" /\ errors' = {<<l, <<"depth", None>>>> : l \in TooDeep}
      BY <1>4 DEF Order
    <2>2. Connected
      BY <1>1, <1>4, CircularIsCycle DEF LinesKnown, Connected
    <2>3. Legible' /\ Connected' /\ TooDeep' = TooDeep
      BY <1>1, <2>2, VerdictOfFiles DEF Connected
    <2>4. EndsAsStaged'
      BY <2>1 DEF EndsAsStaged, Ended
    <2>5. (\A l \in DOMAIN raw : Shaped(raw[l]))'
      BY <1>1 DEF CauseInv, Shaped
    <2> QED BY <2>1, <2>3, <2>4, <2>5 DEF CauseInv
  <1> QED BY <1>2, <1>3, <1>4

LEMMA ResolveCause ==
    ASSUME CauseInv, NEW l \in LexiconIds, Resolve(l), InheritInv'
    PROVE  CauseInv'
  <1>1. /\ stage = "resolve" /\ stage' = "resolve" /\ raw' = raw /\ directory' = directory
        /\ errors' = errors
    BY DEF Resolve
  <1>2. Legible' /\ Connected' /\ TooDeep' = TooDeep
    BY <1>1, VerdictOfFiles DEF CauseInv
  <1>3. EndsAsStaged'
    BY <1>1 DEF EndsAsStaged, Ended
  <1>4. (\A m \in DOMAIN raw : Shaped(raw[m]))'
    BY <1>1 DEF CauseInv, Shaped
  <1>5. errors' = {<<m, <<"depth", None>>>> : m \in TooDeep}
    BY <1>1 DEF CauseInv
  <1> QED BY <1>1, <1>2, <1>3, <1>4, <1>5 DEF CauseInv

LEMMA ValidateCause ==
    ASSUME CauseInv, Validate, InheritInv'
    PROVE  CauseInv'
  <1>1. /\ [Next]_vars /\ stage = "resolve" /\ raw' = raw /\ directory' = directory /\ Connected
        /\ DOMAIN resolved = DOMAIN raw
    BY DEF Next, Validate, CauseInv
  <1>2. Imports("raises") = Hooked("raises") /\ Named(errors \cup BatchErrors) = AtFault
    <2>1. errors = {<<l, <<"depth", None>>>> : l \in TooDeep}
      BY <1>1 DEF CauseInv
    <2> QED BY <1>1, <2>1, ResolvedFaults, NamedByBatch
  <1>3. CASE Imports("raises") # {}
    <2>1. stage' = "raised" /\ errors' = {}
      BY <1>3 DEF Validate, Raise
    <2>2. Named(errors') = {}
      BY <2>1 DEF Named
    <2>3. Verdict = <<"raised", {}>>
      BY <1>1, <1>2, <1>3, VerdictIs
    <2> QED BY <1>1, <2>1, <2>2, <2>3, EndStep DEF Ended
  <1> DEFINE found == errors \cup BatchErrors
  <1>4. CASE Imports("raises") = {} /\ found # {}
    <2>1. stage' = "rejected" /\ errors' = found
      BY <1>4 DEF Validate, Reject
    <2>2. Named(errors') = AtFault
      BY <1>2, <2>1
    <2>3. Named(found) # {}
      BY <1>4 DEF Named
    <2>4. Verdict = <<"rejected", AtFault>>
      BY <1>1, <1>2, <1>4, <2>3, VerdictIs
    <2> QED BY <1>1, <2>1, <2>2, <2>4, EndStep DEF Ended
  <1>5. CASE Imports("raises") = {} /\ found = {}
    <2>1. stage' = "build" /\ errors' = errors
      BY <1>5 DEF Validate
    <2>2. AtFault = {} /\ errors = {} /\ Hooked("raises") = {}
      <3>1. Named({}) = {}
        BY DEF Named
      <3> QED BY <1>2, <1>5, <3>1
    <2>3. Legible' /\ Connected' /\ AtFault' = AtFault /\ Hooked("raises")' = Hooked("raises")
      BY <1>1, VerdictOfFiles DEF Connected
    <2>4. EndsAsStaged'
      BY <2>1 DEF EndsAsStaged, Ended
    <2>5. (\A l \in DOMAIN raw : Shaped(raw[l]))'
      BY <1>1 DEF CauseInv, Shaped
    <2> QED BY <2>1, <2>2, <2>3, <2>4, <2>5 DEF CauseInv
  <1> QED BY <1>3, <1>4, <1>5

LEMMA BuildCause ==
    ASSUME CauseInv, Build, InheritInv'
    PROVE  CauseInv'
  <1>1. /\ [Next]_vars /\ stage = "build" /\ raw' = raw /\ directory' = directory /\ Connected
        /\ DOMAIN resolved = DOMAIN raw /\ errors = {} /\ Hooked("raises") = {} /\ AtFault = {}
    BY DEF Next, Build, CauseInv, InheritInv, LoadInv
  <1>2. Untyped = Incomplete
    BY <1>1, ResolvedFaults
  <1>3. CASE Untyped # {}
    <2>1. stage' = "raised" /\ errors' = {}
      BY <1>3 DEF Build, Raise
    <2>2. Named(errors') = {}
      BY <2>1 DEF Named
    <2>3. Verdict = <<"raised", {}>>
      BY <1>1, <1>2, <1>3, VerdictIs
    <2> QED BY <1>1, <2>1, <2>2, <2>3, EndStep DEF Ended
  <1>4. CASE Untyped = {}
    <2>1. stage' = "sub_dirs" /\ errors' = {}
      BY <1>1, <1>4 DEF Build
    <2>2. /\ Legible' /\ Connected' /\ AtFault' = {} /\ Hooked("raises")' = {}
          /\ Incomplete' = {}
      BY <1>1, <1>2, <1>4, VerdictOfFiles DEF Connected
    <2>3. EndsAsStaged'
      BY <2>1 DEF EndsAsStaged, Ended
    <2>4. (\A l \in DOMAIN raw : Shaped(raw[l]))'
      BY <1>1 DEF CauseInv, Shaped
    <2> QED BY <2>1, <2>2, <2>3, <2>4 DEF CauseInv
  <1> QED BY <1>3, <1>4

LEMMA SubDirsCause ==
    ASSUME CauseInv, CheckSubDirs, InheritInv'
    PROVE  CauseInv'
  <1>1. /\ [Next]_vars /\ stage = "sub_dirs" /\ raw' = raw /\ directory' = directory /\ Connected
        /\ errors = {} /\ Hooked("raises") = {} /\ AtFault = {} /\ Incomplete = {}
    BY DEF Next, CheckSubDirs, CauseInv
  <1>2. Named(SubDirErrors) = Misnested
    BY <1>1, NamedBySubDirs
  <1>3. CASE SubDirErrors # {}
    <2>1. stage' = "rejected" /\ errors' = SubDirErrors
      BY <1>3 DEF CheckSubDirs, Reject
    <2>2. Misnested # {}
      BY <1>2, <1>3 DEF Named
    <2>3. Verdict = <<"rejected", Misnested>>
      BY <1>1, <2>2, VerdictIs
    <2>4. Named(errors') = Misnested
      BY <1>2, <2>1
    <2> QED BY <1>1, <2>1, <2>3, <2>4, EndStep DEF Ended
  <1>4. CASE SubDirErrors = {}
    <2>1. stage' = "loaded" /\ errors' = {}
      BY <1>1, <1>4 DEF CheckSubDirs
    <2>2. Misnested = {}
      BY <1>2, <1>4 DEF Named
    <2>3. /\ Legible' /\ Connected' /\ AtFault' = {} /\ Hooked("raises")' = {}
          /\ Incomplete' = {} /\ Misnested' = {}
      BY <1>1, <2>2, VerdictOfFiles DEF Connected
    <2>4. EndsAsStaged'
      BY <2>1 DEF EndsAsStaged, Ended
    <2>5. (\A l \in DOMAIN raw : Shaped(raw[l]))'
      BY <1>1 DEF CauseInv, Shaped
    <2> QED BY <2>1, <2>3, <2>4, <2>5 DEF CauseInv
  <1> QED BY <1>3, <1>4

LEMMA RootsCause ==
    ASSUME CauseInv, CheckRoots
    PROVE  CauseInv'
  <1>1. /\ [Next]_vars /\ stage = "loaded" /\ raw' = raw /\ directory' = directory /\ Connected
        /\ errors = {} /\ Hooked("raises") = {} /\ AtFault = {} /\ Incomplete = {} /\ Misnested = {}
        /\ DOMAIN lexicons = DOMAIN raw
    BY DEF Next, CheckRoots, CauseInv, InheritInv, LoadInv
  <1>2. CASE RootLexicons \subseteq DOMAIN lexicons
    <2>1. stage' = "ready" /\ errors' = {}
      BY <1>1, <1>2 DEF CheckRoots
    <2>2. Named(errors') = {}
      BY <2>1 DEF Named
    <2>3. Verdict = <<"ready", {}>>
      BY <1>1, <1>2, VerdictIs
    <2> QED BY <1>1, <2>1, <2>2, <2>3, EndStep DEF Ended
  <1>3. CASE ~(RootLexicons \subseteq DOMAIN lexicons)
    <2>1. /\ stage' = "rejected"
          /\ errors' = {<<None, <<"scan_root", l>>>> : l \in RootLexicons \ DOMAIN lexicons}
      BY <1>3 DEF CheckRoots, Reject
    <2>2. PICK l \in RootLexicons \ DOMAIN lexicons : TRUE
      BY <1>3
    <2>3. \A e \in errors' : e[1] = None
      BY <2>1
    <2>4. <<None, <<"scan_root", l>>>> \in errors'
      BY <2>1, <2>2
    <2>5. Named(errors') = {None}
      BY <2>3, <2>4 DEF Named
    <2>6. Verdict = <<"rejected", {None}>>
      BY <1>1, <1>3, VerdictIs
    <2> QED BY <1>1, <2>1, <2>5, <2>6, EndStep DEF Ended
  <1> QED BY <1>2, <1>3

LEMMA CauseInductive == CauseInv /\ [Next]_vars => CauseInv'
  <1> SUFFICES ASSUME CauseInv, [Next]_vars PROVE CauseInv'
    OBVIOUS
  <1>1. InheritInv'
    BY InheritInductive DEF CauseInv
  <1>2. CASE UNCHANGED vars
    <2>1. stage' = stage /\ raw' = raw /\ directory' = directory /\ errors' = errors
      BY <1>2 DEF vars
    <2>2. EndsAsStaged'
      BY <2>1, VerdictOfFiles DEF CauseInv, EndsAsStaged
    <2>3. (\A l \in DOMAIN raw : Shaped(raw[l]))'
      BY <2>1 DEF CauseInv, Shaped
    <2>4. /\ Legible' = Legible /\ Connected' = Connected /\ TooDeep' = TooDeep
          /\ Hooked("raises")' = Hooked("raises") /\ AtFault' = AtFault
          /\ Incomplete' = Incomplete /\ Misnested' = Misnested
      BY <2>1, VerdictOfFiles
    <2> QED BY <1>1, <2>1, <2>2, <2>3, <2>4 DEF CauseInv
  <1> QED BY <1>1, <1>2, ReadCause, OrderCause, ResolveCause, ValidateCause, BuildCause,
             SubDirsCause, RootsCause DEF Next

\* Ending as staged is ending for cause.
LEMMA StagedForCause ==
    ASSUME EndsAsStaged PROVE RejectedForCause
  <1> SUFFICES ASSUME stage \in Ended
               PROVE  /\ stage = "ready" <=> Sound
                      /\ \A l \in Named(errors) : Guilty(l)
                      /\ stage = "rejected" =>
                            \/ None \in Named(errors)
                            \/ AllNamed(Unread) \/ AllNamed(UnknownBase)
                            \/ AllNamed(AtFault) \/ AllNamed(Misnested)
    BY DEF RejectedForCause
  <1>1. Verdict = <<stage, Named(errors)>>
    BY DEF EndsAsStaged
  <1>2. Sound <=> /\ Connected /\ AtFault = {} /\ Misnested = {}
                  /\ Hooked("raises") = {} /\ Incomplete = {} /\ RootLexicons \subseteq DOMAIN raw
    BY DEF Sound, Hooked, Incomplete
  <1>3. CASE stage = "ready"
    <2>1. Named(errors) = {} /\ Sound
      BY <1>1, <1>2, <1>3 DEF Verdict, Legible, Connected
    <2> QED BY <1>3, <2>1
  <1>4. CASE stage = "raised"
    <2>1. Named(errors) = {} /\ ~Sound
      BY <1>1, <1>2, <1>4 DEF Verdict, Legible, Connected
    <2> QED BY <1>4, <2>1
  <1>5. CASE stage = "rejected"
    <2>1. ~Sound
      BY <1>1, <1>2, <1>5 DEF Verdict, Legible, Connected
    <2>2. CASE Named(errors) = {None}
      <3>1. \/ ~Legible \/ Cycles # {} \/ ~(RootLexicons \subseteq DOMAIN raw)
            \/ None \in Unread \cup UnknownBase \cup AtFault \cup Misnested
        BY <1>1, <1>5, <2>2 DEF Verdict, Legible, Connected
      <3> QED BY <1>5, <2>1, <2>2, <3>1 DEF Guilty
    <2>3. CASE Named(errors) # {None}
      <3>1. \/ Named(errors) = Unread /\ Unread # {}
            \/ Named(errors) = UnknownBase /\ UnknownBase # {}
            \/ Named(errors) = AtFault /\ AtFault # {}
            \/ Named(errors) = Misnested /\ Misnested # {}
        BY <1>1, <1>5, <2>3 DEF Verdict
      <3> QED BY <1>5, <2>1, <3>1 DEF Guilty, AllNamed
    <2> QED BY <2>2, <2>3
  <1> QED BY <1>3, <1>4, <1>5 DEF Ended

\* Whatever the files say, the loader accepts them exactly when nothing is
\* wrong with what they inherit and say, an error names no lexicon that is
\* without fault, and a rejection is complete for one kind of fault at least.
THEOREM RejectedForCauseHolds == Spec => []RejectedForCause
  <1>1. Init => CauseInv
    <2> SUFFICES ASSUME Init PROVE CauseInv
      OBVIOUS
    <2>1. DOMAIN raw = {} /\ stage = "read" /\ DOMAIN resolved = {}
      BY DEF Init, Nothing
    <2>2. InheritInv
      BY <2>1, Initial, FS_EmptySet DEF InheritInv, InheritsNearest
    <2> QED BY <2>1, <2>2 DEF CauseInv, EndsAsStaged, Ended
  <1>2. CauseInv => RejectedForCause
    BY StagedForCause DEF CauseInv
  <1> QED BY <1>1, <1>2, CauseInductive, PTL DEF Spec
=============================================================================
