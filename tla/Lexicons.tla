------------------------------ MODULE Lexicons ------------------------------
(***************************************************************************)
(* The lexicon loader: what the registry and the crawler run when they     *)
(* start.  It reads the JSON files, orders the lexicons so that a base is  *)
(* resolved before what extends it, merges each into its base, checks the  *)
(* results and builds the lexicons every other component works with; then  *)
(* the configuration checks the lexicons of the scan roots.                *)
(*                                                                         *)
(* The content of a file is the function from its key paths to its values: *)
(* <<"dir_map", "msoc">> is the key "msoc" of the object "dir_map".  Of    *)
(* two nested objects so written, _deep_merge is an override of functions.  *)
(* A list whose order nobody reads is a set.                               *)
(***************************************************************************)
EXTENDS Naturals, FiniteSets, FiniteSetsExt, Functions

CONSTANTS
    LexiconIds,     \* the names a lexicon may have or refer to
    Files, IdOf,    \* the files in the order they are read; the id of each
    Directories,    \* what lexicons_dir may hold: functions from files to
                    \* content or Unreadable, or NoDirectory
    Hooks,          \* Hooks[h]: what importing the hook path h does
    RootLexicons,   \* the lexicons of the scan roots
    MaxDepth,       \* MAX_INHERITANCE_DEPTH (3 in the code)
    Unreadable, NoDirectory

None == ""          \* what JSON's null, "" and an absent key come to

ASSUME FileAssumption ==
    /\ Files \subseteq Nat /\ IdOf \in [Files -> LexiconIds] /\ None \notin LexiconIds
    /\ \A S \in (SUBSET Files) \ {{}} : \E f \in S : \A g \in S : g <= f
ASSUME LoaderAssumption ==
    /\ MaxDepth \in Nat
    /\ \A h \in DOMAIN Hooks : Hooks[h] \in {"imported", "missing", "raises"}
    /\ RootLexicons \subseteq LexiconIds

VARIABLES
    directory,  \* lexicons_dir
    stage,      \* how far the loader is, or how it has ended
    raw,        \* raw[l]: the content of l's file
    resolved,   \* resolved[l]: the same merged into what l extends
    lexicons,   \* lexicons[l]: the Lexicon built from it
    errors      \* the errors collected, each the lexicon with what is wrong

vars == <<directory, stage, raw, resolved, lexicons, errors>>

Nothing == [x \in {} |-> None]

Init ==
    /\ directory \in Directories
    /\ stage = "read"
    /\ raw = Nothing /\ resolved = Nothing /\ lexicons = Nothing
    /\ errors = {}

-----------------------------------------------------------------------------
(* Reading a file's content                                                *)

Get(data, key, default) == IF key \in DOMAIN data THEN data[key] ELSE default
Names(data, object) == {key[2] : key \in {k \in DOMAIN data : k[1] = object}}
ListOf(data, name) == Get(data, <<name>>, {})

StatusesOf(data) == ListOf(data, "statuses")
HookOf(data) == Get(data, <<"derive_hook">>, None)
SetOn(data, name) == Get(data, <<"metadata_fields", name, "set_on">>, None)
Typed(data, name) == <<"metadata_fields", name, "type">> \in DOMAIN data

\* The values that are read lie as deep as the loader looks for them.
Shaped(data) ==
    \A key \in DOMAIN data :
        /\ key[1] \in {"extends", "statuses", "actionable_statuses", "derive_hook"} => key = <<key[1]>>
        /\ key[1] \in {"transitions", "dir_map", "sub_dirs"} => key = <<key[1], key[2]>>
        /\ key[1] = "metadata_fields" => key = <<key[1], key[2], key[3]>>

\* What hooks may be named, importing them has an outcome.
ASSUME DirectoryAssumption ==
    \A d \in Directories \ {NoDirectory} :
        /\ DOMAIN d \subseteq Files
        /\ \A f \in DOMAIN d : d[f] = Unreadable
              \/ (Shaped(d[f]) /\ HookOf(d[f]) \in DOMAIN Hooks \cup {None})

-----------------------------------------------------------------------------
(* Files and inheritance                                                   *)

\* _discover_lexicon_files: a/b.json and a.b.json have the same id; the
\* one that sorts last is read, the other never opened.
FileOf(l) == Max({f \in DOMAIN directory : IdOf[f] = l})
Discovered == {IdOf[f] : f \in DOMAIN directory}
Unread == {l \in Discovered : directory[FileOf(l)] = Unreadable}

Base(l) == Get(raw[l], <<"extends">>, None)
UnknownBase == {l \in DOMAIN raw : Base(l) # None /\ Base(l) \notin DOMAIN raw}

\* Line(l)[n]: the lexicon n steps up from l, None above the top.
Line(l) ==
    LET up[n \in 0..Cardinality(DOMAIN raw)] ==
            IF n = 0 THEN l ELSE IF up[n-1] = None THEN None ELSE Base(up[n-1])
    IN up
Circular == {l \in DOMAIN raw : Line(l)[Cardinality(DOMAIN raw)] # None}
Depth(l) == Cardinality({n \in DOMAIN Line(l) \ {0} : Line(l)[n] # None})

\* Mutant of TooDeep: the lexicons of a line are counted, not its steps.
TooDeepByOne == {l \in DOMAIN raw : Depth(l) >= MaxDepth}

TooDeep == {l \in DOMAIN raw : Depth(l) > MaxDepth}

\* _deep_merge: the child's keys win.
DeepMerge(base, child) ==
    [key \in DOMAIN base \cup DOMAIN child |-> IF key \in DOMAIN child THEN child[key] ELSE base[key]]

\* What l says, merged into what its base, if resolved, says.
Whole(l) ==
    IF Base(l) \in DOMAIN resolved THEN DeepMerge(resolved[Base(l)], raw[l]) ELSE raw[l]

\* Mutant of Merged: "extends" is merged like any other key.
MergedWithExtends(l) == Whole(l)

\* _resolve_single: "extends" is not inherited.
Merged(l) == [key \in DOMAIN Whole(l) \ {<<"extends">>} |-> Whole(l)[key]]

-----------------------------------------------------------------------------
(* Checking and building                                                   *)

\* _validate_lexicon: the key at fault, with the status it wrongly names.
InvalidIn(data) ==
    LET known == StatusesOf(data)
        from == Names(data, "transitions")
    IN  (IF known = {} THEN {<<"statuses", None>>} ELSE {})
        \cup {<<"transitions", s>> :
                s \in (from \cup UNION {data[<<"transitions", f>>] : f \in from}) \ known}
        \cup {<<"dir_map", s>> :
                s \in {data[<<"dir_map", d>>] : d \in Names(data, "dir_map")} \ known}
        \cup {<<"actionable_statuses", s>> : s \in ListOf(data, "actionable_statuses") \ known}
        \cup {<<"set_on", s>> : s \in {SetOn(data, f) : f \in Names(data, "metadata_fields")}
                                      \ (known \cup {None})}

Imports(outcome) == {l \in DOMAIN resolved : /\ HookOf(resolved[l]) # None
                                             /\ Hooks[HookOf(resolved[l])] = outcome}

\* Mutant of BatchErrors: the files are checked before they are merged.
BatchErrorsOfFiles ==
    (UNION {{<<l, e>> : e \in InvalidIn(raw[l])} : l \in DOMAIN raw})
    \cup {<<l, <<"derive_hook", None>>>> : l \in Imports("missing")}

BatchErrors ==
    (UNION {{<<l, e>> : e \in InvalidIn(resolved[l])} : l \in DOMAIN resolved})
    \cup {<<l, <<"derive_hook", None>>>> : l \in Imports("missing")}

\* _build_lexicon: a metadata field without a type raises KeyError.
Untyped == {l \in DOMAIN resolved : \E f \in Names(resolved[l], "metadata_fields") :
                ~Typed(resolved[l], f)}
Built(data) ==
    [statuses    |-> StatusesOf(data),
     transitions |-> [s \in Names(data, "transitions") |-> data[<<"transitions", s>>]],
     dir_map     |-> [d \in Names(data, "dir_map") |-> data[<<"dir_map", d>>]],
     actionable_statuses |-> ListOf(data, "actionable_statuses"),
     set_on      |-> [f \in Names(data, "metadata_fields") |-> SetOn(data, f)],
     derive_hook |-> HookOf(data),
     sub_dirs    |-> [d \in Names(data, "sub_dirs") |-> data[<<"sub_dirs", d>>]]]

\* _validate_sub_dirs: a subsidiary lexicon is loaded and has none itself.
SubLexicons(l) == Range(lexicons[l].sub_dirs)
SubDirErrors ==
    UNION {{<<l, <<"sub_dirs", s>>>> : s \in {x \in SubLexicons(l) :
                x \notin DOMAIN lexicons \/ SubLexicons(x) # {}}} : l \in DOMAIN lexicons}

-----------------------------------------------------------------------------
(* The steps of load_all_lexicons                                          *)

\* LexiconLoadError(found), and nothing is loaded.
Reject(found) == stage' = "rejected" /\ errors' = found
\* Another exception: what was collected is not reported.
Raise == stage' = "raised" /\ errors' = {}

ReadFiles ==
    /\ stage = "read"
    /\ IF directory = NoDirectory THEN Reject({<<None, <<"directory", None>>>>}) /\ raw' = raw
       ELSE IF directory = Nothing THEN Reject({<<None, <<"files", None>>>>}) /\ raw' = raw
       ELSE IF Unread # {} THEN Reject({<<l, <<"file", None>>>> : l \in Unread}) /\ raw' = raw
       ELSE /\ raw' = [l \in Discovered |-> directory[FileOf(l)]]
            /\ stage' = "order" /\ UNCHANGED errors
    /\ UNCHANGED <<directory, resolved, lexicons>>

\* The order is found first, so that a cycle is not reported as a depth.
Order ==
    /\ stage = "order"
    /\ IF UnknownBase # {} THEN Reject({<<l, <<"extends", Base(l)>>>> : l \in UnknownBase})
       ELSE IF Circular # {} THEN Reject({<<None, <<"circular", None>>>>})
       ELSE stage' = "resolve" /\ errors' = {<<l, <<"depth", None>>>> : l \in TooDeep}
    /\ UNCHANGED <<directory, raw, resolved, lexicons>>

\* Mutant of Ready: the files are resolved in any order.
ReadyAtOnce(l) == l \in DOMAIN raw

\* The topological order: which of several ready lexicons comes first is
\* left open.
Ready(l) == Base(l) = None \/ Base(l) \in DOMAIN resolved

Resolve(l) ==
    /\ stage = "resolve" /\ l \in DOMAIN raw \ DOMAIN resolved /\ Ready(l)
    /\ resolved' = [m \in DOMAIN resolved \cup {l} |-> IF m = l THEN Merged(l) ELSE resolved[m]]
    /\ UNCHANGED <<directory, stage, raw, lexicons, errors>>

Validate ==
    /\ stage = "resolve" /\ DOMAIN resolved = DOMAIN raw
    /\ IF Imports("raises") # {} THEN Raise
       ELSE IF errors \cup BatchErrors # {} THEN Reject(errors \cup BatchErrors)
       ELSE stage' = "build" /\ UNCHANGED errors
    /\ UNCHANGED <<directory, raw, resolved, lexicons>>

Build ==
    /\ stage = "build"
    /\ IF Untyped # {} THEN Raise /\ UNCHANGED lexicons
       ELSE /\ lexicons' = [l \in DOMAIN resolved |-> Built(resolved[l])]
            /\ stage' = "sub_dirs" /\ UNCHANGED errors
    /\ UNCHANGED <<directory, raw, resolved>>

CheckSubDirs ==
    /\ stage = "sub_dirs"
    /\ IF SubDirErrors # {} THEN Reject(SubDirErrors)
       ELSE stage' = "loaded" /\ UNCHANGED errors
    /\ UNCHANGED <<directory, raw, resolved, lexicons>>

\* load_config, with what load_all_lexicons has returned.
CheckRoots ==
    /\ stage = "loaded"
    /\ IF RootLexicons \subseteq DOMAIN lexicons THEN stage' = "ready" /\ UNCHANGED errors
       ELSE Reject({<<None, <<"scan_root", l>>>> : l \in RootLexicons \ DOMAIN lexicons})
    /\ UNCHANGED <<directory, raw, resolved, lexicons>>

Next == \/ ReadFiles \/ Order \/ (\E l \in LexiconIds : Resolve(l))
        \/ Validate \/ Build \/ CheckSubDirs \/ CheckRoots

Spec == Init /\ [][Next]_vars

-----------------------------------------------------------------------------
(* Properties                                                              *)

Ended == {"rejected", "raised", "ready"}

\* The variables keep their types: what is resolved, or built, was read, and
\* says no more what it extends.
TypeOK ==
    /\ stage \in {"read", "order", "resolve", "build", "sub_dirs", "loaded"} \cup Ended
    /\ DOMAIN raw \subseteq LexiconIds /\ DOMAIN resolved \subseteq DOMAIN raw
    /\ DOMAIN lexicons \in {{}, DOMAIN raw}
    /\ \A l \in DOMAIN resolved : <<"extends">> \notin DOMAIN resolved[l]
    /\ \A e \in errors : e[1] \in LexiconIds \cup {None}

\* What every other component relies on: a lexicon that is loaded names only
\* statuses of its own, after inheritance; its hook was imported; and its
\* subsidiary lexicons are loaded and have none of their own.
LoadedIsSound ==
    stage \in {"loaded", "ready"} =>
        \A l \in DOMAIN lexicons : LET lex == lexicons[l] IN
            /\ lex.statuses # {}
            /\ DOMAIN lex.transitions \subseteq lex.statuses
            /\ \A s \in DOMAIN lex.transitions : lex.transitions[s] \subseteq lex.statuses
            /\ Range(lex.dir_map) \subseteq lex.statuses
            /\ lex.actionable_statuses \subseteq lex.statuses
            /\ Range(lex.set_on) \subseteq lex.statuses \cup {None}
            /\ lex.derive_hook = None \/ Hooks[lex.derive_hook] = "imported"
            /\ \A m \in Range(lex.sub_dirs) :
                    m \in DOMAIN lexicons /\ DOMAIN lexicons[m].sub_dirs = {}

\* The reference for inheritance: a key has the value of the nearest lexicon
\* in the line that gives it one.
InLine(l) == {n \in DOMAIN Line(l) : Line(l)[n] # None}
KeysOfLine(l) == (UNION {DOMAIN raw[Line(l)[n]] : n \in InLine(l)}) \ {<<"extends">>}
Nearest(l) ==
    [key \in KeysOfLine(l) |->
        raw[Line(l)[Min({n \in InLine(l) : key \in DOMAIN raw[Line(l)[n]]})]][key]]

\* A child inherits every key from the nearest ancestor that has it,
\* whichever order the ready lexicons are resolved in (_resolve_single,
\* _deep_merge).
InheritsNearest == \A l \in DOMAIN resolved : resolved[l] = Nearest(l)

\* The faults, looked for in all files at once.  A set of lexicons each of which extends
\* one of the set has a cycle; the lexicons above one are those of every set
\* that is closed under extending.
Cycles == {S \in (SUBSET DOMAIN raw) \ {{}} : \A l \in S : Base(l) \in S}
Above(l) == {m \in DOMAIN raw : \A S \in SUBSET DOMAIN raw :
                (\A x \in S \cup {l} : Base(x) \in S \cup {None}) => m \in S}
Closed(data) ==
    LET known == StatusesOf(data) IN
    /\ known # {}
    /\ \A key \in DOMAIN data :
          /\ key[1] = "transitions" => key[2] \in known /\ data[key] \subseteq known
          /\ key[1] = "dir_map" => data[key] \in known
          /\ key[1] = "actionable_statuses" => data[key] \subseteq known
          /\ key[1] = "metadata_fields" /\ key[3] = "set_on" => data[key] \in known \cup {None}
HookIs(data, outcome) == HookOf(data) # None /\ Hooks[HookOf(data)] = outcome
SubsOf(data) == {data[<<"sub_dirs", d>>] : d \in Names(data, "sub_dirs")}

AtFault == {l \in DOMAIN raw : \/ Cardinality(Above(l)) > MaxDepth
                               \/ ~Closed(Nearest(l))
                               \/ HookIs(Nearest(l), "missing")}
Misnested == {l \in DOMAIN raw : \E s \in SubsOf(Nearest(l)) :
                s \notin DOMAIN raw \/ SubsOf(Nearest(s)) # {}}
HasUntyped(data) == \E f \in Names(data, "metadata_fields") :
                        <<"metadata_fields", f, "type">> \notin DOMAIN data

\* Files that say nothing wrong, whoever checks first.
Legible == directory \notin {NoDirectory, Nothing} /\ Unread = {}
Connected == Legible /\ UnknownBase = {} /\ Cycles = {}
Sound ==
    /\ Connected /\ AtFault = {} /\ Misnested = {}
    /\ \A l \in DOMAIN raw : ~HookIs(Nearest(l), "raises") /\ ~HasUntyped(Nearest(l))
    /\ RootLexicons \subseteq DOMAIN raw

\* What an error may rightly name; None is the directory, the lexicons of a
\* cycle or a scan root's.
Guilty(l) ==
    \/ l = None /\ \/ ~Legible \/ Cycles # {} \/ ~(RootLexicons \subseteq DOMAIN raw)
    \/ l \in Unread \/ l \in UnknownBase \/ l \in AtFault \/ l \in Misnested

Named(found) == {e[1] : e \in found}
AllNamed(faulty) == faulty # {} /\ faulty \subseteq Named(errors)

\* The lexicons are accepted exactly when nothing is wrong with what they
\* inherit and say; an error names no lexicon that is without fault; and a
\* rejection is complete for one kind of fault at least (load_all_lexicons).
RejectedForCause ==
    stage \in Ended =>
        /\ stage = "ready" <=> Sound
        /\ \A l \in Named(errors) : Guilty(l)
        /\ stage = "rejected" => \/ None \in Named(errors)
                                 \/ AllNamed(Unread) \/ AllNamed(UnknownBase)
                                 \/ AllNamed(AtFault) \/ AllNamed(Misnested)
=============================================================================
