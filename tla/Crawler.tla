------------------------------ MODULE Crawler ------------------------------
(***************************************************************************)
(* The crawler: it walks the scan roots of the share, parses the path of   *)
(* each terminal directory, takes its inventory, derives which pending     *)
(* deliveries are superseded, and posts each delivery to the registry.     *)
(*                                                                         *)
(* A crawl takes long, and the share changes under it: every scandir and   *)
(* every request is an action.  cron starts a crawl whether or not an      *)
(* earlier one is still running.                                           *)
(*                                                                         *)
(* A path is the sequence of the names it is made of, a scan root being    *)
(* one name; a version is the sequence of the digits behind its "v".  The  *)
(* status of a delivery is written by crawls and by its reviewers; what    *)
(* else the registry keeps and tells of it is in Registry.                 *)
(***************************************************************************)
EXTENDS Naturals, SequencesExt

CONSTANTS
    Crawl,        \* crawler processes
    Path,         \* the paths that may exist on the share
    Shares,       \* the trees the share may hold at first
    Unsettled,    \* bound: the directories that come and go
    Root,         \* scan_roots
    Target,       \* Target[r]: the directory to enter below each dpid of r
    RootLexicon,  \* RootLexicon[r]: the lexicon of r
    Exclusions,   \* dp_id_exclusions
    LexiconId,    \* the lexicons that files define
    Installed,    \* what the lexicon files may define when the registry starts
    Status,       \* status names
    Statuses,     \* Statuses[l]: the statuses of l
    Transitions,  \* Transitions[l][s]: the statuses that may follow s in l
    DirMap,       \* DirMap[l]: a function from terminal names to statuses
    SubDirs,      \* SubDirs[l]: a function from directory names to lexicons
    Hooked,       \* the lexicons with the hook soc.qa:derive
    Parsed,       \* Parsed[n]: what the version directory name n says; its
                  \* domain has the names that match the pattern
    MaxAttempts,  \* attempts of a POST (4 in the code)
    MaxChanges,   \* bound: changes of the share
    MaxFaults,    \* bound: failing calls, kills and registry restarts
    MaxPatches,   \* bound: statuses that reviewers write
    NoDelivery    \* "no delivery"

Digits == Seq(0..9) \ {<<>>}

ASSUME PathAssumption ==
    /\ Root # {} /\ IsFiniteSet(Path)
    /\ \A p \in Path : p \in Seq(STRING) /\ Len(p) \in 1..7 /\ p[1] \in Root
    /\ \A p \in Path : \A n \in 1..Len(p) : SubSeq(p, 1, n) \in Path
    /\ Shares \subseteq SUBSET Path /\ Unsettled \subseteq Path
    /\ \A s \in Shares : \A p \in s : \A n \in 1..Len(p) : SubSeq(p, 1, n) \in s
ASSUME NameAssumption ==
    /\ Target \in [Root -> STRING]
    /\ \A n \in DOMAIN Parsed : Parsed[n].version \in Digits
ASSUME CrawlLexiconAssumption ==
    /\ RootLexicon \in [Root -> LexiconId] /\ Installed \subseteq SUBSET LexiconId
    /\ Statuses \in [LexiconId -> SUBSET Status]
    /\ Transitions \in [LexiconId -> [Status -> SUBSET Status]]
    /\ Hooked \subseteq LexiconId
    /\ \A l \in LexiconId : /\ \A t \in DOMAIN DirMap[l] : DirMap[l][t] \in Status
                            /\ \A n \in DOMAIN SubDirs[l] :
                                  n \in STRING /\ SubDirs[l][n] \in LexiconId
ASSUME HookAssumption == {"pending", "failed"} \subseteq Status
ASSUME CrawlBoundAssumption ==
    /\ IsFiniteSet(Crawl)
    /\ MaxAttempts \in Nat \ {0}
    /\ MaxChanges \in Nat /\ MaxFaults \in Nat /\ MaxPatches \in Nat

VARIABLES
    tree,       \* the directories on the share
    phase,      \* phase[c]: where crawl c is
    todo,       \* todo[c]: directories c still has to list or to look at
    found,      \* found[c]: the candidates of its walk
    taken,      \* taken[c]: deliveries parsed, then those left to be posted
    current,    \* current[c]: the delivery whose POST is attempted again
    tries,      \* tries[c]: failed attempts of that POST
    manifests,  \* the directories that have a manifest
    errors,     \* the directories that have an error manifest
    loaded,     \* the lexicons of the registry's process
    rows,       \* rows[p]: lexicon and status of the delivery at p, or NoDelivery
    patched,    \* history: the deliveries whose status was written by a
                \* reviewer after a crawl wrote it last
    changes, faults, patches,  \* how many so far
    clean,      \* history: clean[c] if nothing has changed or failed, and no
                \* crawl with an older view has run, since c began
    disturbed   \* history: a directory has vanished or could not be listed,
                \* or crawls with different views have overlapped

shareVars == <<tree, changes>>
crawlVars == <<phase, todo, found, taken, current, tries>>
diskVars  == <<manifests, errors>>
tableVars == <<loaded, rows, patched, patches>>
histVars  == <<clean, disturbed>>
vars == <<shareVars, crawlVars, diskVars, tableVars, histVars, faults>>

Delivered == [path : Path, lexicon : LexiconId, status : Status]

Running == {c \in Crawl : phase[c] \in {"walk", "parse", "post"}}

Init ==
    /\ tree \in Shares
    /\ phase = [c \in Crawl |-> "idle"]
    /\ todo = [c \in Crawl |-> {}]
    /\ found = [c \in Crawl |-> {}]
    /\ taken = [c \in Crawl |-> {}]
    /\ current = [c \in Crawl |-> NoDelivery]
    /\ tries = [c \in Crawl |-> 0]
    /\ manifests = {} /\ errors = {}
    /\ loaded \in Installed
    /\ rows = [p \in Path |-> NoDelivery]
    /\ patched = {}
    /\ changes = 0 /\ faults = 0 /\ patches = 0
    /\ clean = [c \in Crawl |-> FALSE]
    /\ disturbed = FALSE

-----------------------------------------------------------------------------
(* What a path says                                                        *)

Lexicon(p) == RootLexicon[p[1]]
VersionDir(p) == p[5]
Terminal(p) == p[6]

\* The walk enters a terminal directory that some root's lexicon knows.
ValidTerminals == UNION {DOMAIN DirMap[RootLexicon[r]] : r \in Root}

\* parse_path: the terminal is mapped by the root's own lexicon and the
\* version directory's name matches the pattern.  An excluded dp_id is
\* neither a delivery nor an error.
Matches(p) == Terminal(p) \in DOMAIN DirMap[Lexicon(p)]
              /\ VersionDir(p) \in DOMAIN Parsed
Says(p) == Parsed[VersionDir(p)]
ExcludedByName(p) == Matches(p) /\ Says(p).dp \in Exclusions
IsDelivery(p) == Matches(p) /\ Says(p).dp \notin Exclusions /\ Says(p).segments >= 3
IsParseError(p) == ~ExcludedByName(p) /\ ~IsDelivery(p)

\* A comparison of strings: "v9" is above "v10", and "v1" above "v01".
Below(v, w) ==
    \E i \in 1..Len(w) :
        /\ \A j \in 1..(i - 1) : j <= Len(v) /\ v[j] = w[j]
        /\ i > Len(v) \/ v[i] < w[i]

-----------------------------------------------------------------------------
(* derive, the hook of soc.qa                                              *)

GroupKey(d) == <<Says(d.path).workplan, Says(d.path).dp>>
Version(d) == Says(d.path).version

Group(ds, d) == {e \in ds : e.lexicon = d.lexicon /\ GroupKey(e) = GroupKey(d)}

Highest(ds) ==
    LET versions == {Version(d) : d \in ds}
    IN  CHOOSE v \in versions : \A w \in versions : ~Below(v, w)

\* The status that d is posted with, when ds has been parsed.
Derived(ds, d) ==
    IF /\ d.lexicon \in Hooked
       /\ d.status = "pending"
       /\ Version(d) # Highest(Group(ds, d))
      THEN [d EXCEPT !.status = "failed"] ELSE d

-----------------------------------------------------------------------------
(* The share                                                               *)

Above(p) == {SubSeq(p, 1, n) : n \in 1..Len(p)}
Inside(d) == {p \in Path : d \in Above(p)}

\* The share now holds `dirs`.  A crawl under way may see both trees.
Becomes(dirs) ==
    /\ changes' = changes + 1
    /\ tree' = dirs
    /\ clean' = [c \in Crawl |-> FALSE]
    /\ disturbed' = (disturbed \/ Cardinality(Running) > 1 \/ ~(tree \subseteq dirs))
    /\ UNCHANGED <<crawlVars, diskVars, tableVars, faults>>

\* A directory is delivered, or taken away.
Appears(p) == p \notin tree /\ Becomes(tree \cup Above(p))
Vanishes(p) == p \in tree /\ Becomes(tree \ Inside(p))

\* QA renames the terminal directory: to the pipeline it is another one.
Renamed(p, q) ==
    /\ p \in tree /\ q \notin tree
    /\ Len(p) = 6 /\ Len(q) = 6 /\ Front(p) = Front(q)
    /\ Becomes((tree \ Inside(p)) \cup Above(q)
               \cup {d \in Path : /\ q \in Above(d)
                                  /\ p \o SubSeq(d, 7, Len(d)) \in tree})

-----------------------------------------------------------------------------
(* Pass 1                                                                  *)

\* The walk and the inventory go depth first; siblings come in any order.
Deepest(dirs) == {d \in dirs : \A e \in dirs : Len(e) <= Len(d)}

\* A call fails, a process is killed, or the registry is started again.
Fault == faults < MaxFaults /\ faults' = faults + 1

\* Crawl c gives up or is killed: nothing of it is left in memory.
Abandon(c) ==
    /\ phase' = [phase EXCEPT ![c] = "idle"]
    /\ todo' = [todo EXCEPT ![c] = {}]
    /\ found' = [found EXCEPT ![c] = {}]
    /\ taken' = [taken EXCEPT ![c] = {}]
    /\ current' = [current EXCEPT ![c] = NoDelivery]
    /\ tries' = [tries EXCEPT ![c] = 0]

Die(c) ==
    /\ c \in Running
    /\ Fault
    /\ Abandon(c)
    /\ UNCHANGED <<shareVars, diskVars, tableVars, histVars>>

\* cron starts a crawl.  Scan roots that do not exist are skipped.
Begin(c) ==
    /\ phase[c] \in {"idle", "done"}
    /\ phase' = [phase EXCEPT ![c] = "walk"]
    /\ todo' = [todo EXCEPT ![c] = {d \in tree : Len(d) = 1}]
    /\ clean' = [clean EXCEPT ![c] = \A d \in Running : clean[d]]
    /\ disturbed' = (disturbed \/ \E d \in Running : ~clean[d])
    /\ UNCHANGED <<shareVars, found, taken, current, tries, diskVars, tableVars, faults>>

Entries(d) == {p \in tree : Len(p) = Len(d) + 1 /\ Front(p) = d}

\* The directories to list next, after d: below a dpid only its target, and
\* an excluded dpid not at all.
Descend(d) ==
    CASE Len(d) = 1 -> {Append(p, Target[d[1]]) :
                          p \in {e \in Entries(d) : Last(e) \notin Exclusions}}
      [] Len(d) \in {3, 4} -> Entries(d)
      [] OTHER -> {}

\* Mutant of Candidates: the terminals of the root's own lexicon only.
CandidatesOfRoot(d) ==
    IF Len(d) = 5
      THEN {p \in Entries(d) : Terminal(p) \in DOMAIN DirMap[Lexicon(p)]}
      ELSE {}

\* Mutant of Candidates: what an earlier crawl has seen is not looked at again.
CandidatesUnseen(d) ==
    IF Len(d) = 5
      THEN {p \in Entries(d) : Terminal(p) \in ValidTerminals /\ p \notin manifests}
      ELSE {}

Candidates(d) ==
    IF Len(d) = 5 THEN {p \in Entries(d) : Terminal(p) \in ValidTerminals} ELSE {}

\* walk_roots lists a directory.
Scan(c) ==
    /\ phase[c] = "walk"
    /\ \E d \in Deepest(todo[c]) :
          /\ todo' = [todo EXCEPT ![c] = (@ \ {d}) \cup Descend(d)]
          /\ found' = [found EXCEPT ![c] = @ \cup Candidates(d)]
    /\ UNCHANGED <<shareVars, phase, taken, current, tries, diskVars, tableVars,
                   histVars, faults>>

\* scandir raises OSError: the directory is skipped with a warning.
ScanFails(c) ==
    /\ phase[c] = "walk"
    /\ Fault
    /\ \E d \in Deepest(todo[c]) : todo' = [todo EXCEPT ![c] = @ \ {d}]
    /\ clean' = [d \in Crawl |-> FALSE]
    /\ disturbed' = TRUE
    /\ UNCHANGED <<shareVars, phase, found, taken, current, tries, diskVars, tableVars>>

WalkEnds(c) ==
    /\ phase[c] = "walk" /\ todo[c] = {}
    /\ phase' = [phase EXCEPT ![c] = "parse"]
    /\ todo' = [todo EXCEPT ![c] = found[c]]
    /\ found' = [found EXCEPT ![c] = {}]
    /\ UNCHANGED <<shareVars, taken, current, tries, diskVars, tableVars, histVars, faults>>

\* The next candidate or sub-directory that c looks at.
LooksAt(c, p) == phase[c] = "parse" /\ p \in Deepest(todo[c])

Rejects(c, p) ==
    /\ LooksAt(c, p) /\ Len(p) = 6 /\ ~IsDelivery(p)
    /\ errors' = IF IsParseError(p) THEN errors \cup {p} ELSE errors
    /\ todo' = [todo EXCEPT ![c] = @ \ {p}]
    /\ UNCHANGED <<shareVars, phase, found, taken, current, tries, manifests,
                   tableVars, histVars, faults>>

\* The inventory of p is taken, its manifest written, and its sub-directories
\* come next.
Take(c, p, lexicon, subs) ==
    /\ manifests' = manifests \cup {p}
    /\ taken' = [taken EXCEPT ![c] = @ \cup
                   {[path |-> p, lexicon |-> lexicon,
                     status |-> DirMap[Lexicon(p)][Terminal(p)]]}]
    /\ todo' = [todo EXCEPT ![c] = (@ \ {p}) \cup subs]
    /\ UNCHANGED <<shareVars, phase, found, current, tries, errors,
                   tableVars, histVars, faults>>

Takes(c, p) ==
    /\ LooksAt(c, p) /\ Len(p) = 6 /\ IsDelivery(p)
    /\ p \in tree
    /\ Take(c, p, Lexicon(p), {Append(p, n) : n \in DOMAIN SubDirs[Lexicon(p)]})

\* inventory_files raises for a directory that is gone, and nobody catches it.
TakeRaises(c, p) ==
    /\ LooksAt(c, p) /\ Len(p) = 6 /\ IsDelivery(p)
    /\ p \notin tree
    /\ Abandon(c)
    /\ UNCHANGED <<shareVars, diskVars, tableVars, histVars, faults>>

\* A sub-delivery has its parent's status and a lexicon of its own.
TakesSub(c, p) ==
    /\ LooksAt(c, p) /\ Len(p) = 7
    /\ p \in tree
    /\ Take(c, p, SubDirs[Lexicon(p)][p[7]], {})

NoSub(c, p) ==
    /\ LooksAt(c, p) /\ Len(p) = 7
    /\ p \notin tree
    /\ todo' = [todo EXCEPT ![c] = @ \ {p}]
    /\ UNCHANGED <<shareVars, phase, found, taken, current, tries, diskVars,
                   tableVars, histVars, faults>>

-----------------------------------------------------------------------------
(* Pass 2                                                                  *)

\* Mutant of Derive: statuses are derived, and deliveries posted, before all
\* directories have been looked at.
DeriveEarly(c) ==
    /\ phase[c] = "parse"
    /\ phase' = [phase EXCEPT ![c] = "post"]
    /\ taken' = [taken EXCEPT ![c] = {Derived(@, d) : d \in @}]
    /\ UNCHANGED <<shareVars, todo, found, current, tries, diskVars, tableVars,
                   histVars, faults>>

\* derive_statuses, lexicon by lexicon.
Derive(c) ==
    /\ phase[c] = "parse" /\ todo[c] = {}
    /\ phase' = [phase EXCEPT ![c] = "post"]
    /\ taken' = [taken EXCEPT ![c] = {Derived(@, d) : d \in @}]
    /\ UNCHANGED <<shareVars, todo, found, current, tries, diskVars, tableVars,
                   histVars, faults>>

\* The delivery that c posts: one at a time, in an order that depends on
\* that of the walk.
Posts(c, d) ==
    phase[c] = "post" /\ d \in (IF tries[c] = 0 THEN taken[c] ELSE {current[c]})

\* create_delivery answers 422 to a lexicon its process has not loaded and
\* to a status the lexicon does not have.
Accepts(d) == d.lexicon \in loaded /\ d.status \in Statuses[d.lexicon]

\* upsert_delivery: whatever the row says, d's lexicon and status replace it.
Upsert(d) ==
    /\ rows' = [rows EXCEPT ![d.path] = [lexicon |-> d.lexicon, status |-> d.status]]
    /\ patched' = patched \ {d.path}

\* Mutant of PostAnswered: the attempts of the next POST are not counted
\* from the start.
PostAnsweredKeepsTries(c, d) ==
    /\ Posts(c, d)
    /\ Accepts(d)
    /\ Upsert(d)
    /\ taken' = [taken EXCEPT ![c] = @ \ {d}]
    /\ UNCHANGED <<shareVars, phase, todo, found, current, tries, diskVars,
                   loaded, patches, histVars, faults>>

PostAnswered(c, d) ==
    /\ Posts(c, d)
    /\ Accepts(d)
    /\ Upsert(d)
    /\ taken' = [taken EXCEPT ![c] = @ \ {d}]
    /\ current' = [current EXCEPT ![c] = NoDelivery]
    /\ tries' = [tries EXCEPT ![c] = 0]
    /\ UNCHANGED <<shareVars, phase, todo, found, diskVars, loaded, patches,
                   histVars, faults>>

\* A 5xx or no answer; the row may have been written.  The POST is repeated,
\* and after its last attempt the crawl ends: RegistryUnreachableError.
PostFails(c, d) ==
    /\ Posts(c, d)
    /\ Fault
    /\ \/ UNCHANGED <<rows, patched>>
       \/ Accepts(d) /\ Upsert(d)
    /\ IF tries[c] + 1 < MaxAttempts
         THEN /\ tries' = [tries EXCEPT ![c] = @ + 1]
              /\ current' = [current EXCEPT ![c] = d]
              /\ UNCHANGED <<phase, todo, found, taken>>
         ELSE Abandon(c)
    /\ UNCHANGED <<shareVars, diskVars, loaded, patches, histVars>>

\* RegistryClientError ends the crawl at once.
PostRefused(c, d) ==
    /\ Posts(c, d)
    /\ ~Accepts(d)
    /\ Abandon(c)
    /\ UNCHANGED <<shareVars, diskVars, tableVars, histVars, faults>>

CrawlEnds(c) ==
    /\ phase[c] = "post" /\ taken[c] = {}
    /\ phase' = [phase EXCEPT ![c] = "done"]
    /\ UNCHANGED <<shareVars, todo, found, taken, current, tries, diskVars,
                   tableVars, histVars, faults>>

\* The registry's process reads the lexicon files when it starts; they may
\* be older or newer than those the crawlers read.
RegistryRestart ==
    /\ Fault
    /\ loaded' \in Installed
    /\ UNCHANGED <<shareVars, crawlVars, diskVars, rows, patched, patches, histVars>>

Known(p) == rows[p] # NoDelivery

\* update_single_delivery: a reviewer's verdict on the delivery at p.  The
\* registry knows its lexicon, and s may follow the status it has now.
Patch(p, s) ==
    /\ patches < MaxPatches /\ patches' = patches + 1
    /\ Known(p) /\ s # rows[p].status
    /\ rows[p].lexicon \in loaded
    /\ s \in Statuses[rows[p].lexicon] \cap Transitions[rows[p].lexicon][rows[p].status]
    /\ rows' = [rows EXCEPT ![p].status = s]
    /\ patched' = patched \cup {p}
    /\ UNCHANGED <<shareVars, crawlVars, diskVars, loaded, histVars, faults>>

-----------------------------------------------------------------------------
ParseStep(c) ==
    \E p \in todo[c] : \/ Rejects(c, p)
                       \/ Takes(c, p) \/ TakeRaises(c, p)
                       \/ TakesSub(c, p) \/ NoSub(c, p)

PostStep(c) == \E d \in taken[c] : PostAnswered(c, d) \/ PostRefused(c, d)

CrawlStep(c) ==
    \/ Scan(c) \/ WalkEnds(c)
    \/ ParseStep(c) \/ Derive(c)
    \/ PostStep(c) \/ CrawlEnds(c)

ShareStep ==
    /\ changes < MaxChanges
    /\ \/ \E p \in Unsettled : Appears(p) \/ Vanishes(p)
       \/ \E p, q \in Unsettled : Renamed(p, q)

Next ==
    \/ ShareStep
    \/ RegistryRestart
    \/ \E p \in Path, s \in Status : Patch(p, s)
    \/ \E c \in Crawl :
          \/ Begin(c) \/ CrawlStep(c)
          \/ ScanFails(c) \/ Die(c)
          \/ \E d \in taken[c] : PostFails(c, d)

Spec == Init /\ [][Next]_vars

\* cron starts crawls for ever, and not all of them come to a stand.
Fairness == WF_vars(\E c \in Crawl : Begin(c) \/ CrawlStep(c))

FairSpec == Spec /\ Fairness

-----------------------------------------------------------------------------
(* Properties                                                              *)

\* The type invariant.
TypeOK ==
    /\ tree \subseteq Path
    /\ phase \in [Crawl -> {"idle", "walk", "parse", "post", "done"}]
    /\ todo \in [Crawl -> SUBSET Seq(STRING)]
    /\ found \in [Crawl -> SUBSET Path]
    /\ taken \in [Crawl -> SUBSET Delivered]
    /\ current \in [Crawl -> Delivered \cup {NoDelivery}]
    /\ tries \in [Crawl -> 0..(MaxAttempts - 1)]
    /\ \A c \in Crawl : tries[c] > 0 => current[c] \in taken[c]
    /\ manifests \subseteq Path /\ errors \subseteq Path
    /\ loaded \subseteq LexiconId
    /\ rows \in [Path -> [lexicon : LexiconId, status : Status] \cup {NoDelivery}]
    /\ patched \subseteq Path
    /\ changes \in 0..MaxChanges /\ faults \in 0..MaxFaults /\ patches \in 0..MaxPatches
    /\ clean \in [Crawl -> BOOLEAN] /\ disturbed \in BOOLEAN

\* The number that the digits of a version mean.
Number(v) ==
    LET upTo[n \in 0..Len(v)] == IF n = 0 THEN 0 ELSE 10 * upTo[n - 1] + v[n]
    IN  upTo[Len(v)]

\* p's lexicon when it is a delivery or a sub-delivery on the share, and
\* where it gets its status from.
Parent(p) == SubSeq(p, 1, 6)
Wanted(p) ==
    /\ p \in tree /\ Len(p) \in {6, 7}
    /\ p[3] = Target[p[1]] /\ p[2] \notin Exclusions
    /\ IsDelivery(p)
    /\ Len(p) = 7 => p[7] \in DOMAIN SubDirs[Lexicon(p)]
LexiconOf(p) == IF Len(p) = 6 THEN Lexicon(p) ELSE SubDirs[Lexicon(p)][p[7]]

Rivals(p) == {q \in tree : /\ Wanted(q) /\ LexiconOf(q) = LexiconOf(p)
                           /\ Says(q).workplan = Says(p).workplan
                           /\ Says(q).dp = Says(p).dp}

\* Versions are written with the same number of digits.
SameWidth(ps) == \A p, q \in ps : Len(Says(p).version) = Len(Says(q).version)

\* The status that the documents of the crawler give to p.
RightStatus(p) ==
    LET mapped == DirMap[Lexicon(p)][Terminal(p)]
    IN  IF /\ LexiconOf(p) \in Hooked /\ mapped = "pending"
           /\ \E q \in Rivals(p) : Number(Says(q).version) > Number(Says(p).version)
          THEN "failed" ELSE mapped

\* The registry says of every delivery on the share what the share says, but
\* for the status of those in `reviewed`.
AgreesBut(reviewed) ==
    \A p \in tree : Wanted(p) => \E s \in Status :
        /\ rows[p] = [lexicon |-> LexiconOf(p), status |-> s]
        /\ p \notin reviewed /\ SameWidth(Rivals(p)) => s = RightStatus(p)

\* Every terminal directory that the walk reaches has left its evidence.
Evidence ==
    \A p \in tree :
        /\ Wanted(p) => p \in manifests
        /\ /\ Len(p) = 6 /\ Terminal(p) \in ValidTerminals
           /\ p[3] = Target[p[1]] /\ p[2] \notin Exclusions
           /\ IsParseError(p)
           => p \in errors

\* A crawl that comes to its end has brought the registry and the manifests
\* up to date with the whole share, provided that the share stood still and
\* could be read and that no crawl with an older view was under way.  Only
\* the statuses that reviewers have written since may differ.
CleanCrawlAgrees ==
    \A c \in Crawl : phase[c] = "done" /\ clean[c] => AgreesBut(patched) /\ Evidence

\* A change of p's row is one that its lexicon allows.
MovesForward(p) == rows'[p].status \in Transitions[rows[p].lexicon][rows[p].status]

\* A crawl overwrites what a reviewer has made of p.
Overrules(p) == p \in patched \ patched'

\* The status of a delivery moves along the transitions of its lexicon only,
\* by PATCHes and by crawls (upsert_delivery checks no transition), unless a
\* directory vanished or was not listed (a version that supersedes others is
\* missing), crawls with different views overlapped, or a crawl overwrites a
\* reviewer's verdict.
CrawlsMoveForward ==
    [][\A p \in Path :
         Known(p) /\ rows'[p] # rows[p] /\ ~disturbed => MovesForward(p) \/ Overrules(p)]_vars

\* However crawls overlap, fail and are killed: when the share and the
\* registry have come to rest, the registry comes to agree with the share
\* and stays so; of the verdicts of reviewers nothing remains then.
EventuallyAgrees == <>[](loaded = LexiconId) => <>[]AgreesBut({})

=============================================================================
