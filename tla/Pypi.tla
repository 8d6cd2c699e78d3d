-------------------------------- MODULE Pypi --------------------------------
(***************************************************************************)
(* The PyPI adapter: one request for the root of the Simple API, which     *)
(* lists every project with the serial of its last change, then one for    *)
(* the page of each project that has changed.  Pages come from a cache     *)
(* that may be behind the root, and their serial is not looked at.         *)
(***************************************************************************)
EXTENDS Analysis

CONSTANTS
    Projects,   \* the number of projects; 1..Projects in the order of the workset
    MaxSerial   \* bound: changes of the index

ASSUME PypiAssumption == {Projects, MaxSerial} \subseteq Nat \ {0}

VARIABLES
    serial,   \* the index: the serial of its last change,
    project,  \* and [serial, page] of each project, serial 0 when it is not there
    cached,   \* the page the cache has of each project
    todo,     \* the workset of the analysis
    behind    \* projects whose page was older than the serial the root gave

index == <<serial, project, cached, todo, behind>>
pvars == <<anvars, index>>

PageOf(p) == <<p, 0>>
FileOf(p, n) == <<p, n>>
NoPage == Blob
AllProjects == 1..Projects

PypiInit ==
    /\ AnalysisInit
    /\ serial = 0
    /\ project = [p \in AllProjects |-> [serial |-> 0, page |-> NoPage]]
    /\ cached = [p \in AllProjects |-> NoPage]
    /\ todo = {}
    /\ behind = {}

-----------------------------------------------------------------------------
(* A release is uploaded or taken back; the project itself may go, and     *)
(* then its page is gone at once and the root does not list it any more.   *)
UploadFile(p) ==
    /\ serial < MaxSerial
    /\ serial' = serial + 1
    /\ \E files \in {project[p].page.files \cup {serial'}, {serial'}} :
          project' = [project EXCEPT ![p] =
              [serial |-> serial', page |-> [rev |-> serial', files |-> files]]]
    /\ UNCHANGED <<anvars, cached, todo, behind>>

Remove(p) ==
    /\ project[p].serial > 0
    /\ serial < MaxSerial
    /\ serial' = serial + 1
    /\ project' = [project EXCEPT ![p] = [serial |-> 0, page |-> NoPage]]
    /\ cached' = [cached EXCEPT ![p] = NoPage]
    /\ UNCHANGED <<anvars, todo, behind>>

Refresh(p) ==
    /\ cached[p] # project[p].page
    /\ cached' = [cached EXCEPT ![p] = project[p].page]
    /\ UNCHANGED <<anvars, serial, project, todo, behind>>

-----------------------------------------------------------------------------
(* streamRootChanges: what has changed behind the base serial, up to the   *)
(* serial of the root; a project that is not listed is not looked at.      *)
NotTheNext(base) == {p \in AllProjects : project[p].serial > base + 1}
ChangedSince(base) == {p \in AllProjects : project[p].serial > base}
StartPypi ==
    /\ serial >= cursor
    /\ Begin(serial, "pages")
    /\ todo' = ChangedSince(cursor)
    /\ UNCHANGED <<serial, project, cached, behind>>

(* A file is planned unless the catalog has it, the page unless it is the  *)
(* one in the catalog.                                                     *)
FilesSinceCursor(p, page) == {n \in page.files : n > cursor}
NewFiles(p, page) == {n \in page.files : Needed(FileOf(p, n), Blob)}
PageUpdate(p, page) ==
    Put(IF Needed(PageOf(p), page) THEN Row(PageOf(p), Add(page)) ELSE NoRow,
        [path \in {FileOf(p, n) : n \in NewFiles(p, page)} |-> Add(Blob)])

(* A page: the unit is declared with no artifacts before the page is read, *)
(* its artifacts are put, and it is declared again with their number.      *)
PlanProject ==
    LET p == Min(todo)
        page == cached[p]
        artifacts == PageUpdate(p, page)
        count == Cardinality(DOMAIN artifacts)
        opened == Declared(plan, p, 0)
    IN  /\ step = "pages"
        /\ todo # {}
        /\ IF page # NoPage /\ Declarable(opened, p, count)
             THEN /\ plan' = Declared(With(opened, p, artifacts), p, count)
                  /\ todo' = todo \ {p}
                  /\ behind' = IF page.rev < project[p].serial THEN behind \cup {p} ELSE behind \ {p}
                  /\ UNCHANGED step
             ELSE Aborted /\ todo' = {} /\ UNCHANGED behind
        /\ UNCHANGED <<adapter, cursor, catalog, serial, project, cached>>

CommitPypi ==
    /\ step = "pages"
    /\ todo = {}
    /\ Commit
    /\ UNCHANGED <<serial, project, cached, todo, behind>>

ImportPypi == adapter = "pypi" /\ Import /\ UNCHANGED <<serial, project, cached, todo, behind>>

AnalyzePypi == adapter = "pypi" /\ (StartPypi \/ PlanProject \/ CommitPypi)

PypiNext ==
    \/ adapter = "pypi" /\ \E p \in AllProjects : UploadFile(p) \/ Remove(p) \/ Refresh(p)
    \/ AnalyzePypi
    \/ ImportPypi

PypiFairness ==
    /\ \A p \in AllProjects : WF_pvars(adapter = "pypi" /\ Refresh(p))
    /\ WF_pvars(AnalyzePypi)
    /\ SF_pvars(ImportPypi)

-----------------------------------------------------------------------------
(* Every file a project page in the mirror links is in the mirror, also    *)
(* when the page was read from the cache before the files it had in an     *)
(* earlier synchronisation were taken back.                                *)
PypiServable ==
    adapter = "pypi" => \A p \in AllProjects : PageOf(p) \in DOMAIN catalog =>
        \A n \in catalog[PageOf(p)].files : FileOf(p, n) \in DOMAIN catalog

(* When the index comes to rest the mirror has the page of every project   *)
(* the index lists, but for those whose last change was listed by a root   *)
(* the cache of the page had not caught up with.                           *)
PypiCatchesUp ==
    <>[](adapter = "pypi" => \A p \in AllProjects : project[p].serial > 0 /\ p \notin behind =>
            PageOf(p) \in DOMAIN catalog /\ catalog[PageOf(p)] = project[p].page)
=============================================================================
